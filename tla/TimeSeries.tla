----------------------------- MODULE TimeSeries -----------------------------
(***************************************************************************)
(* What the time-series tables of package db have in common: rows carry a  *)
(* wall-clock second, the retention loop of the poller deletes what is     *)
(* older than Retention, and every page and endpoint reads a window that   *)
(* ends now.  The clock is assumed not to step back.                       *)
(***************************************************************************)
EXTENDS Sorting, Sequences

CONSTANTS
    Peer,       \* public keys, as numbers: in their order
    Retention,  \* Poller.Retention
    Ranges,     \* the windows a request may ask for (rangeEnumMap)
    MaxTime     \* bound on the clock

ASSUME TimeSeriesAssumption ==
    /\ Peer \subseteq Nat \ {0} /\ IsFiniteSet(Peer)
    /\ Retention \in Nat
    /\ Ranges \subseteq Nat /\ Ranges # {}
    /\ \A r \in Ranges : r <= Retention
    /\ MaxTime \in Nat \ {0}

VARIABLE time       \* the current second

\* Zero is the zero time.Time, "never".
Never == 0

Times == 1 .. MaxTime

TimePasses == time < MaxTime /\ time' = time + 1

\* Mutant: the horizon was not raised along with the longest range.
MutantExpired(ts) == ts < time - 1

\* What PruneBefore deletes, with the cutoff runRetentionLoop computes.
Expired(ts) == ts < time - Retention

\* ts BETWEEN from AND to, for a window of r ending now.
Within(ts, r) == ts >= time - r /\ ts <= time
=============================================================================
