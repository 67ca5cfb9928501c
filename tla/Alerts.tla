------------------------------- MODULE Alerts -------------------------------
(***************************************************************************)
(* alerts.Evaluator: one edge-triggered state machine per watched key,     *)
(* fed once per poller tick.  A key is one of the three host conditions,   *)
(* or a client, standing for its "transfer-cap:<name>" key.                *)
(*                                                                         *)
(* The code stamps times and compares their distance with a threshold; the *)
(* model keeps the distance itself, cut off at the threshold, so that time *)
(* is unbounded and the state finite.  The clock is not stepped.           *)
(***************************************************************************)
EXTENDS Naturals, Sequences

CONSTANTS
    Client,     \* names in the manifest
    Cooldown,   \* Config.Cooldown, in units of the shortest tick distance
    Sustain,    \* Config.CPUSustain
    Cap,        \* Config.TransferCapBytes
    MaxBytes,   \* bound on a transfer counter
    None        \* the zero time, or a missing map entry

Host == {"service-down", "high-disk", "high-cpu"}
Keys == Host \cup Client

ASSUME EvaluatorAssumption ==
    /\ Client \cap Host = {}
    /\ Cooldown \in Nat \ {0}
    /\ Sustain \in Nat \ {0}
    /\ Cap \in Nat \ {0}
    /\ MaxBytes \in Nat
    /\ None \notin 0 .. Sustain
    /\ None \notin [rx : 0 .. MaxBytes, tx : 0 .. MaxBytes]

\* Cumulative counters of a peer, as wg show reports them.
Counters == [rx : 0 .. MaxBytes, tx : 0 .. MaxBytes]

\* alerts.Input: peers holds the sampled clients only.  A CPU or disk value
\* is reduced to its comparison with the threshold; one that could not be
\* read is fed as low.
Input == [active : BOOLEAN, cpuHigh : BOOLEAN, diskFull : BOOLEAN,
          peers : UNION {[C -> Counters] : C \in SUBSET Client}]

VARIABLES
    firing,     \* the keys whose stateMachine is FIRING
    quiet,      \* per key, time since lastFire (read while firing only)
    highFor,    \* time since cpuHighSince, None when it is zero
    baseline    \* transferBaseline, None for a client not seen yet

evaluator == <<firing, quiet, highFor, baseline>>

EvaluatorTypeOK ==
    /\ firing \in SUBSET Keys
    /\ quiet \in [Keys -> 0 .. Cooldown]
    /\ highFor \in 0 .. Sustain \cup {None}
    /\ baseline \in [Client -> Counters \cup {None}]

\* alerts.New: also what a restart of the process leaves.
EvaluatorInit ==
    /\ firing = {}
    /\ quiet = [k \in Keys |-> 0]
    /\ highFor = None
    /\ baseline = [c \in Client |-> None]

-----------------------------------------------------------------------------
(* One tick, elapsed time units after the previous evaluation. *)

Older(age, elapsed, limit) ==
    IF age + elapsed < limit THEN age + elapsed ELSE limit

\* A tick that does not evaluate: only time passes.
Skip(elapsed) ==
    /\ quiet' = [k \in Keys |-> IF k \in firing
                               THEN Older(quiet[k], elapsed, Cooldown) ELSE 0]
    /\ highFor' = IF highFor = None THEN None
                  ELSE Older(highFor, elapsed, Sustain)
    /\ UNCHANGED <<firing, baseline>>

\* Mutant: the run is not reset by a tick below the threshold.
MutantHighRun(in, elapsed) ==
    CASE highFor # None -> Older(highFor, elapsed, Sustain)
      [] in.cpuHigh /\ highFor = None -> 0
      [] OTHER -> None

\* cpuObservation: the length of the current high run.
HighRun(in, elapsed) ==
    CASE ~in.cpuHigh -> None
      [] in.cpuHigh /\ highFor = None -> 0
      [] OTHER -> Older(highFor, elapsed, Sustain)

\* transferCapObservation: the first sample and any counter below the
\* baseline start the running totals again.
Rebase(in, c) ==
    IF \/ baseline[c] = None
       \/ in.peers[c].rx < baseline[c].rx
       \/ in.peers[c].tx < baseline[c].tx
    THEN in.peers[c]
    ELSE baseline[c]

\* Mutant: the totals are not taken from the baseline.
MutantOverCap(in, c) == in.peers[c].rx >= Cap \/ in.peers[c].tx >= Cap

OverCap(in, c) ==
    \/ in.peers[c].rx - Rebase(in, c).rx >= Cap
    \/ in.peers[c].tx - Rebase(in, c).tx >= Cap

\* The keys this tick observes, and those it finds bad.
Observed(in) == Host \cup DOMAIN in.peers

Bad(in, elapsed) ==
    {k \in Observed(in) :
        \/ k = "service-down" /\ ~in.active
        \/ k = "high-disk" /\ in.diskFull
        \/ k = "high-cpu" /\ HighRun(in, elapsed) = Sustain
        \/ k \in Client /\ OverCap(in, k)}

\* Mutant: an alert is sent on entry only.
MutantFires(in, elapsed) == Bad(in, elapsed) \ firing

\* stateMachine.observe emits Fire: on entry, and as a reminder once the
\* cooldown has passed.
Fires(in, elapsed) ==
    {k \in Bad(in, elapsed) :
        k \notin firing \/ Older(quiet[k], elapsed, Cooldown) = Cooldown}

Recovers(in, elapsed) == (firing \cap Observed(in)) \ Bad(in, elapsed)

Evaluate(in, elapsed) ==
    /\ firing' = (firing \ Observed(in)) \cup Bad(in, elapsed)
    /\ quiet' = [k \in Keys |->
                   IF k \in firing' \ Fires(in, elapsed)
                   THEN Older(quiet[k], elapsed, Cooldown) ELSE 0]
    /\ highFor' = HighRun(in, elapsed)
    /\ baseline' = [c \in Client |-> IF c \in DOMAIN in.peers
                                     THEN Rebase(in, c) ELSE baseline[c]]
=============================================================================
