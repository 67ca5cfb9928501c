------------------------------- MODULE Poller -------------------------------
(***************************************************************************)
(* The sample loop of poller.Poller: each tick reads the host, runs the    *)
(* evaluator and updates the in-UI view; what it then hands over for       *)
(* delivery is left in outbox (module Dispatch).  Every read can fail by   *)
(* itself.                                                                 *)
(*                                                                         *)
(* The rows, the handshake cache and the Prometheus snapshot the same tick *)
(* writes are left out: neither the evaluator nor the view reads them.     *)
(***************************************************************************)
EXTENDS Alerts, Sorting

CONSTANTS
    KeyOrder,   \* the keys in the order Evaluate sorts its events by
    RingCap,    \* recentCap
    MaxGap,     \* bound on the time between two ticks
    Reads,      \* the reads that may fail
    Changes     \* what the environment may change

ReadKinds == {"systemd", "proc", "wg", "manifest", "disk"}

ChangeKinds == {"service", "cpu", "disk", "traffic", "reset", "peers",
                "restart"}

ASSUME PollerAssumption ==
    /\ KeyOrder \in Seq(Keys)
    /\ \A k \in Keys : \E i \in DOMAIN KeyOrder : KeyOrder[i] = k
    /\ \A i, j \in DOMAIN KeyOrder : KeyOrder[i] = KeyOrder[j] => i = j
    /\ RingCap \in Nat
    /\ MaxGap \in Nat \ {0}
    /\ Reads \subseteq ReadKinds
    /\ Changes \subseteq ChangeKinds

VARIABLES
    active,     \* wg-quick@wg0 is active
    cpuHigh,    \* CPU use is at or above the threshold
    diskFull,   \* some filesystem is at or above the threshold
    wgPeers,    \* the manifest's peers in wg show, and their counters
    outbox,     \* events evaluateAlerts has still to hand over
    view,       \* StatusHolder.active
    recent,     \* StatusHolder.recent, oldest first
    \* history, read by properties only:
    lowFor,     \* time since a tick last evaluated CPU as low
    moved       \* bytes each client moved since its first sample, up to Cap

world   == <<active, cpuHigh, diskFull, wgPeers>>
process == <<evaluator, outbox, view, recent, lowFor>>
vars    == <<world, process, moved>>

Event == [key : Keys, kind : {"fire", "recovery"}]

TypeOK ==
    /\ EvaluatorTypeOK
    /\ active \in BOOLEAN /\ cpuHigh \in BOOLEAN /\ diskFull \in BOOLEAN
    /\ DOMAIN wgPeers \subseteq Client
    /\ \A p \in DOMAIN wgPeers : wgPeers[p] \in Counters
    /\ outbox \in Seq(Event)
    /\ view \subseteq Keys
    /\ recent \in Seq(Event) /\ Len(recent) <= RingCap
    /\ lowFor \in 0 .. Sustain
    /\ moved \in [Client -> [rx : 0 .. Cap, tx : 0 .. Cap]]

Zero == [rx |-> 0, tx |-> 0]

Init ==
    /\ active = TRUE /\ cpuHigh = FALSE /\ diskFull = FALSE
    /\ wgPeers = [p \in Client |-> Zero]
    /\ EvaluatorInit
    /\ outbox = << >> /\ view = {} /\ recent = << >>
    /\ lowFor = 0
    /\ moved = [c \in Client |-> Zero]

-----------------------------------------------------------------------------
(* The sample loop. *)

\* The samples collect keeps for the alert path, none at all unless both reads
\* succeeded.  A peer outside the manifest is skipped: it has no alert.
Samples(failed) ==
    IF failed \cap {"wg", "manifest"} # {} THEN << >>
    ELSE wgPeers

\* The input evaluateAlerts assembles; an unread CPU or disk value is left
\* at its zero value.
InputOf(failed) ==
    [active   |-> active,
     cpuHigh  |-> cpuHigh /\ "proc" \notin failed,
     diskFull |-> diskFull /\ "disk" \notin failed,
     peers    |-> Samples(failed)]

\* Evaluate's result: one event per transition or reminder, sorted by key.
Events(fires, recovers) ==
    LET emitted == {i \in DOMAIN KeyOrder : KeyOrder[i] \in fires \cup recovers}
        sorted  == Ascending(emitted)
    IN  [i \in DOMAIN sorted |->
            [key  |-> KeyOrder[sorted[i]],
             kind |-> IF KeyOrder[sorted[i]] \in fires THEN "fire"
                      ELSE "recovery"]]

\* Mutant: the ring is never trimmed.
MutantUntrimmed(events) == recent \o events

\* Mutant: the ring keeps its oldest entries.
MutantLogged(events) ==
    LET all == recent \o events
    IN  SubSeq(all, 1, IF Len(all) < RingCap THEN Len(all) ELSE RingCap)

\* StatusHolder.Update keeps the newest entries.
Logged(events) ==
    LET all == recent \o events
    IN  SubSeq(all, IF Len(all) > RingCap THEN Len(all) - RingCap + 1 ELSE 1,
               Len(all))

\* One iteration of runSampleLoop: collect, then evaluateAlerts, which gives
\* up when the systemd status cannot be read.  (The two singletons have TLC
\* evaluate each set once.)
Tick(failed, elapsed) ==
    /\ lowFor' = IF "systemd" \in failed \/ (cpuHigh /\ "proc" \notin failed)
                 THEN Older(lowFor, elapsed, Sustain) ELSE 0
    /\ \/ /\ "systemd" \in failed
          /\ Skip(elapsed)
          /\ outbox' = << >>
          /\ UNCHANGED <<view, recent>>
       \/ /\ "systemd" \notin failed
          /\ LET in == InputOf(failed)
             IN  /\ Evaluate(in, elapsed)
                 /\ \E fires \in {Fires(in, elapsed)},
                       recovers \in {Recovers(in, elapsed)} :
                       outbox' = Events(fires, recovers)
                 /\ view' = firing'
                 /\ recent' = Logged(outbox')
    /\ UNCHANGED <<world, moved>>

Ticks == \E failed \in SUBSET Reads, elapsed \in 1 .. MaxGap :
            Tick(failed, elapsed)

\* The next process starts from OK.
Restart ==
    /\ "restart" \in Changes
    /\ firing' = {} /\ quiet' = [k \in Keys |-> 0] /\ highFor' = None
    /\ baseline' = [c \in Client |-> None]
    /\ outbox' = << >> /\ view' = {} /\ recent' = << >>
    /\ lowFor' = 0
    /\ moved' = [c \in Client |-> Zero]
    /\ UNCHANGED world

-----------------------------------------------------------------------------
(* The environment. *)

HostChanges ==
    /\ \/ /\ "service" \in Changes
          /\ active' = ~active
          /\ UNCHANGED <<cpuHigh, diskFull>>
       \/ /\ "cpu" \in Changes
          /\ cpuHigh' = ~cpuHigh
          /\ UNCHANGED <<active, diskFull>>
       \/ /\ "disk" \in Changes
          /\ diskFull' = ~diskFull
          /\ UNCHANGED <<active, cpuHigh>>
    /\ UNCHANGED <<wgPeers, moved>>

Traffic(p) ==
    /\ "traffic" \in Changes
    /\ p \in DOMAIN wgPeers
    /\ \E c \in Counters :
          /\ c # wgPeers[p]
          /\ c.rx >= wgPeers[p].rx /\ c.tx >= wgPeers[p].tx
          /\ wgPeers' = [wgPeers EXCEPT ![p] = c]
          /\ moved' =
               IF baseline[p] # None
               THEN [moved EXCEPT
                       ![p] = [rx |-> Older(@.rx, c.rx - wgPeers[p].rx, Cap),
                               tx |-> Older(@.tx, c.tx - wgPeers[p].tx, Cap)]]
               ELSE moved
    /\ UNCHANGED <<active, cpuHigh, diskFull>>

\* The interface restarts: every counter is zero again.
CountersReset ==
    /\ "reset" \in Changes
    /\ wgPeers' = [p \in DOMAIN wgPeers |-> Zero]
    /\ UNCHANGED <<active, cpuHigh, diskFull, moved>>

\* A peer is removed or added through wg syncconf.
PeerChanges(p) ==
    /\ "peers" \in Changes
    /\ wgPeers' = IF p \in DOMAIN wgPeers
                  THEN [q \in DOMAIN wgPeers \ {p} |-> wgPeers[q]]
                  ELSE [q \in DOMAIN wgPeers \cup {p} |->
                           IF q = p THEN Zero ELSE wgPeers[q]]
    /\ UNCHANGED <<active, cpuHigh, diskFull, moved>>

World ==
    \/ HostChanges
    \/ CountersReset
    \/ \E p \in Client : Traffic(p) \/ PeerChanges(p)

Next == Ticks \/ Restart \/ (World /\ UNCHANGED process)

Spec == Init /\ [][Next]_vars

-----------------------------------------------------------------------------
(* Properties. *)

\* The in-UI view and its log agree with each other at any moment: an alert
\* is shown as active exactly if the latest entry of its key, when the ring
\* still has one, is a Fire, and a Recovery never follows a Recovery.
LogAgrees ==
    \A i \in DOMAIN recent :
        LET later == {j \in DOMAIN recent : j > i /\ recent[j].key = recent[i].key}
        IN  IF later = {}
            THEN recent[i].kind = "fire" <=> recent[i].key \in view
            ELSE \E j \in later :
                    /\ \A l \in later : j <= l
                    /\ recent[i].kind = "recovery" => recent[j].kind = "fire"

\* A high-CPU alert is raised only if no tick of the last Sustain time units
\* evaluated a reading that was low or missing, whatever ticks were skipped,
\* alerts recovered and restarts came before it.
CPUSustained ==
    [][ "high-cpu" \in firing' \ firing => lowFor' = Sustain ]_vars

\* A transfer alert is earned: the client really moved the cap, in one
\* direction, since the process first sampled it, whatever counter resets,
\* removals, missed reads and restarts came in between.
TransferAlertEarned ==
    \A c \in firing \cap Client : moved[c].rx = Cap \/ moved[c].tx = Cap

\* A high-CPU or high-disk alert recovers only when the reading is back below
\* the threshold.
RecoveryIsReal ==
    [][ /\ "high-cpu" \in firing \ firing' => ~cpuHigh
        /\ "high-disk" \in firing \ firing' => ~diskFull ]_vars
=============================================================================
