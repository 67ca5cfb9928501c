---------------------------- MODULE ProcSampler -----------------------------
(***************************************************************************)
(* proc.Service: CPU share and byte rates as differences to the sample     *)
(* before, whoever took it.  The poller, the metrics endpoint and the      *)
(* pages share one prior sample; the mutex is held over all the reads,     *)
(* while the kernel's counters go on.                                      *)
(***************************************************************************)
EXTENDS Naturals

CONSTANTS
    Caller,     \* goroutines that call Sample
    Width,      \* the jiffies are unsigned integers modulo Width
    MaxJiffies, \* bound on the jiffies of a kind
    MaxBytes,   \* bound on the bytes moved in one direction
    MaxClock    \* bound on the wall clock

ASSUME ProcAssumption ==
    /\ {MaxJiffies, MaxBytes, MaxClock} \subseteq Nat
    /\ Width \in Nat /\ Width > 102 * MaxJiffies

Dir == {"rx", "tx"}

VARIABLES
    cpu,        \* the kernel's jiffies: busy, idle, iowait
    bytes,      \* the interface's byte counters
    clock,      \* wall clock, from 1: a zero time is Go's zero value
    sampling,   \* the Sample in progress
    prior,      \* Service.prior
    moved,      \* history: bytes really moved, per direction
    claimed,    \* history: bytes the rates of all samples stand for
    report      \* history: the CPU share last returned and the true one

procVars == <<cpu, bytes, clock, sampling, prior, moved, claimed, report>>

Jiffies == [busy : 0 .. MaxJiffies, idle : 0 .. MaxJiffies,
            iowait : 0 .. MaxJiffies]

\* The readings, with the jiffies they come from as history.
Reading == [by : Caller \cup {"nobody"}, stage : {"none", "rx", "tx", "now"},
            jiffies : Jiffies, rx : 0 .. MaxBytes, tx : 0 .. MaxBytes]

NoReading == [by |-> "nobody", stage |-> "none",
              jiffies |-> [busy |-> 0, idle |-> 0, iowait |-> 0],
              rx |-> 0, tx |-> 0]

NoReport == [percent |-> 0, share |-> 0, exact |-> TRUE]

ProcTypeOK ==
    /\ cpu \in Jiffies
    /\ bytes \in [Dir -> 0 .. MaxBytes]
    /\ clock \in 1 .. MaxClock + 1
    /\ sampling \in Reading
    /\ prior \in [when : 0 .. MaxClock + 1, jiffies : Jiffies,
                  rx : 0 .. MaxBytes, tx : 0 .. MaxBytes]
    /\ moved \in [Dir -> 0 .. MaxBytes]
    /\ claimed \in [Dir -> Nat]
    /\ report \in [percent : Nat, share : Nat, exact : BOOLEAN]

ProcInit ==
    /\ cpu = NoReading.jiffies
    /\ bytes = [d \in Dir |-> 0]
    /\ clock = 1
    /\ sampling = NoReading
    /\ prior = [when |-> 0, jiffies |-> NoReading.jiffies, rx |-> 0, tx |-> 0]
    /\ moved = [d \in Dir |-> 0]
    /\ claimed = [d \in Dir |-> 0]
    /\ report = NoReport

-----------------------------------------------------------------------------
(* The kernel.                                                             *)

\* iowait may go down: the kernel's documentation calls it unreliable.
Jiffy ==
    /\ \/ \E k \in {"busy", "idle", "iowait"} :
             cpu[k] < MaxJiffies /\ cpu' = [cpu EXCEPT ![k] = @ + 1]
       \/ cpu.iowait > 0 /\ cpu' = [cpu EXCEPT !.iowait = @ - 1]
    /\ UNCHANGED <<bytes, clock, sampling, prior, moved, claimed, report>>

Transfer(d) ==
    /\ moved[d] < MaxBytes
    /\ moved' = [moved EXCEPT ![d] = @ + 1]
    /\ bytes' = [bytes EXCEPT ![d] = @ + 1]
    /\ UNCHANGED <<cpu, clock, sampling, prior, claimed, report>>

\* wg-quick takes the interface down and up.
InterfaceReset ==
    /\ bytes' = [d \in Dir |-> 0]
    /\ UNCHANGED <<cpu, clock, sampling, prior, moved, claimed, report>>

\* Time passes, or NTP steps the clock back.
ClockMoves ==
    /\ clock' \in {clock - 1, clock + 1} \cap (1 .. MaxClock)
    /\ UNCHANGED <<cpu, bytes, sampling, prior, moved, claimed, report>>

-----------------------------------------------------------------------------
(* Sample.                                                                 *)

\* The lock, and /proc/stat; /proc/meminfo and /proc/uptime, read next, are
\* not kept.
readCPU(c) ==
    /\ sampling = NoReading
    /\ sampling' = [NoReading EXCEPT !.by = c, !.stage = "rx", !.jiffies = cpu]
    /\ report' = NoReport
    /\ UNCHANGED <<cpu, bytes, clock, prior, moved, claimed>>

readIfaceCounter(d) ==
    /\ sampling.stage = d
    /\ sampling' = IF d = "rx"
                   THEN [sampling EXCEPT !.rx = bytes["rx"], !.stage = "tx"]
                   ELSE [sampling EXCEPT !.tx = bytes["tx"], !.stage = "now"]
    /\ UNCHANGED <<cpu, bytes, clock, prior, moved, claimed, report>>

\* Any read that fails ends the call with an error: prior is left alone.
ReadFails ==
    /\ sampling.stage \in {"rx", "tx"}
    /\ sampling' = NoReading
    /\ UNCHANGED <<cpu, bytes, clock, prior, moved, claimed, report>>

\* Mutant: time spent waiting for a disk counts as busy.
MutantIdle(j) == j.idle

Idle(j) == j.idle + j.iowait
Total(j) == j.busy + Idle(j)

\* Unsigned subtraction.
Minus(a, b) == (a + Width - b) % Width

\* 100 * (1 - idle/total) of the deltas, clamped to 0 .. 100.
cpuPercent(j, p) ==
    LET total == Minus(Total(j), Total(p))
        idle == Minus(Idle(j), Idle(p))
    IN  IF total = 0 \/ idle >= total THEN 0
        ELSE (100 * (total - idle)) \div total

\* Mutant: the sign of the difference is lost, so that a counter that started
\* again counts what it fell by.
MutantRateBytes(d) ==
    IF prior.when = 0 \/ clock <= prior.when THEN 0
    ELSE IF sampling[d] > prior[d] THEN sampling[d] - prior[d]
    ELSE prior[d] - sampling[d]

\* The bytes a rate stands for: rate times the time between the samples.
RateBytes(d) ==
    IF prior.when # 0 /\ clock > prior.when /\ sampling[d] > prior[d]
    THEN sampling[d] - prior[d] ELSE 0

\* Mutant: a sample taken for a page is not kept.
MutantPriorAfter ==
    IF sampling.by = "page" THEN prior
    ELSE [when |-> clock, jiffies |-> sampling.jiffies,
          rx |-> sampling.rx, tx |-> sampling.tx]

PriorAfter == [when |-> clock, jiffies |-> sampling.jiffies,
               rx |-> sampling.rx, tx |-> sampling.tx]

\* The true share of busy jiffies, and whether every counter went forward.
TrueShare(j, p) ==
    LET All(r) == r.busy + r.idle + r.iowait
    IN  IF All(j) <= All(p) THEN 0
        ELSE (100 * (j.busy - p.busy)) \div (All(j) - All(p))

Report(j, p) ==
    IF prior.when = 0 THEN NoReport
    ELSE [percent |-> cpuPercent(j, p),
          share |-> TrueShare(j, p),
          exact |-> j.idle + j.iowait >= p.idle + p.iowait]

Finish ==
    /\ sampling.stage = "now"
    /\ report' = Report(sampling.jiffies, prior.jiffies)
    /\ claimed' = [d \in Dir |-> claimed[d] + RateBytes(d)]
    /\ prior' = PriorAfter
    /\ sampling' = NoReading
    /\ UNCHANGED <<cpu, bytes, clock, moved>>

ProcNext ==
    \/ Jiffy
    \/ \E d \in Dir : Transfer(d)
    \/ InterfaceReset
    \/ ClockMoves
    \/ \E c \in Caller : readCPU(c)
    \/ \E d \in Dir : readIfaceCounter(d)
    \/ ReadFails
    \/ Finish

ProcSpec == ProcInit /\ [][ProcNext]_procVars

-----------------------------------------------------------------------------
\* No byte is reported twice: over any mix of callers, failed samples,
\* interface resets and clock steps, the rates of all samples together stand
\* for no more bytes than were moved.
BytesReportedOnce == \A d \in Dir : claimed[d] <= moved[d]

\* The CPU share is the share of busy jiffies since the sample before, also
\* when iowait fell in between; if idle and iowait together went back, the
\* unsigned difference must come out as an idle host and never as a busy one.
CPUShareEarned ==
    IF report.exact THEN report.percent = report.share ELSE report.percent = 0
=============================================================================
