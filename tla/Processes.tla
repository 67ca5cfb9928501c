------------------------------ MODULE Processes -----------------------------
(***************************************************************************)
(* processes.Service: the table of the busiest processes.  Sample walks    *)
(* /proc under its mutex while processes run, exit and have their PIDs     *)
(* given to others; the share of a process is the difference between its   *)
(* jiffies and what the walk before saw under its PID.                     *)
(***************************************************************************)
EXTENDS Naturals, FiniteSets

CONSTANTS
    PID,        \* process identifiers
    TopN,       \* rows shown
    MaxRun,     \* bound on the jiffies of one process
    MaxTotal,   \* bound on the jiffies of all
    MaxIdle     \* bound on the jiffies spent idle or waiting for I/O

ASSUME ProcessesAssumption ==
    TopN \in Nat \ {0} /\ {MaxRun, MaxTotal, MaxIdle} \subseteq Nat

VARIABLES
    running,    \* the kernel: jiffies of the process with a PID, or Gone
    total,      \* the kernel: jiffies the processors were busy
    walk,       \* the Sample in progress
    before,     \* Service.prior
    shown,      \* the rows the last Sample returned
    sinceWalk,  \* history: jiffies run under a PID since this walk began
    sincePrior  \* history: and since the walk before it began

processesVars == <<running, total, walk, before, shown, sinceWalk, sincePrior>>

Gone == MaxRun + 1      \* no process has the PID
Unseen == MaxRun + 1    \* the walk before has no entry for it

Row == [pid : PID, jiffies : 0 .. MaxRun]

\* names: the PIDs of /proc not visited yet; rows: with the jiffies credited.
Walk == [stage : {"none", "readdir", "pids"}, total : Nat, names : SUBSET PID,
         next : [PID -> 0 .. Unseen], rows : SUBSET Row]

NoWalk == [stage |-> "none", total |-> 0, names |-> {},
           next |-> [p \in PID |-> Unseen], rows |-> {}]

ProcessesTypeOK ==
    /\ running \in [PID -> 0 .. Gone]
    /\ total \in Nat
    /\ walk \in Walk
    /\ before \in [first : BOOLEAN, total : Nat, perPID : [PID -> 0 .. Unseen]]
    /\ shown \in SUBSET Row
    /\ sinceWalk \in [PID -> Nat]
    /\ sincePrior \in [PID -> Nat]

ProcessesInit ==
    /\ running \in [PID -> {0, Gone}]
    /\ total = 0
    /\ walk = NoWalk
    /\ before = [first |-> TRUE, total |-> 0, perPID |-> NoWalk.next]
    /\ shown = {}
    /\ sinceWalk = [p \in PID |-> 0]
    /\ sincePrior = [p \in PID |-> 0]

-----------------------------------------------------------------------------
(* The kernel.                                                             *)

RunProcess(p) ==
    /\ running[p] < MaxRun
    /\ total < MaxTotal
    /\ running' = [running EXCEPT ![p] = @ + 1]
    /\ total' = total + 1
    /\ sinceWalk' = [sinceWalk EXCEPT ![p] = @ + 1]
    /\ sincePrior' = [sincePrior EXCEPT ![p] = @ + 1]
    /\ UNCHANGED <<walk, before, shown>>

\* A process exits, or a new one is given the PID.
ExitOrFork(p) ==
    /\ running' = [running EXCEPT ![p] = IF @ = Gone THEN 0 ELSE Gone]
    /\ UNCHANGED <<total, walk, before, shown, sinceWalk, sincePrior>>

-----------------------------------------------------------------------------
(* Sample.                                                                 *)

\* The lock, and /proc/stat: the sum of its columns has the time idle and
\* waiting for I/O too, and the kernel takes some of the latter back at times,
\* so the sum may be the one of the walk before, or below it.  A missing
\* MemTotal only costs the memory share.
readTotalJiffies ==
    /\ walk = NoWalk
    /\ \E idle \in 0 .. MaxIdle :
          walk' = [NoWalk EXCEPT !.stage = "readdir", !.total = total + idle]
    /\ sinceWalk' = [p \in PID |-> 0]
    /\ shown' = {}
    /\ UNCHANGED <<running, total, before, sincePrior>>

ReadDir ==
    /\ walk.stage = "readdir"
    /\ walk' = [walk EXCEPT !.stage = "pids",
                            !.names = {p \in PID : running[p] # Gone}]
    /\ UNCHANGED <<running, total, before, shown, sinceWalk, sincePrior>>

\* The listing fails: an error, and the prior sample stays.
ReadDirFails ==
    /\ walk.stage = "readdir"
    /\ walk' = NoWalk
    /\ sinceWalk' = sincePrior
    /\ UNCHANGED <<running, total, before, shown, sincePrior>>

\* Mutant: a PID with fewer jiffies than before counts from zero, and one
\* that is new counts everything it ever ran.
MutantCredit(p) ==
    IF ~before.first /\ walk.total # before.total
    THEN running[p] ELSE 0

\* The numerator of cpuPct: nothing on the first walk, for a PID the walk
\* before has not seen, or if the counter went back (a recycled PID).  The
\* difference of the totals is unsigned, so above zero unless they are equal.
Credit(p) ==
    IF /\ ~before.first
       /\ walk.total # before.total
       /\ before.perPID[p] # Unseen
       /\ running[p] >= before.perPID[p]
    THEN running[p] - before.perPID[p] ELSE 0

\* stat, status and cmdline of one process; one that is gone, or of which a
\* file cannot be read, is left out of the rows and of the next prior.
readStat(p) ==
    /\ walk.stage = "pids"
    /\ p \in walk.names
    /\ \/ /\ running[p] # Gone
          /\ walk' = [walk EXCEPT
                 !.names = @ \ {p},
                 !.next = [@ EXCEPT ![p] = running[p]],
                 !.rows = @ \cup {[pid |-> p, jiffies |-> Credit(p)]}]
       \/ walk' = [walk EXCEPT !.names = @ \ {p}]
    /\ UNCHANGED <<running, total, before, shown, sinceWalk, sincePrior>>

\* Mutant: the prior is updated in place, entry by entry.
MutantPerPID ==
    [p \in PID |-> IF walk.next[p] = Unseen THEN before.perPID[p]
                   ELSE walk.next[p]]

perPID == walk.next

\* The walk is over: the prior is rebuilt, the rows are sorted by share and
\* cut to the first TopN (rows with the same share in any order).
FinishWalk ==
    /\ walk.stage = "pids"
    /\ walk.names = {}
    /\ before' = [first |-> FALSE, total |-> walk.total, perPID |-> perPID]
    /\ \E top \in SUBSET walk.rows :
          /\ \/ top = walk.rows /\ Cardinality(top) <= TopN
             \/ Cardinality(top) = TopN
          /\ \A r \in top, q \in walk.rows \ top : r.jiffies >= q.jiffies
          /\ shown' = top
    /\ sincePrior' = sinceWalk
    /\ walk' = NoWalk
    /\ UNCHANGED <<running, total, sinceWalk>>

ProcessesNext ==
    \/ \E p \in PID : RunProcess(p) \/ ExitOrFork(p)
    \/ readTotalJiffies
    \/ ReadDir
    \/ ReadDirFails
    \/ \E p \in PID : readStat(p)
    \/ FinishWalk

ProcessesSpec == ProcessesInit /\ [][ProcessesNext]_processesVars

-----------------------------------------------------------------------------
\* A row credits a process with no more jiffies than ran under its PID since
\* the walk before began: not with what a former owner of the PID used, and
\* not with an interval the total it is divided by does not cover, though
\* PIDs are recycled and single files fail to read.
CreditEarned ==
    \A r \in walk.rows : r.jiffies <= sincePrior[r.pid]
=============================================================================
