----------------------------- MODULE HostProofs -----------------------------
(***************************************************************************)
(* What the dashboard reports of its host: byte rates and CPU share of     *)
(* proc.Service, the credits of processes.Service, and the EC2 verdict of  *)
(* serverinfo.Service, for any callers, processes, requests and bounds.    *)
(***************************************************************************)
EXTENDS ProcSampler, Processes, ServerInfo, TLAPS

-----------------------------------------------------------------------------
(* The byte rates: the inductive invariant.                                *)

\* What a counter has gained since an earlier value; a reset gains nothing.
Gain(new, old) == IF new > old THEN new - old ELSE 0

\* The sample in progress has read the counter of this direction.
HasRead(d) ==
    \/ sampling.stage = "now"
    \/ sampling.stage = "tx" /\ d = "rx"

\* Bytes moved are enough for what was reported, for what this sample is
\* about to report, and for what the one after it may.
BytesInv ==
    \A d \in Dir :
        /\ claimed[d] + Gain(bytes[d], prior[d]) <= moved[d]
        /\ HasRead(d) => claimed[d] + Gain(sampling[d], prior[d])
                                    + Gain(bytes[d], sampling[d]) <= moved[d]

\* The types the byte counters need; the CPU report is left aside.
BytesTypeOK ==
    /\ cpu \in Jiffies
    /\ bytes \in [Dir -> 0 .. MaxBytes]
    /\ clock \in Nat
    /\ sampling \in Reading
    /\ prior \in [when : Nat, jiffies : Jiffies, rx : 0 .. MaxBytes, tx : 0 .. MaxBytes]
    /\ moved \in [Dir -> 0 .. MaxBytes]
    /\ claimed \in [Dir -> Nat]
    \* No interface counter is ahead of what was moved.
    /\ \A d \in Dir : bytes[d] <= moved[d]

SamplerInv == BytesTypeOK /\ BytesInv

-----------------------------------------------------------------------------
(* Types.                                                                  *)

\* A jiffy more or an iowait less.
LEMMA JiffyTypes ==
    ASSUME cpu \in Jiffies, Jiffy
    PROVE  cpu' \in Jiffies
<1> USE ProcAssumption DEF Jiffies
<1>1. CASE cpu.busy < MaxJiffies /\ cpu' = [cpu EXCEPT !.busy = @ + 1]
  BY <1>1
<1>2. CASE cpu.idle < MaxJiffies /\ cpu' = [cpu EXCEPT !.idle = @ + 1]
  BY <1>2
<1>3. CASE cpu.iowait < MaxJiffies /\ cpu' = [cpu EXCEPT !.iowait = @ + 1]
  BY <1>3
<1>4. CASE cpu.iowait > 0 /\ cpu' = [cpu EXCEPT !.iowait = @ - 1]
  BY <1>4
<1> QED  BY <1>1, <1>2, <1>3, <1>4 DEF Jiffy

\* The zero reading.
LEMMA NoReadingTypes == NoReading \in Reading
  BY ProcAssumption DEF NoReading, Reading, Jiffies

-----------------------------------------------------------------------------
(* One lemma per kind of step.                                             *)

\* The kernel: the clock, the jiffies, bytes, a reset.
LEMMA KernelKeeps ==
    ASSUME SamplerInv,
           Jiffy \/ (\E d \in Dir : Transfer(d)) \/ InterfaceReset \/ ClockMoves
    PROVE  SamplerInv'
<1> USE ProcAssumption DEF SamplerInv, BytesTypeOK
<1>1. CASE Jiffy
  BY <1>1, JiffyTypes DEF Jiffy, BytesInv, HasRead
<1>2. ASSUME NEW d \in Dir, Transfer(d)
      PROVE  SamplerInv'
  <2>1. BytesTypeOK'
    BY <1>2 DEF Transfer
  <2>2. \A e \in Dir : /\ prior'[e] = prior[e] /\ sampling' = sampling
                       /\ claimed'[e] = claimed[e]
                       /\ bytes'[e] = IF e = d THEN bytes[e] + 1 ELSE bytes[e]
                       /\ moved'[e] = IF e = d THEN moved[e] + 1 ELSE moved[e]
    BY <1>2 DEF Transfer
  <2>3. prior["rx"] \in Nat /\ prior["tx"] \in Nat /\ sampling["rx"] \in Nat
        /\ sampling["tx"] \in Nat
    BY DEF Reading
  <2>4. BytesInv'
    BY <2>2, <2>3 DEF BytesInv, HasRead, Gain, Dir
  <2> QED  BY <2>1, <2>4
<1>3. CASE InterfaceReset
  <2>1. BytesTypeOK'
    BY <1>3 DEF InterfaceReset
  <2>2. prior["rx"] \in Nat /\ prior["tx"] \in Nat /\ sampling["rx"] \in Nat
        /\ sampling["tx"] \in Nat
    BY DEF Reading
  <2>3. BytesInv'
    BY <1>3, <2>2 DEF InterfaceReset, BytesInv, HasRead, Gain, Dir
  <2> QED  BY <2>1, <2>3
<1>4. CASE ClockMoves
  BY <1>4 DEF ClockMoves, BytesInv, HasRead
<1> QED  BY <1>1, <1>2, <1>3, <1>4

\* A call begins, or gives up: nothing is read yet, or any more.
LEMMA BeginOrFail ==
    ASSUME SamplerInv, (\E c \in Caller : readCPU(c)) \/ ReadFails
    PROVE  SamplerInv'
<1>1. CASE \E c \in Caller : readCPU(c)
  <2>1. PICK c \in Caller : readCPU(c)
    BY <1>1
  <2>2. sampling' \in Reading /\ sampling'.stage = "rx"
    BY <2>1, NoReadingTypes DEF readCPU, SamplerInv, BytesTypeOK, Reading
  <2> QED
    BY <2>1, <2>2 DEF readCPU, SamplerInv, BytesTypeOK, BytesInv, HasRead
<1>2. CASE ReadFails
  <2>1. sampling' \in Reading /\ sampling'.stage = "none"
    BY <1>2, NoReadingTypes DEF ReadFails, NoReading
  <2> QED
    BY <1>2, <2>1 DEF ReadFails, SamplerInv, BytesTypeOK, BytesInv, HasRead
<1> QED  BY <1>1, <1>2

\* A counter is read: what it has gained is what the interface has.
LEMMA ReadKeeps ==
    ASSUME SamplerInv, NEW d \in Dir, readIfaceCounter(d)
    PROVE  SamplerInv'
<1> USE ProcAssumption DEF SamplerInv, BytesTypeOK
<1>1. CASE d = "rx"
  <2>1. /\ sampling.stage = "rx"
        /\ sampling' = [sampling EXCEPT !.rx = bytes["rx"], !.stage = "tx"]
        /\ UNCHANGED <<cpu, bytes, clock, prior, moved, claimed>>
    BY <1>1 DEF readIfaceCounter
  <2>2. sampling' \in Reading
    BY <2>1 DEF Reading, Dir
  <2>3. sampling'.stage = "tx" /\ sampling'["rx"] = bytes["rx"]
    BY <2>1 DEF Reading
  <2>4. claimed["rx"] + Gain(bytes["rx"], prior["rx"]) + 0 <= moved["rx"]
    BY DEF BytesInv, Gain, Dir
  <2>5. Gain(bytes["rx"], bytes["rx"]) = 0
    BY DEF Gain, Dir
  <2>6. BytesInv'
    <3> HIDE DEF SamplerInv, BytesTypeOK
    <3> QED  BY <2>1, <2>3, <2>4, <2>5 DEF SamplerInv, BytesInv, HasRead, Dir
  <2> QED  BY <2>1, <2>2, <2>6
<1>2. CASE d = "tx"
  <2>1. /\ sampling.stage = "tx"
        /\ sampling' = [sampling EXCEPT !.tx = bytes["tx"], !.stage = "now"]
        /\ UNCHANGED <<cpu, bytes, clock, prior, moved, claimed>>
    BY <1>2 DEF readIfaceCounter
  <2>2. sampling' \in Reading
    BY <2>1 DEF Reading, Dir
  <2>3. /\ sampling'.stage = "now" /\ sampling'["tx"] = bytes["tx"]
        /\ sampling'["rx"] = sampling["rx"]
    BY <2>1 DEF Reading
  <2>4. claimed["tx"] + Gain(bytes["tx"], prior["tx"]) + 0 <= moved["tx"]
    BY DEF BytesInv, Gain, Dir
  <2>5. Gain(bytes["tx"], bytes["tx"]) = 0
    BY DEF Gain, Dir
  <2>6. BytesInv'
    <3> HIDE DEF SamplerInv, BytesTypeOK
    <3> QED  BY <2>1, <2>3, <2>4, <2>5 DEF SamplerInv, BytesInv, HasRead, Dir
  <2> QED  BY <2>1, <2>2, <2>6
<1> QED  BY <1>1, <1>2 DEF Dir

\* The call ends: its readings become the prior ones, and it reports their
\* gain at most.
LEMMA FinishKeeps ==
    ASSUME SamplerInv, Finish
    PROVE  SamplerInv'
<1> USE ProcAssumption DEF SamplerInv, BytesTypeOK
<1>1. /\ sampling.stage = "now"
      /\ claimed' = [d \in Dir |-> claimed[d] + RateBytes(d)]
      /\ prior' = [when |-> clock, jiffies |-> sampling.jiffies,
                   rx |-> sampling.rx, tx |-> sampling.tx]
      /\ sampling' = NoReading
      /\ UNCHANGED <<cpu, bytes, clock, moved>>
  BY DEF Finish, PriorAfter
<1>2. /\ sampling["rx"] \in 0 .. MaxBytes /\ sampling["tx"] \in 0 .. MaxBytes
      /\ prior["rx"] \in 0 .. MaxBytes /\ prior["tx"] \in 0 .. MaxBytes
      /\ sampling.jiffies \in Jiffies
  BY DEF Reading
<1>3. \A d \in Dir : RateBytes(d) \in Nat /\ RateBytes(d) <= Gain(sampling[d], prior[d])
  BY <1>2 DEF RateBytes, Gain, Dir
<1>4. BytesTypeOK'
  <2>1. claimed' \in [Dir -> Nat]
    BY <1>1, <1>3
  <2>2. prior' \in [when : Nat, jiffies : Jiffies, rx : 0 .. MaxBytes, tx : 0 .. MaxBytes]
    BY <1>1, <1>2
  <2> QED  BY <1>1, <2>1, <2>2, NoReadingTypes
<1>5. \A d \in Dir : prior'[d] = sampling[d] /\ claimed'[d] = claimed[d] + RateBytes(d)
  BY <1>1 DEF Dir
<1>6. sampling'.stage = "none"
  BY <1>1 DEF NoReading
<1>7. \A d \in Dir : /\ Gain(sampling[d], prior[d]) \in Nat
                     /\ Gain(bytes[d], sampling[d]) \in Nat
                     /\ claimed[d] \in Nat /\ moved[d] \in Nat
                     /\ claimed[d] + Gain(sampling[d], prior[d])
                            + Gain(bytes[d], sampling[d]) <= moved[d]
  BY <1>1, <1>2 DEF BytesInv, HasRead, Gain, Dir
<1>8. BytesInv'
  <2> SUFFICES ASSUME NEW d \in Dir
               PROVE  claimed'[d] + Gain(bytes[d], sampling[d]) <= moved[d]
    BY <1>1, <1>5, <1>6 DEF BytesInv, HasRead
  <2> HIDE DEF SamplerInv, BytesTypeOK
  <2> QED  BY <1>3, <1>5, <1>7
<1> QED  BY <1>4, <1>8

\* Init and the steps.
LEMMA SamplerInit == ProcInit => SamplerInv
<1> SUFFICES ASSUME ProcInit PROVE SamplerInv
  OBVIOUS
<1>1. cpu \in Jiffies /\ sampling \in Reading
  BY NoReadingTypes DEF ProcInit, Reading, NoReading, Jiffies
<1>2. BytesTypeOK
  BY <1>1, ProcAssumption DEF ProcInit, BytesTypeOK, NoReading, Reading
<1>3. \A d \in Dir : ~HasRead(d)
  BY DEF ProcInit, NoReading, HasRead
<1>4. \A d \in Dir : claimed[d] = 0 /\ moved[d] = 0 /\ bytes[d] = 0 /\ prior[d] = 0
  BY DEF ProcInit, Dir
<1>5. BytesInv
  BY <1>3, <1>4 DEF BytesInv, Gain
<1> QED  BY <1>2, <1>5 DEF SamplerInv

LEMMA SamplerStep == SamplerInv /\ [ProcNext]_procVars => SamplerInv'
<1> SUFFICES ASSUME SamplerInv, [ProcNext]_procVars PROVE SamplerInv'
  OBVIOUS
<1>1. CASE UNCHANGED procVars
  BY <1>1 DEF procVars, SamplerInv, BytesTypeOK, BytesInv, HasRead
<1> QED
  BY <1>1, KernelKeeps, BeginOrFail, ReadKeeps, FinishKeeps DEF ProcNext

-----------------------------------------------------------------------------
\* Over any calls, failures, resets and clock steps, the rates of all samples
\* stand for no more bytes than were moved.
THEOREM NoByteReportedTwice == ProcSpec => []BytesReportedOnce
<1>1. SamplerInv => BytesReportedOnce
  <2> SUFFICES ASSUME SamplerInv, NEW d \in Dir PROVE claimed[d] <= moved[d]
    BY DEF BytesReportedOnce
  <2>1. claimed[d] \in Nat /\ moved[d] \in Nat /\ Gain(bytes[d], prior[d]) \in Nat
    BY ProcAssumption DEF SamplerInv, BytesTypeOK, Gain, Dir
  <2>2. claimed[d] + Gain(bytes[d], prior[d]) <= moved[d]
    BY DEF SamplerInv, BytesInv
  <2> QED  BY <2>1, <2>2
<1> QED  BY <1>1, SamplerInit, SamplerStep, PTL DEF ProcSpec

-----------------------------------------------------------------------------
(* The CPU share.                                                          *)

\* Busy time only grows, from the sample before to the one in progress and to
\* the kernel's count; idle time and iowait need not.
BusyInv ==
    /\ prior.jiffies.busy <= cpu.busy
    /\ sampling.stage # "none" =>
          /\ prior.jiffies.busy <= sampling.jiffies.busy
          /\ sampling.jiffies.busy <= cpu.busy

\* Unsigned subtraction of counts far below the width: the difference, or its
\* complement.
LEMMA MinusIs ==
    ASSUME NEW a \in Nat, NEW b \in Nat, a < Width, b < Width
    PROVE  Minus(a, b) = IF a >= b THEN a - b ELSE Width - (b - a)
<1> USE ProcAssumption
<1>1. CASE a >= b
  <2>1. a - b \in Nat /\ a - b < Width /\ a + Width - b = (a - b) + Width
    BY <1>1
  <2>2. ((a - b) + Width) % Width = a - b
    BY <2>1
  <2> QED  BY <1>1, <2>1, <2>2 DEF Minus
<1>2. CASE a < b
  <2>1. Width - (b - a) \in Nat /\ Width - (b - a) < Width
        /\ a + Width - b = Width - (b - a)
    BY <1>2
  <2>2. (Width - (b - a)) % Width = Width - (b - a)
    BY <2>1
  <2> QED  BY <1>2, <2>1, <2>2 DEF Minus
<1> QED  BY <1>1, <1>2

\* The percentage of two readings between which busy time did not fall.
LEMMA PercentIsShare ==
    ASSUME NEW j \in Jiffies, NEW p \in Jiffies, p.busy <= j.busy
    PROVE  IF Idle(j) >= Idle(p) THEN cpuPercent(j, p) = TrueShare(j, p)
           ELSE cpuPercent(j, p) = 0
<1> DEFINE b == j.busy - p.busy
           spent == Minus(Total(j), Total(p))
           idle == Minus(Idle(j), Idle(p))
<1>1. /\ b \in Nat /\ b <= MaxJiffies /\ MaxJiffies \in Nat
      /\ Idle(j) \in Nat /\ Idle(j) <= 2 * MaxJiffies
      /\ Idle(p) \in Nat /\ Idle(p) <= 2 * MaxJiffies
      /\ Total(j) \in Nat /\ Total(j) <= 3 * MaxJiffies
      /\ Total(p) \in Nat /\ Total(p) <= 3 * MaxJiffies
      /\ Total(j) - Total(p) = b + (Idle(j) - Idle(p))
      /\ Width \in Nat /\ Width > 102 * MaxJiffies
  BY ProcAssumption DEF Jiffies, Idle, Total
<1>2. /\ spent = IF Total(j) >= Total(p) THEN Total(j) - Total(p)
                 ELSE Width - (Total(p) - Total(j))
      /\ idle = IF Idle(j) >= Idle(p) THEN Idle(j) - Idle(p)
                ELSE Width - (Idle(p) - Idle(j))
  <2>1. Total(j) < Width /\ Total(p) < Width /\ Idle(j) < Width /\ Idle(p) < Width
    BY <1>1
  <2> HIDE DEF b
  <2> QED  BY <1>1, <2>1, MinusIs
<1>3. cpuPercent(j, p) = IF spent = 0 \/ idle >= spent THEN 0
                         ELSE (100 * (spent - idle)) \div spent
  BY DEF cpuPercent
<1>4. TrueShare(j, p) = IF Total(j) <= Total(p) THEN 0
                        ELSE (100 * b) \div (Total(j) - Total(p))
  BY ProcAssumption DEF TrueShare, Total, Idle, Jiffies
<1>5. \A n \in Nat \ {0}, d \in Nat : d < n => d \div n = 0
  OBVIOUS
<1> HIDE DEF b, spent, idle
<1>6. CASE Idle(j) >= Idle(p)
  <2>1. spent = b + (Idle(j) - Idle(p)) /\ idle = Idle(j) - Idle(p)
    BY <1>1, <1>2, <1>6
  <2>2. CASE b = 0
    <3>1. cpuPercent(j, p) = 0
      BY <1>1, <1>3, <2>1, <2>2
    <3>2. TrueShare(j, p) = 0
      BY <1>1, <1>4, <1>5, <2>2
    <3> QED  BY <1>6, <3>1, <3>2
  <2>3. CASE b > 0
    <3>1. spent - idle = b /\ ~(spent = 0 \/ idle >= spent)
      BY <1>1, <1>6, <2>1, <2>3
    <3>2. Total(j) - Total(p) = spent /\ ~(Total(j) <= Total(p))
      BY <1>1, <1>6, <2>1, <2>3
    <3> QED  BY <1>3, <1>4, <1>6, <3>1, <3>2
  <2> QED  BY <1>1, <2>2, <2>3
<1>7. CASE Idle(j) < Idle(p)
  <2>1. idle = Width - (Idle(p) - Idle(j))
    BY <1>1, <1>2, <1>7
  <2>2. CASE Total(j) >= Total(p)
    <3>1. spent = Total(j) - Total(p) /\ idle >= spent
      BY <1>1, <1>2, <1>7, <2>1, <2>2
    <3> QED  BY <1>1, <1>3, <1>7, <3>1
  <2>3. CASE Total(j) < Total(p)
    <3>1. spent = idle + b /\ spent \in Nat \ {0} /\ idle \in Nat
      BY <1>1, <1>2, <1>7, <2>1, <2>3
    <3>2. 100 * b \in Nat /\ 100 * b < spent
      BY <1>1, <1>7, <2>1, <3>1
    <3>3. (100 * (spent - idle)) \div spent = 0
      <4>1. spent - idle = b
        BY <1>1, <3>1
      <4> QED  BY <1>5, <3>1, <3>2, <4>1
    <3> QED  BY <1>1, <1>3, <1>7, <3>3
  <2> QED  BY <1>1, <2>2, <2>3
<1> QED  BY <1>1, <1>6, <1>7

\* The CPU share a sample reports is the true share of busy time since the
\* sample before; when the kernel took idle time back, it is an idle host's.
THEOREM CPUShareIsTrue == ProcSpec => []CPUShareEarned
<1>1. ProcInit => BusyInv /\ CPUShareEarned
  BY DEF ProcInit, BusyInv, CPUShareEarned, NoReading, NoReport
<1>2. SamplerInv /\ BusyInv /\ CPUShareEarned /\ [ProcNext]_procVars
         => BusyInv' /\ CPUShareEarned'
  <2> SUFFICES ASSUME SamplerInv, BusyInv, CPUShareEarned, [ProcNext]_procVars
               PROVE  BusyInv' /\ CPUShareEarned'
    OBVIOUS
  <2>0. /\ cpu \in Jiffies /\ sampling.jiffies \in Jiffies
        /\ prior.jiffies \in Jiffies
    BY DEF SamplerInv, BytesTypeOK, Reading
  <2>1. CASE Jiffy
    <3>1. cpu.busy <= cpu'.busy /\ cpu'.busy \in Nat
      BY <2>0, <2>1, ProcAssumption DEF Jiffy, Jiffies
    <3>2. UNCHANGED <<sampling, prior, report>>
      BY <2>1 DEF Jiffy
    <3> QED  BY <2>0, <3>1, <3>2, ProcAssumption DEF BusyInv, CPUShareEarned, Jiffies
  <2>2. ASSUME NEW c \in Caller, readCPU(c)
        PROVE  BusyInv' /\ CPUShareEarned'
    <3>1. sampling'.jiffies = cpu /\ report' = NoReport /\ UNCHANGED <<cpu, prior>>
      BY <2>2 DEF readCPU, NoReading
    <3> QED  BY <2>0, <3>1, ProcAssumption
             DEF BusyInv, CPUShareEarned, NoReport, Jiffies
  <2>3. ASSUME NEW d \in Dir, readIfaceCounter(d)
        PROVE  BusyInv' /\ CPUShareEarned'
    <3>1. sampling.stage # "none" /\ sampling'.jiffies = sampling.jiffies
      BY <2>3 DEF readIfaceCounter, Dir, SamplerInv, BytesTypeOK, Reading
    <3> QED  BY <2>3, <3>1 DEF readIfaceCounter, BusyInv, CPUShareEarned
  <2>4. CASE ReadFails
    BY <2>4 DEF ReadFails, NoReading, BusyInv, CPUShareEarned
  <2>5. CASE Finish
    <3>1. /\ sampling.stage = "now" /\ prior'.jiffies = sampling.jiffies
          /\ sampling'.stage = "none" /\ UNCHANGED cpu
          /\ report' = Report(sampling.jiffies, prior.jiffies)
      BY <2>5 DEF Finish, PriorAfter, NoReading
    <3>2. BusyInv'
      BY <3>1 DEF BusyInv
    <3>3. prior.jiffies.busy <= sampling.jiffies.busy
      BY <3>1 DEF BusyInv
    <3>4. LET j == sampling.jiffies
              p == prior.jiffies
          IN  IF Idle(j) >= Idle(p) THEN cpuPercent(j, p) = TrueShare(j, p)
              ELSE cpuPercent(j, p) = 0
      BY <2>0, <3>3, PercentIsShare
    <3>5. CPUShareEarned'
      BY <3>1, <3>4 DEF CPUShareEarned, Report, NoReport, Idle
    <3> QED  BY <3>2, <3>5
  <2>6. CASE (\E d \in Dir : Transfer(d)) \/ InterfaceReset \/ ClockMoves
             \/ UNCHANGED procVars
    <3>1. UNCHANGED <<cpu, sampling, prior, report>>
      BY <2>6 DEF Transfer, InterfaceReset, ClockMoves, procVars
    <3> QED  BY <3>1 DEF BusyInv, CPUShareEarned
  <2> QED  BY <2>1, <2>2, <2>3, <2>4, <2>5, <2>6 DEF ProcNext
<1> QED  BY <1>1, <1>2, SamplerInit, SamplerStep, PTL DEF ProcSpec

-----------------------------------------------------------------------------
(* The process table.                                                      *)

\* The process with a PID has run no more than an entry for the PID says plus
\* what ran under the PID since: the entries of the walk in progress are from
\* after its beginning, those of the prior from after the beginning of the
\* walk before.  A new owner of the PID starts from zero, which only helps.
CreditInv ==
    \A p \in PID :
        /\ running[p] # Gone /\ walk.next[p] # Unseen =>
              running[p] <= walk.next[p] + sinceWalk[p]
        /\ running[p] # Gone /\ before.perPID[p] # Unseen =>
              running[p] <= before.perPID[p] + sincePrior[p]

TableInv == ProcessesTypeOK /\ CreditInv /\ CreditEarned

\* The resting walk.
LEMMA NoWalkTypes == NoWalk \in Walk /\ NoWalk.rows = {}
                     /\ \A p \in PID : NoWalk.next[p] = Unseen
  BY ProcessesAssumption DEF NoWalk, Walk, Unseen

\* Processes run, exit and start.
LEMMA ProcessRuns ==
    ASSUME TableInv, NEW p \in PID, RunProcess(p) \/ ExitOrFork(p)
    PROVE  TableInv'
<1> USE ProcessesAssumption DEF Gone, Unseen
<1>0. /\ running \in [PID -> 0 .. Gone] /\ total \in Nat
      /\ sinceWalk \in [PID -> Nat] /\ sincePrior \in [PID -> Nat]
      /\ walk.next \in [PID -> 0 .. Unseen] /\ before.perPID \in [PID -> 0 .. Unseen]
      /\ walk.rows \in SUBSET Row
  BY DEF TableInv, ProcessesTypeOK, Walk
<1>1. CASE RunProcess(p)
  <2>1. /\ \A q \in PID : /\ running'[q] = IF q = p THEN running[q] + 1 ELSE running[q]
                          /\ sinceWalk'[q] = IF q = p THEN sinceWalk[q] + 1 ELSE sinceWalk[q]
                          /\ sincePrior'[q] = IF q = p THEN sincePrior[q] + 1 ELSE sincePrior[q]
        /\ running[p] < MaxRun
        /\ UNCHANGED <<walk, before, shown>>
    BY <1>0, <1>1 DEF RunProcess
  <2>2. ProcessesTypeOK'
    <3>1. running' \in [PID -> 0 .. Gone] /\ total' \in Nat
      BY <1>0, <1>1 DEF RunProcess
    <3>2. sinceWalk' \in [PID -> Nat] /\ sincePrior' \in [PID -> Nat]
      BY <1>0, <1>1 DEF RunProcess
    <3> QED  BY <2>1, <3>1, <3>2 DEF TableInv, ProcessesTypeOK
  <2>3. CreditInv'
    BY <1>0, <2>1 DEF TableInv, CreditInv
  <2>4. CreditEarned'
    BY <1>0, <2>1 DEF TableInv, CreditEarned, Row
  <2> QED  BY <2>2, <2>3, <2>4 DEF TableInv
<1>2. CASE ExitOrFork(p)
  <2>1. /\ \A q \in PID \ {p} : running'[q] = running[q]
        /\ running'[p] \in {0, Gone} /\ running' \in [PID -> 0 .. Gone]
        /\ UNCHANGED <<total, walk, before, shown, sinceWalk, sincePrior>>
    BY <1>0, <1>2 DEF ExitOrFork
  <2>2. CreditInv'
    BY <1>0, <2>1 DEF TableInv, CreditInv
  <2> QED  BY <2>1, <2>2 DEF TableInv, ProcessesTypeOK, CreditEarned
<1> QED  BY <1>1, <1>2

\* A walk begins, lists the directory, or gives up.
LEMMA WalkBegins ==
    ASSUME TableInv, readTotalJiffies \/ ReadDir \/ ReadDirFails
    PROVE  TableInv'
<1>1. CASE readTotalJiffies
  <2>1. walk' \in Walk /\ walk'.rows = {} /\ \A p \in PID : walk'.next[p] = Unseen
    <3>1. PICK idle \in 0 .. MaxIdle :
             walk' = [NoWalk EXCEPT !.stage = "readdir", !.total = total + idle]
      BY <1>1 DEF readTotalJiffies
    <3>2. total + idle \in Nat
      BY ProcessesAssumption DEF TableInv, ProcessesTypeOK
    <3> QED  BY <3>1, <3>2, NoWalkTypes DEF Walk
  <2> QED  BY <1>1, <2>1
           DEF readTotalJiffies, TableInv, ProcessesTypeOK, CreditInv, CreditEarned
<1>2. CASE ReadDir
  <2>1. walk' \in Walk /\ walk'.rows = walk.rows /\ walk'.next = walk.next
    BY <1>2 DEF ReadDir, TableInv, ProcessesTypeOK, Walk
  <2> QED  BY <1>2, <2>1
           DEF ReadDir, TableInv, ProcessesTypeOK, CreditInv, CreditEarned
<1>3. CASE ReadDirFails
  <2>1. walk' \in Walk /\ walk'.rows = {} /\ \A p \in PID : walk'.next[p] = Unseen
    BY <1>3, NoWalkTypes DEF ReadDirFails
  <2> QED  BY <1>3, <2>1
           DEF ReadDirFails, TableInv, ProcessesTypeOK, CreditInv, CreditEarned
<1> QED  BY <1>1, <1>2, <1>3

\* One process is read: what it is credited with ran since the walk before.
LEMMA ReadStatKeeps ==
    ASSUME TableInv, NEW p \in PID, readStat(p)
    PROVE  TableInv'
<1> USE ProcessesAssumption DEF Gone, Unseen
<1>0. /\ running \in [PID -> 0 .. Gone] /\ sinceWalk \in [PID -> Nat]
      /\ sincePrior \in [PID -> Nat] /\ walk.next \in [PID -> 0 .. Unseen]
      /\ before.perPID \in [PID -> 0 .. Unseen] /\ walk.rows \in SUBSET Row
      /\ walk \in Walk
  BY DEF TableInv, ProcessesTypeOK, Walk
<1>1. UNCHANGED <<running, total, before, shown, sinceWalk, sincePrior>>
  BY DEF readStat
<1>2. CASE walk' = [walk EXCEPT !.names = @ \ {p}]
  <2>1. walk' \in Walk /\ walk'.rows = walk.rows /\ walk'.next = walk.next
    BY <1>0, <1>2 DEF Walk
  <2> QED  BY <1>1, <2>1 DEF TableInv, ProcessesTypeOK, CreditInv, CreditEarned
<1>3. CASE running[p] # Gone /\
           walk' = [walk EXCEPT
                 !.names = @ \ {p},
                 !.next = [@ EXCEPT ![p] = running[p]],
                 !.rows = @ \cup {[pid |-> p, jiffies |-> Credit(p)]}]
  <2>1. Credit(p) \in 0 .. MaxRun /\ Credit(p) <= sincePrior[p]
    <3>1. /\ MaxRun \in Nat /\ running[p] \in 0 .. MaxRun
          /\ before.perPID[p] \in 0 .. MaxRun + 1 /\ sincePrior[p] \in Nat
      BY <1>0, <1>3
    <3>2. before.perPID[p] # Unseen => running[p] <= before.perPID[p] + sincePrior[p]
      BY <1>3 DEF TableInv, CreditInv
    <3> HIDE ProcessesAssumption
    <3> QED  BY <3>1, <3>2 DEF Credit
  <2>2. /\ walk'.rows = walk.rows \cup {[pid |-> p, jiffies |-> Credit(p)]}
        /\ walk'.next = [walk.next EXCEPT ![p] = running[p]]
    BY <1>0, <1>3 DEF Walk
  <2>3. walk' \in Walk
    <3>1. [pid |-> p, jiffies |-> Credit(p)] \in Row
      BY <2>1 DEF Row
    <3>2. [walk.next EXCEPT ![p] = running[p]] \in [PID -> 0 .. Unseen]
      BY <1>0
    <3> QED  BY <1>0, <1>3, <3>1, <3>2 DEF Walk
  <2>4. CreditInv'
    BY <1>0, <1>1, <2>2 DEF TableInv, CreditInv
  <2>5. CreditEarned'
    BY <1>1, <2>1, <2>2 DEF TableInv, CreditEarned
  <2> QED  BY <1>1, <2>3, <2>4, <2>5 DEF TableInv, ProcessesTypeOK
<1> QED  BY <1>2, <1>3 DEF readStat

\* The walk becomes the prior, with the history since its own beginning.
LEMMA FinishWalkKeeps ==
    ASSUME TableInv, FinishWalk
    PROVE  TableInv'
<1>1. /\ before' = [first |-> FALSE, total |-> walk.total, perPID |-> walk.next]
      /\ sincePrior' = sinceWalk /\ walk' = NoWalk /\ shown' \in SUBSET walk.rows
      /\ UNCHANGED <<running, total, sinceWalk>>
  BY DEF FinishWalk, perPID
<1>2. walk \in Walk /\ walk' \in Walk /\ walk'.rows = {}
      /\ \A p \in PID : walk'.next[p] = Unseen
  BY <1>1, NoWalkTypes DEF TableInv, ProcessesTypeOK
<1>3. ProcessesTypeOK'
  BY <1>1, <1>2 DEF TableInv, ProcessesTypeOK, Walk
<1>4. CreditInv'
  BY <1>1, <1>2 DEF TableInv, CreditInv
<1> QED  BY <1>2, <1>3, <1>4 DEF TableInv, CreditEarned

\* A process is credited only with what ran under its PID since the walk
\* before began, through recycled PIDs, unreadable files and failed listings.
THEOREM CreditsEarned == ProcessesSpec => []CreditEarned
<1>1. ProcessesInit => TableInv
  <2> SUFFICES ASSUME ProcessesInit PROVE TableInv
    OBVIOUS
  <2>1. running \in [PID -> 0 .. Gone]
    BY ProcessesAssumption DEF ProcessesInit, Gone
  <2>2. before \in [first : BOOLEAN, total : Nat, perPID : [PID -> 0 .. Unseen]]
    BY NoWalkTypes DEF ProcessesInit, Walk
  <2>3. ProcessesTypeOK
    BY <2>1, <2>2, NoWalkTypes DEF ProcessesInit, ProcessesTypeOK
  <2> QED  BY <2>3, NoWalkTypes DEF ProcessesInit, TableInv, CreditInv, CreditEarned
<1>2. TableInv /\ [ProcessesNext]_processesVars => TableInv'
  <2> SUFFICES ASSUME TableInv, [ProcessesNext]_processesVars PROVE TableInv'
    OBVIOUS
  <2>1. CASE UNCHANGED processesVars
    BY <2>1 DEF processesVars, TableInv, ProcessesTypeOK, CreditInv, CreditEarned
  <2> QED  BY <2>1, ProcessRuns, WalkBegins, ReadStatKeeps, FinishWalkKeeps
           DEF ProcessesNext
<1>3. TableInv => CreditEarned
  BY DEF TableInv
<1> QED  BY <1>1, <1>2, <1>3, PTL DEF ProcessesSpec

-----------------------------------------------------------------------------
(* The EC2 verdict and what hangs on it: the inductive invariant.          *)

\* A goroutine is past the verdict only once there is one, and on the side
\* the verdict sent it to; each read ends in the states it can end in.
TaskInv(r, t) ==
    LET s == requests[r].task[t]
    IN  /\ s \in {"imds?", "imds"} => ec2Once = "done" /\ ec2OK
        /\ s \in {"not_on_ec2", "echo?", "echo"} => ec2Once = "done" /\ ~ec2OK
        /\ t = "key" => s \in {"off", "ready", "wg", "failed"}
        /\ t = "endpoint" => s \notin {"wg", "not_on_ec2"}
        /\ t = "vpc" => s \notin {"wg", "echo?", "echo", "override"}

TasksInv == \A r \in Request, t \in Task : TaskInv(r, t)

\* The verdict is true, or the probe of an EC2 host has failed.
VerdictInv ==
    /\ ec2OK => ec2Once = "done" /\ host = "ec2"
    /\ ec2Once = "done" /\ ~ec2OK => host = "other" \/ probeFailed

Probing(r, t) == requests[r].task[t] = "probing"

\* One goroutine is inside the probe while it runs, and none otherwise.
ProbeInv ==
    /\ ec2Once = "running" => \E r \in Request, t \in Task : Probing(r, t)
    /\ \A r, q \in Request, t, u \in Task :
          Probing(r, t) /\ Probing(q, u) => r = q /\ t = u
    /\ \A r \in Request, t \in Task : Probing(r, t) => ec2Once = "running"

\* A handler has the goroutines it starts and no other, and answers when they
\* are over.  A download goes on to the VPC only with an endpoint and a key,
\* and its answer is the one the VPC read calls for.
RequestInv(r) ==
    LET q == requests[r]
    IN  /\ q.kind = "none" => \A t \in Task : q.task[t] = "off"
        /\ q.kind # "about" => \A t \in EC2Field : q.task[t] = "off"
        /\ q.kind # "config" => q.task["vpc"] = "off"
        /\ q.answer # "none" => \A t \in Task : q.task[t] \in Over \cup {"off"}
        /\ q.kind # "none" => q.task["endpoint"] # "off" /\ q.task["key"] # "off"
        /\ q.task["vpc"] # "off" =>
              /\ q.task["endpoint"] \in {"override", "imds", "echo"}
              /\ q.task["key"] = "wg"
        /\ q.answer = "vpc_config" => q.task["vpc"] = "imds"
        /\ q.answer = "plain_config" => q.task["vpc"] \in {"not_on_ec2", "failed"}

RequestsInv == \A r \in Request : RequestInv(r)

InfoInv ==
    InfoTypeOK /\ TasksInv /\ VerdictInv /\ ProbeInv /\ RequestsInv

-----------------------------------------------------------------------------
(* Facts the actions share.                                                *)

A_Request == [kind : Kind, task : [Task -> Status],
              answer : {"none", "page", "error", "vpc_config", "plain_config"}]

\* What moves when one goroutine moves.
LEMMA OneGoroutineMoves ==
    ASSUME InfoTypeOK, NEW r \in Request, NEW t \in Task, NEW s \in Status,
           Becomes(r, t, s)
    PROVE  /\ requests' \in [Request -> A_Request]
           /\ \A q \in Request :
                 /\ requests'[q].kind = requests[q].kind
                 /\ requests'[q].answer = requests[q].answer
                 /\ \A u \in Task : requests'[q].task[u] =
                       IF q = r /\ u = t THEN s ELSE requests[q].task[u]
<1>1. requests \in [Request -> A_Request]
  BY DEF InfoTypeOK, A_Request
<1>2. requests' = [requests EXCEPT ![r].task[t] = s]
  BY DEF Becomes
<1>3. requests[r].task \in [Task -> Status]
  BY <1>1 DEF A_Request
<1>4. [requests[r].task EXCEPT ![t] = s] \in [Task -> Status]
  BY <1>3
<1>5. [requests[r] EXCEPT !.task[t] = s] \in A_Request
  BY <1>1, <1>4 DEF A_Request
<1>6. requests' \in [Request -> A_Request]
  BY <1>1, <1>2, <1>5
<1>7. ASSUME NEW q \in Request
      PROVE  /\ requests'[q].kind = requests[q].kind
             /\ requests'[q].answer = requests[q].answer
             /\ \A u \in Task : requests'[q].task[u] =
                   IF q = r /\ u = t THEN s ELSE requests[q].task[u]
  BY <1>1, <1>2, <1>3 DEF A_Request
<1> QED  BY <1>6, <1>7

\* What moves when a handler answers.
LEMMA OneAnswer ==
    ASSUME InfoTypeOK, NEW r \in Request,
           NEW a \in {"page", "error", "vpc_config", "plain_config"},
           Answered(r, a)
    PROVE  /\ requests' \in [Request -> A_Request]
           /\ \A q \in Request :
                 /\ requests'[q].kind = requests[q].kind
                 /\ requests'[q].task = requests[q].task
                 /\ requests'[q].answer =
                       IF q = r THEN a ELSE requests[q].answer
  BY DEF InfoTypeOK, A_Request, Answered

\* The reads every request has, by name.
LEMMA TaskNames ==
    /\ "endpoint" \in Task /\ "key" \in Task /\ "vpc" \in Task
    /\ EC2Field \subseteq Task
  BY DEF Task

\* A goroutine that was not over moves: its request is not answered yet, and
\* nothing that is over changes.
LEMMA RequestsKept ==
    ASSUME InfoInv, NEW r \in Request, NEW t \in Task, NEW s \in Status,
           Becomes(r, t, s), s # "off",
           requests[r].task[t] \notin Over \cup {"off"}
    PROVE  RequestsInv'
<1>1. \A q \in Request :
          /\ requests'[q].kind = requests[q].kind
          /\ requests'[q].answer = requests[q].answer
          /\ \A u \in Task : requests'[q].task[u] =
                IF q = r /\ u = t THEN s ELSE requests[q].task[u]
  BY OneGoroutineMoves DEF InfoInv
<1> SUFFICES ASSUME NEW q \in Request PROVE RequestInv(q)'
  BY DEF RequestsInv
<1>2. RequestInv(q)
  BY DEF InfoInv, RequestsInv
<1>3. CASE q # r
  <2>1. \A u \in Task : requests'[q].task[u] = requests[q].task[u]
    BY <1>1, <1>3
  <2> QED  BY <1>1, <1>2, <2>1, TaskNames DEF RequestInv
<1>4. CASE q = r
  <2>1. /\ requests[q].answer = "none" /\ requests[q].kind # "none"
        /\ requests[q].kind # "about" => t \notin EC2Field
        /\ requests[q].kind # "config" => t # "vpc"
        /\ requests[q].task["vpc"] # "off" => t \notin {"endpoint", "key"}
    BY <1>2, <1>4, TaskNames DEF RequestInv, Over
  <2> QED  BY <1>1, <1>2, <1>4, <2>1, TaskNames DEF RequestInv
<1> QED  BY <1>3, <1>4

-----------------------------------------------------------------------------
(* One lemma per kind of step.                                             *)

\* A goroutine that is past the verdict or needs none moves on.
LEMMA GoroutineKeeps ==
    ASSUME InfoInv, NEW r \in Request, NEW t \in Task, NEW s \in Status,
           Becomes(r, t, s),
           UNCHANGED <<host, PublicEndpoint, ec2Once, ec2OK, probeFailed>>,
           requests[r].task[t] \notin Over \cup {"off", "probing"},
           s \notin {"off", "probing"},
           TaskInv(r, t)'
    PROVE  InfoInv'
<1>1. /\ requests' \in [Request -> A_Request]
      /\ \A q \in Request :
            /\ requests'[q].kind = requests[q].kind
            /\ requests'[q].answer = requests[q].answer
            /\ \A u \in Task : requests'[q].task[u] =
                  IF q = r /\ u = t THEN s ELSE requests[q].task[u]
  BY OneGoroutineMoves DEF InfoInv
<1>2. InfoTypeOK'
  BY <1>1 DEF InfoInv, InfoTypeOK, A_Request
<1>3. TasksInv'
  BY <1>1 DEF InfoInv, TasksInv, TaskInv
<1>4. VerdictInv'
  BY DEF InfoInv, VerdictInv
<1>5. ProbeInv'
  BY <1>1 DEF InfoInv, ProbeInv, Probing
<1>6. RequestsInv'
  BY RequestsKept
<1> QED  BY <1>2, <1>3, <1>4, <1>5, <1>6 DEF InfoInv

\* A goroutine enters the probe: it is the only one.
LEMMA ProbeStarts ==
    ASSUME InfoInv, NEW r \in Request, NEW t \in Task, onEC2(r, t)
    PROVE  InfoInv'
<1>1. /\ requests' \in [Request -> A_Request]
      /\ \A q \in Request :
            /\ requests'[q].kind = requests[q].kind
            /\ requests'[q].answer = requests[q].answer
            /\ \A u \in Task : requests'[q].task[u] =
                  IF q = r /\ u = t THEN "probing" ELSE requests[q].task[u]
  BY OneGoroutineMoves DEF InfoInv, onEC2, Status
<1>2. InfoTypeOK'
  BY <1>1 DEF InfoInv, InfoTypeOK, A_Request, onEC2
<1>3. TasksInv'
  BY <1>1 DEF InfoInv, TasksInv, TaskInv, onEC2
<1>4. VerdictInv'
  BY DEF InfoInv, VerdictInv, onEC2
<1>5. ProbeInv'
  BY <1>1 DEF InfoInv, ProbeInv, Probing, onEC2
<1>6. RequestsInv'
  BY RequestsKept DEF onEC2, Status, Over
<1> QED  BY <1>2, <1>3, <1>4, <1>5, <1>6 DEF InfoInv

\* The probe ends: the verdict is there, and nobody is past it yet.
LEMMA ProbeEnds ==
    ASSUME InfoInv, NEW r \in Request, NEW t \in Task, defaultEC2Probe(r, t)
    PROVE  InfoInv'
<1>0. PICK ok \in BOOLEAN :
          /\ ok => host = "ec2"
          /\ ec2OK' = ok
          /\ probeFailed' = (probeFailed \/ (host = "ec2" /\ ~ok))
  BY DEF defaultEC2Probe
<1>1. /\ Becomes(r, t, "ready") /\ ec2Once' = "done"
      /\ Probing(r, t)
      /\ UNCHANGED <<host, PublicEndpoint>>
  BY DEF defaultEC2Probe, OnceAfter, Probing
<1>2. /\ requests' \in [Request -> A_Request]
      /\ \A q \in Request :
            /\ requests'[q].kind = requests[q].kind
            /\ requests'[q].answer = requests[q].answer
            /\ \A u \in Task : requests'[q].task[u] =
                  IF q = r /\ u = t THEN "ready" ELSE requests[q].task[u]
  BY <1>1, OneGoroutineMoves DEF InfoInv, Status
<1>3. ec2Once = "running"
  BY <1>1 DEF InfoInv, ProbeInv
<1>4. InfoTypeOK'
  BY <1>0, <1>1, <1>2 DEF InfoInv, InfoTypeOK, A_Request
<1>5. TasksInv'
  BY <1>1, <1>2, <1>3 DEF InfoInv, TasksInv, TaskInv
<1>6. VerdictInv'
  BY <1>0, <1>1 DEF InfoInv, InfoTypeOK, VerdictInv
<1>7. ProbeInv'
  BY <1>1, <1>2 DEF InfoInv, ProbeInv, Probing
<1>8. RequestsInv'
  BY <1>1, RequestsKept DEF Probing, Status, Over
<1> QED  BY <1>4, <1>5, <1>6, <1>7, <1>8 DEF InfoInv

\* A handler answers; a configuration only with the VPC read over.
LEMMA AnswerKeeps ==
    ASSUME InfoInv, NEW r \in Request,
           NEW a \in {"page", "error", "vpc_config", "plain_config"},
           Answered(r, a),
           UNCHANGED <<host, PublicEndpoint, ec2Once, ec2OK, probeFailed>>,
           \A t \in Task : requests[r].task[t] \in Over \cup {"off"},
           a = "vpc_config" => requests[r].task["vpc"] = "imds",
           a = "plain_config" => requests[r].task["vpc"] \in {"not_on_ec2", "failed"}
    PROVE  InfoInv'
<1>1. /\ requests' \in [Request -> A_Request]
      /\ \A q \in Request :
            /\ requests'[q].kind = requests[q].kind
            /\ requests'[q].task = requests[q].task
            /\ requests'[q].answer = IF q = r THEN a ELSE requests[q].answer
  BY OneAnswer DEF InfoInv
<1>2. InfoTypeOK'
  BY <1>1 DEF InfoInv, InfoTypeOK, A_Request
<1>3. TasksInv' /\ VerdictInv' /\ ProbeInv'
  BY <1>1 DEF InfoInv, TasksInv, TaskInv, VerdictInv, ProbeInv, Probing
<1>4. RequestsInv'
  BY <1>1 DEF InfoInv, RequestsInv, RequestInv
<1> QED  BY <1>2, <1>3, <1>4 DEF InfoInv

\* A slot is taken by a request, or given up.
LEMMA SlotKeeps ==
    ASSUME InfoInv, NEW r \in Request,
           (\E k \in Kind \ {"none"} : Arrives(r, k)) \/ Leaves(r)
    PROVE  InfoInv'
<1>1. PICK q \in A_Request :
          /\ requests' = [requests EXCEPT ![r] = q]
          /\ q.answer = "none"
          /\ \A t \in Task : q.task[t] \in {"off", "ready"}
          /\ q.task["vpc"] = "off"
          /\ q.kind # "about" => \A t \in EC2Field : q.task[t] = "off"
          /\ q.kind = "none" => \A t \in Task : q.task[t] = "off"
          /\ q.kind # "none" => q.task["endpoint"] = "ready" /\ q.task["key"] = "ready"
  <2>1. CASE Leaves(r)
    <3>1. NoRequest \in A_Request
      BY DEF NoRequest, A_Request, Kind, Status
    <3> QED  BY <2>1, <3>1, TaskNames DEF Leaves, NoRequest, Task
  <2>2. CASE \E k \in Kind \ {"none"} : Arrives(r, k)
    <3>1. PICK k \in Kind \ {"none"} : Arrives(r, k)
      BY <2>2
    <3>2. Started(k) \in [Task -> Status]
      BY DEF Started, Status
    <3>3. \A t \in Task : Started(k)[t] \in {"off", "ready"}
      BY DEF Started
    <3>4. /\ Started(k)["vpc"] = "off"
          /\ Started(k)["endpoint"] = "ready" /\ Started(k)["key"] = "ready"
          /\ k # "about" => \A t \in EC2Field : Started(k)[t] = "off"
      BY ServerInfoAssumption DEF Started, Task
    <3> DEFINE q == [kind |-> k, task |-> Started(k), answer |-> "none"]
    <3>5. requests' = [requests EXCEPT ![r] = q]
      BY <3>1 DEF Arrives
    <3>6. q \in A_Request
      BY <3>2 DEF A_Request
    <3> QED  BY <3>3, <3>4, <3>5, <3>6
  <2> QED  BY <2>1, <2>2
<1>2. UNCHANGED <<host, PublicEndpoint, ec2Once, ec2OK, probeFailed>>
  BY DEF Arrives, Leaves
<1>3. requests[r].kind = "none" \/ requests[r].answer # "none"
  BY DEF Arrives, Leaves
<1>4. \A t \in Task : ~Probing(r, t)
  BY <1>3 DEF InfoInv, RequestsInv, RequestInv, Probing, Over
<1>5. requests \in [Request -> A_Request]
  BY DEF InfoInv, InfoTypeOK, A_Request
<1>6. \A p \in Request : requests'[p] = IF p = r THEN q ELSE requests[p]
  BY <1>1, <1>5
<1>7. InfoTypeOK'
  BY <1>1, <1>2, <1>5 DEF InfoInv, InfoTypeOK, A_Request
<1>8. TasksInv' /\ VerdictInv'
  BY <1>1, <1>2, <1>6 DEF InfoInv, TasksInv, TaskInv, VerdictInv
<1>9. ProbeInv'
  BY <1>1, <1>2, <1>4, <1>6 DEF InfoInv, ProbeInv, Probing
<1>10. RequestsInv'
  BY <1>1, <1>6 DEF InfoInv, RequestsInv, RequestInv
<1> QED  BY <1>7, <1>8, <1>9, <1>10 DEF InfoInv

\* The steps of one request.
LEMMA HandlingKeeps ==
    ASSUME InfoInv, NEW r \in Request, Handling(r)
    PROVE  InfoInv'
<1>0. \A t \in Task : TaskInv(r, t)
  BY DEF InfoInv, TasksInv
<1>1. ASSUME NEW t \in Task, Goroutine(r, t)
      PROVE  InfoInv'
  <2>1. CASE onEC2(r, t)
    BY <2>1, ProbeStarts
  <2>2. CASE defaultEC2Probe(r, t)
    BY <2>2, ProbeEnds
  <2>3. CASE EC2Only(r, t)
    <3>1. PICK s \in {"imds?", "not_on_ec2"} :
              /\ Becomes(r, t, s) /\ s = IF ec2OK THEN "imds?" ELSE "not_on_ec2"
      BY <2>3 DEF EC2Only
    <3>2. requests'[r].task[t] = s
      BY <3>1, OneGoroutineMoves DEF InfoInv, Status
    <3>3. TaskInv(r, t)'
      BY <2>3, <3>1, <3>2, ServerInfoAssumption DEF EC2Only, VerdictKnown, TaskInv
    <3> QED  BY <2>3, <3>1, <3>3, GoroutineKeeps DEF EC2Only, Status, Over
  <2>4. CASE metadata(r, t)
    <3>1. PICK s \in {"imds", "failed"} : Becomes(r, t, s)
      BY <2>4 DEF metadata
    <3>2. requests'[r].task[t] = s
      BY <3>1, OneGoroutineMoves DEF InfoInv, Status
    <3>3. TaskInv(r, t)'
      BY <1>0, <2>4, <3>2 DEF metadata, TaskInv
    <3> QED  BY <2>4, <3>1, <3>3, GoroutineKeeps DEF metadata, Status, Over
  <2> QED  BY <1>1, <2>1, <2>2, <2>3, <2>4 DEF Goroutine
<1>2. CASE resolvePublicIP(r)
  <2>1. PICK s \in {"override", "imds?", "echo?"} :
            /\ Becomes(r, "endpoint", s)
            /\ s # "override" => ec2Once = "done" /\ s = IF ec2OK THEN "imds?" ELSE "echo?"
    BY <1>2 DEF resolvePublicIP, VerdictKnown
  <2>2. requests'[r].task["endpoint"] = s
    BY <2>1, TaskNames, OneGoroutineMoves DEF InfoInv, Status
  <2>3. TaskInv(r, "endpoint")'
    BY <1>2, <2>1, <2>2 DEF resolvePublicIP, TaskInv
  <2> QED
    BY <1>2, <2>1, <2>3, TaskNames, GoroutineKeeps DEF resolvePublicIP, Status, Over
<1>3. CASE echo(r)
  <2>1. PICK s \in {"failed", "echo"} : Becomes(r, "endpoint", s)
    BY <1>3 DEF echo
  <2>2. requests'[r].task["endpoint"] = s
    BY <2>1, TaskNames, OneGoroutineMoves DEF InfoInv, Status
  <2>3. TaskInv(r, "endpoint")'
    BY <1>0, <1>3, <2>2, TaskNames DEF echo, TaskInv
  <2> QED  BY <1>3, <2>1, <2>3, TaskNames, GoroutineKeeps DEF echo, Status, Over
<1>4. CASE fetchServerPublicKey(r)
  <2>1. PICK s \in {"failed", "wg"} : Becomes(r, "key", s)
    BY <1>4 DEF fetchServerPublicKey
  <2>2. requests'[r].task["key"] = s
    BY <2>1, TaskNames, OneGoroutineMoves DEF InfoInv, Status
  <2>3. TaskInv(r, "key")'
    BY <2>2 DEF TaskInv
  <2> QED
    BY <1>4, <2>1, <2>3, TaskNames, GoroutineKeeps DEF fetchServerPublicKey, Status, Over
<1>5. CASE handleGetPartialAbout(r)
  <2>1. \A t \in Task : requests[r].task[t] \in Over \cup {"off"}
    BY <1>5 DEF handleGetPartialAbout, Waited, InfoInv, RequestsInv, RequestInv, Task
  <2> QED  BY <1>5, <2>1, AnswerKeeps DEF handleGetPartialAbout
<1>6. CASE handleGetServer(r) \/ handleGetSnapshot(r)
  <2>1. \A t \in Task : requests[r].task[t] \in Over \cup {"off"}
    BY <1>6 DEF handleGetServer, handleGetSnapshot, Waited, InfoInv, RequestsInv,
       RequestInv, Task
  <2> QED  BY <1>6, <2>1, AnswerKeeps DEF handleGetServer, handleGetSnapshot
<1>7. CASE ConfigGet(r)
  <2>1. \A t \in Task : requests[r].task[t] \in Over \cup {"off"}
    BY <1>7 DEF ConfigGet, Waited, InfoInv, RequestsInv, RequestInv, Task
  <2>2. CASE GetFailed(r) /\ Answered(r, "error")
    BY <1>7, <2>1, <2>2, AnswerKeeps DEF ConfigGet
  <2>3. CASE ~GetFailed(r) /\ Becomes(r, "vpc", "ready")
    <3>1. /\ requests[r].task["endpoint"] \in {"override", "imds", "echo"}
          /\ requests[r].task["key"] = "wg"
      BY <1>0, <1>7, <2>3, TaskNames DEF ConfigGet, GetFailed, Waited, TaskInv, Over
    <3>2. /\ requests' \in [Request -> A_Request]
          /\ \A q \in Request :
                /\ requests'[q].kind = requests[q].kind
                /\ requests'[q].answer = requests[q].answer
                /\ \A u \in Task : requests'[q].task[u] =
                      IF q = r /\ u = "vpc" THEN "ready" ELSE requests[q].task[u]
      BY <2>3, TaskNames, OneGoroutineMoves DEF InfoInv, Status
    <3>3. InfoTypeOK'
      BY <1>7, <3>2 DEF ConfigGet, InfoInv, InfoTypeOK, A_Request
    <3>4. TasksInv' /\ VerdictInv'
      BY <1>7, <3>2 DEF ConfigGet, InfoInv, TasksInv, TaskInv, VerdictInv
    <3>5. ProbeInv'
      BY <1>7, <3>2 DEF ConfigGet, InfoInv, ProbeInv, Probing
    <3>6. RequestsInv'
      <4> SUFFICES ASSUME NEW q \in Request PROVE RequestInv(q)'
        BY DEF RequestsInv
      <4>1. RequestInv(q)
        BY DEF InfoInv, RequestsInv
      <4>2. CASE q # r
        <5>1. \A u \in Task : requests'[q].task[u] = requests[q].task[u]
          BY <3>2, <4>2
        <5> QED  BY <3>2, <4>1, <5>1, TaskNames DEF RequestInv
      <4>3. CASE q = r
        <5>1. requests[r].kind = "config" /\ requests[r].answer = "none"
          BY <1>7 DEF ConfigGet, Waited
        <5>2. "vpc" \notin EC2Field
          BY ServerInfoAssumption
        <5> QED
          BY <3>1, <3>2, <4>1, <4>3, <5>1, <5>2, TaskNames DEF RequestInv
      <4> QED  BY <4>2, <4>3
    <3> QED  BY <3>3, <3>4, <3>5, <3>6 DEF InfoInv
  <2> QED  BY <1>7, <2>2, <2>3 DEF ConfigGet
<1>8. CASE handleGetClientConfig(r)
  <2>1. \A t \in Task : requests[r].task[t] \in Over \cup {"off"}
    BY <1>8 DEF handleGetClientConfig, Waited, InfoInv, RequestsInv, RequestInv,
       Task, Over
  <2>2. PICK a \in {"vpc_config", "error", "plain_config"} :
            /\ Answered(r, a)
            /\ a = "vpc_config" => requests[r].task["vpc"] = "imds"
            /\ a = "plain_config" => requests[r].task["vpc"] # "imds"
    BY <1>8 DEF handleGetClientConfig
  <2>3. requests[r].task["vpc"] \in {"imds", "not_on_ec2", "failed"}
    BY <1>0, <1>8, TaskNames DEF handleGetClientConfig, Waited, TaskInv, Over
  <2> QED  BY <1>8, <2>1, <2>2, <2>3, AnswerKeeps DEF handleGetClientConfig
<1> QED
  BY <1>1, <1>2, <1>3, <1>4, <1>5, <1>6, <1>7, <1>8 DEF Handling

-----------------------------------------------------------------------------
(* The invariant, and what it says of the pages.                           *)

\* InfoInv is an invariant of the service under any requests.
LEMMA InfoInvariant == InfoSpec => []InfoInv
<1>0. ASSUME requests = [r \in Request |-> NoRequest]
      PROVE  /\ requests \in [Request -> A_Request]
             /\ \A r \in Request, t \in Task : requests[r].task[t] = "off"
             /\ RequestsInv
  <2>1. NoRequest \in A_Request
    BY DEF NoRequest, A_Request, Kind, Status
  <2>2. \A r \in Request, t \in Task : requests[r].task[t] = "off"
    BY <1>0 DEF NoRequest
  <2>3. \A r \in Request : requests[r].kind = "none" /\ requests[r].answer = "none"
    BY <1>0 DEF NoRequest
  <2>4. RequestsInv
    BY <2>2, <2>3, TaskNames DEF RequestsInv, RequestInv
  <2> QED  BY <1>0, <2>1, <2>2, <2>4
<1>1. InfoInit => InfoInv
  BY <1>0 DEF InfoInit, InfoInv, InfoTypeOK, A_Request, TasksInv, TaskInv,
     VerdictInv, ProbeInv, Probing
<1>2. ASSUME InfoInv, InfoRestart
      PROVE  InfoInv'
  <2>1. /\ requests' \in [Request -> A_Request]
        /\ \A r \in Request, t \in Task : requests'[r].task[t] = "off"
        /\ RequestsInv'
    <3>1. NoRequest \in A_Request
      BY DEF NoRequest, A_Request, Kind, Status
    <3>2. requests' = [r \in Request |-> NoRequest]
      BY <1>2 DEF InfoRestart
    <3>3. \A r \in Request : /\ requests'[r].kind = "none"
                             /\ requests'[r].answer = "none"
                             /\ \A t \in Task : requests'[r].task[t] = "off"
      BY <3>2 DEF NoRequest
    <3>4. RequestsInv'
      BY <3>3, TaskNames DEF RequestsInv, RequestInv
    <3> QED  BY <3>1, <3>2, <3>3, <3>4
  <2> QED
    BY <1>2, <2>1, ZenonT(60) DEF InfoRestart, InfoInv, InfoTypeOK, A_Request, TasksInv,
       TaskInv, VerdictInv, ProbeInv, Probing
<1>3. ASSUME InfoInv, UNCHANGED infoVars
      PROVE  InfoInv'
  BY <1>3 DEF infoVars, InfoInv, InfoTypeOK, TasksInv, TaskInv, VerdictInv,
     ProbeInv, Probing, RequestsInv, RequestInv
<1>4. InfoInv /\ [InfoNext]_infoVars => InfoInv'
  BY <1>2, <1>3, SlotKeeps, HandlingKeeps DEF InfoNext
<1> QED  BY <1>1, <1>4, PTL DEF InfoSpec

\* No two goroutines of any requests act on different verdicts.
THEOREM VerdictIsOne == InfoSpec => []OneVerdict
<1>1. InfoInv => OneVerdict
  <2> SUFFICES ASSUME InfoInv, NEW r \in Request, NEW q \in Request,
                      "imds" \in Results(r)
               PROVE  {"not_on_ec2", "echo"} \cap Results(q) = {}
    BY DEF OneVerdict
  <2>1. ec2OK
    BY DEF Results, InfoInv, TasksInv, TaskInv
  <2>2. \A t \in Task : requests[q].task[t] \notin {"not_on_ec2", "echo"}
    BY <2>1 DEF InfoInv, TasksInv, TaskInv
  <2> QED  BY <2>2 DEF Results
<1> QED  BY <1>1, InfoInvariant, PTL

\* A configuration is complete, and plain on EC2 only after a failed read.
THEOREM ConfigsTruthful == InfoSpec => []ConfigTruthful
<1>1. InfoInv => ConfigTruthful
  <2> SUFFICES ASSUME InfoInv, NEW r \in Request,
                      requests[r].answer \in {"vpc_config", "plain_config"}
               PROVE  /\ requests[r].task["endpoint"] \in {"override", "imds", "echo"}
                      /\ requests[r].task["key"] = "wg"
                      /\ requests[r].answer = "vpc_config" => host = "ec2"
                      /\ requests[r].answer = "plain_config" =>
                            \/ host = "other"
                            \/ probeFailed
                            \/ requests[r].task["vpc"] = "failed"
    BY DEF ConfigTruthful
  <2>1. RequestInv(r) /\ TaskInv(r, "vpc") /\ VerdictInv
    BY TaskNames DEF InfoInv, RequestsInv, TasksInv
  <2> QED  BY <2>1 DEF RequestInv, TaskInv, VerdictInv
<1> QED  BY <1>1, InfoInvariant, PTL

\* While the probe is out, exactly one goroutine is in it.
THEOREM ProbeNeverAbandoned == InfoSpec => []NobodyStranded
<1>1. InfoInv => NobodyStranded
  <2> SUFFICES ASSUME InfoInv PROVE NobodyStranded
    OBVIOUS
  <2> DEFINE probing == {x \in Request \X Task :
                            requests[x[1]].task[x[2]] = "probing"}
  <2>1. ec2Once = "running" => probing # {}
    <3> SUFFICES ASSUME ec2Once = "running" PROVE probing # {}
      OBVIOUS
    <3>1. PICK r \in Request, t \in Task : requests[r].task[t] = "probing"
      BY DEF InfoInv, ProbeInv, Probing
    <3>2. <<r, t>> \in probing
      BY <3>1
    <3> QED  BY <3>2
  <2>2. \A x, y \in probing : x = y
    BY DEF InfoInv, ProbeInv, Probing
  <2>3. \A r \in Request :
            requests[r].kind # "none" => "off" \notin
                {requests[r].task["endpoint"], requests[r].task["key"]}
    BY DEF InfoInv, RequestsInv, RequestInv
  <2> QED  BY <2>1, <2>2, <2>3 DEF NobodyStranded
<1> QED  BY <1>1, InfoInvariant, PTL
=============================================================================
