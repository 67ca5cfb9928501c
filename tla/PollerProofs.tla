---------------------------- MODULE PollerProofs ----------------------------
(***************************************************************************)
(* The evaluator and the status view of the sample loop, by itself and     *)
(* composed with the dispatch worker, for any clients, thresholds, ring    *)
(* and channel size, distance of ticks and failing reads.                  *)
(***************************************************************************)
EXTENDS Dispatch, SortingProofs, SequenceTheorems

USE DEF Host

-----------------------------------------------------------------------------
(* The evaluator's operators.                                              *)

LEMMA OlderBounds ==
    ASSUME NEW age \in Nat, NEW elapsed \in Nat, NEW limit \in Nat
    PROVE  Older(age, elapsed, limit) \in 0 .. limit
  BY DEF Older

LEMMA ReadOK ==
    ASSUME TypeOK, NEW failed
    PROVE  /\ DOMAIN Samples(failed) \subseteq Client
           /\ \A c \in DOMAIN Samples(failed) :
                 /\ c \in DOMAIN wgPeers
                 /\ Samples(failed)[c] = wgPeers[c]
                 /\ Samples(failed)[c] \in Counters
  BY DEF TypeOK, Samples

LEMMA RebaseOK ==
    ASSUME TypeOK, NEW in, NEW c \in Client, in.peers[c] \in Counters
    PROVE  Rebase(in, c) \in Counters
  BY DEF TypeOK, EvaluatorTypeOK, Rebase

LEMMA HighRunOK ==
    ASSUME TypeOK, NEW in, NEW elapsed \in Nat, EvaluatorAssumption
    PROVE  HighRun(in, elapsed) \in 0 .. Sustain \cup {None}
<1>1. highFor \in 0 .. Sustain \cup {None} /\ Sustain \in Nat
  BY DEF TypeOK, EvaluatorTypeOK, EvaluatorAssumption
<1>2. ASSUME highFor # None PROVE Older(highFor, elapsed, Sustain) \in 0 .. Sustain
  <2>1. highFor \in Nat
    BY <1>1, <1>2
  <2> QED  BY <1>1, <2>1, OlderBounds
<1> QED  BY <1>1, <1>2 DEF HighRun

\* What one evaluation leaves of the keys: a key is firing afterwards if it is
\* bad, or was firing and nothing was observed of it.
LEMMA KeysOK ==
    ASSUME NEW in, DOMAIN in.peers \subseteq Client, NEW elapsed
    PROVE  /\ Observed(in) \subseteq Keys
           /\ Bad(in, elapsed) \subseteq Observed(in)
           /\ Fires(in, elapsed) \subseteq Bad(in, elapsed)
           /\ Recovers(in, elapsed) \subseteq firing \ Bad(in, elapsed)
           /\ Recovers(in, elapsed) \subseteq Observed(in)
  BY DEF Observed, Bad, Fires, Recovers, Keys

-----------------------------------------------------------------------------
(* The events and the log.                                                 *)

\* One event for every key that fires or recovers, a Fire if it fires.
EventsFor(e, fires, recovers) ==
    /\ e \in Seq(Event)
    /\ \A i \in 1 .. Len(e) : /\ e[i].key \in fires \cup recovers
                              /\ e[i].kind = "fire" <=> e[i].key \in fires
    /\ \A i, j \in 1 .. Len(e) : e[i].key = e[j].key => i = j
    /\ \A k \in fires \cup recovers : \E i \in 1 .. Len(e) : e[i].key = k

\* Evaluate's result is that list.
LEMMA EventsOK ==
    ASSUME PollerAssumption,
           NEW fires \in SUBSET Keys, NEW recovers \in SUBSET Keys
    PROVE  EventsFor(Events(fires, recovers), fires, recovers)
<1> DEFINE emitted == {i \in DOMAIN KeyOrder : KeyOrder[i] \in fires \cup recovers}
           n == Cardinality(emitted)
           sorted == Ascending(emitted)
           e == Events(fires, recovers)
<1>0. /\ KeyOrder \in Seq(Keys) /\ DOMAIN KeyOrder = 1 .. Len(KeyOrder)
      /\ Len(KeyOrder) \in Nat
  BY DEF PollerAssumption
<1>1. emitted \in SUBSET Int /\ IsFiniteSet(emitted)
  <2>1. emitted \in SUBSET (1 .. Len(KeyOrder))
    BY <1>0
  <2>2. IsFiniteSet(1 .. Len(KeyOrder))
    BY <1>0, FS_Interval
  <2> QED  BY <1>0, <2>1, <2>2, FS_Subset
<1>2. /\ n \in Nat
      /\ sorted \in [1 .. n -> emitted]
      /\ \A i, j \in 1 .. n : i < j <=> sorted[i] < sorted[j]
      /\ \A t \in emitted : \E i \in 1 .. n : sorted[i] = t
  <2> HIDE DEF emitted
  <2> QED  BY <1>1, AscendingEnumerates
<1>3. e = [i \in 1 .. n |->
             [key  |-> KeyOrder[sorted[i]],
              kind |-> IF KeyOrder[sorted[i]] \in fires THEN "fire"
                       ELSE "recovery"]]
  <2>1. DOMAIN sorted = 1 .. n
    BY <1>2
  <2> QED  BY <2>1 DEF Events
<1>4. \A j \in emitted : j \in DOMAIN KeyOrder /\ KeyOrder[j] \in fires \cup recovers
  OBVIOUS
<1>5. \A j \in DOMAIN KeyOrder : KeyOrder[j] \in fires \cup recovers => j \in emitted
  OBVIOUS
<1> HIDE DEF n, sorted, emitted, e
<1>6. \A i \in 1 .. n :
         /\ sorted[i] \in emitted
         /\ e[i].key = KeyOrder[sorted[i]]
         /\ e[i].kind = IF KeyOrder[sorted[i]] \in fires THEN "fire" ELSE "recovery"
         /\ e[i] \in Event
  BY <1>2, <1>3, <1>4 DEF Event
<1>7. e \in Seq(Event) /\ Len(e) = n
  BY <1>2, <1>3, <1>6
<1>8. \A i \in 1 .. n : /\ e[i].key \in fires \cup recovers
                        /\ e[i].kind = "fire" <=> e[i].key \in fires
  BY <1>4, <1>6
<1>9. ASSUME NEW i \in 1 .. n, NEW j \in 1 .. n, e[i].key = e[j].key
      PROVE  i = j
  <2>1. sorted[i] = sorted[j]
    BY <1>4, <1>6, <1>9 DEF PollerAssumption
  <2>2. sorted[i] \in Int /\ sorted[j] \in Int
    BY <1>1, <1>6
  <2>3. ~(i < j) /\ ~(j < i)
    BY <1>2, <2>1, <2>2
  <2> QED  BY <1>2, <2>3
<1>10. ASSUME NEW k \in fires \cup recovers
       PROVE  \E i \in 1 .. n : e[i].key = k
  <2>1. PICK t \in DOMAIN KeyOrder : KeyOrder[t] = k
    BY DEF PollerAssumption
  <2>2. PICK i \in 1 .. n : sorted[i] = t
    BY <1>2, <1>5, <2>1
  <2> QED  BY <1>6, <2>1, <2>2
<1> QED  BY <1>7, <1>8, <1>9, <1>10 DEF EventsFor, e

\* The entries of a key after the i-th, which is of the same key.
Later(s, i) == {j \in 1 .. Len(s) : j > i /\ s[j].key = s[i].key}

\* LogAgrees of any log and view.
Agrees(s, shown) ==
    \A i \in 1 .. Len(s) :
        /\ Later(s, i) = {} => (s[i].kind = "fire" <=> s[i].key \in shown)
        /\ Later(s, i) # {} =>
              \E j \in Later(s, i) :
                 /\ \A l \in Later(s, i) : j <= l
                 /\ s[i].kind = "recovery" => s[j].kind = "fire"

LEMMA LogAgreesIs ==
    ASSUME TypeOK
    PROVE  LogAgrees <=> Agrees(recent, view)
<1>1. DOMAIN recent = 1 .. Len(recent)
  BY DEF TypeOK
<1>2. LogAgrees <=>
        \A i \in 1 .. Len(recent) :
            IF Later(recent, i) = {}
            THEN recent[i].kind = "fire" <=> recent[i].key \in view
            ELSE \E j \in Later(recent, i) :
                    /\ \A l \in Later(recent, i) : j <= l
                    /\ recent[i].kind = "recovery" => recent[j].kind = "fire"
  BY <1>1 DEF LogAgrees, Later
<1> QED  BY <1>2, Zenon DEF Agrees

\* A log the events of an evaluation are appended to agrees with the view the
\* evaluation leaves: only a firing key recovers, and a key that neither fires
\* nor recovers stays as it was.
LEMMA LogGrows ==
    ASSUME NEW s \in Seq(Event), NEW old, NEW new, NEW fires, NEW recovers,
           NEW e, EventsFor(e, fires, recovers),
           Agrees(s, old),
           fires \subseteq new,
           recovers \subseteq old \ new,
           \A k \in Keys \ (fires \cup recovers) : k \in old <=> k \in new
    PROVE  s \o e \in Seq(Event) /\ Agrees(s \o e, new)
<1> DEFINE all == s \o e
           m == Len(s)
           n == Len(e)
<1>1. /\ m \in Nat /\ n \in Nat /\ e \in Seq(Event)
      /\ all \in Seq(Event) /\ Len(all) = m + n
      /\ \A i \in 1 .. m : all[i] = s[i]
      /\ \A i \in 1 .. n : all[m + i] = e[i]
      /\ \A i \in 1 .. m : s[i] \in Event
  BY DEF EventsFor
<1>2. /\ \A i \in 1 .. n : /\ e[i].key \in fires \cup recovers
                           /\ e[i].kind = "fire" <=> e[i].key \in fires
      /\ \A i, j \in 1 .. n : e[i].key = e[j].key => i = j
      /\ \A k \in fires \cup recovers : \E i \in 1 .. n : e[i].key = k
  BY DEF EventsFor
<1>3. \A i \in m + 1 .. m + n : i - m \in 1 .. n /\ all[i] = e[i - m]
  <2> HIDE DEF all
  <2> TAKE i \in m + 1 .. m + n
  <2> DEFINE h == i - m
  <2>1. h \in 1 .. n /\ i = m + h
    BY <1>1
  <2> QED  BY <1>1, <2>1
<1> HIDE DEF all, m, n
<1>4. ASSUME NEW i \in m + 1 .. m + n
      PROVE  /\ Later(all, i) = {}
             /\ all[i].kind = "fire" <=> all[i].key \in new
  <2>1. i - m \in 1 .. n /\ all[i] = e[i - m]
    BY <1>3
  <2>2. ASSUME NEW j \in Later(all, i) PROVE FALSE
    <3>1. j \in m + 1 .. m + n /\ j > i /\ all[j].key = all[i].key
      BY <1>1 DEF Later
    <3>2. j - m \in 1 .. n /\ all[j] = e[j - m]
      BY <1>3, <3>1
    <3>3. j - m = i - m
      BY <1>2, <2>1, <3>1, <3>2
    <3> QED  BY <1>1, <3>1, <3>3
  <2>3. /\ all[i].key \in fires \cup recovers
        /\ all[i].kind = "fire" <=> all[i].key \in fires
    BY <1>2, <2>1
  <2>4. all[i].kind = "fire" <=> all[i].key \in new
    BY <2>3
  <2> QED  BY <2>2, <2>4
<1>5. ASSUME NEW i \in 1 .. m
      PROVE  /\ all[i] = s[i]
             /\ Later(s, i) \subseteq Later(all, i)
             /\ \A j \in Later(all, i) \ Later(s, i) : j \in m + 1 .. m + n
  BY <1>1 DEF Later, m
<1>6. ASSUME NEW i \in 1 .. m, Later(s, i) # {}
      PROVE  \E j \in Later(all, i) :
                 /\ \A l \in Later(all, i) : j <= l
                 /\ all[i].kind = "recovery" => all[j].kind = "fire"
  <2>1. PICK j \in Later(s, i) :
            /\ \A l \in Later(s, i) : j <= l
            /\ s[i].kind = "recovery" => s[j].kind = "fire"
    BY <1>6 DEF Agrees, m
  <2>2. j \in 1 .. m
    BY DEF Later, m
  <2> QED  BY <1>1, <1>5, <2>1, <2>2
<1>7. ASSUME NEW i \in 1 .. m, Later(s, i) = {}, NEW l \in Later(all, i)
      PROVE  \E j \in Later(all, i) :
                 /\ \A h \in Later(all, i) : j <= h
                 /\ all[i].kind = "recovery" => all[j].kind = "fire"
  <2>1. s[i].kind = "fire" <=> s[i].key \in old
    BY <1>7 DEF Agrees, m
  <2>2. ASSUME NEW j \in Later(all, i)
        PROVE  /\ j \in m + 1 .. m + n
               /\ all[j].key = s[i].key
               /\ all[j] = e[j - m] /\ j - m \in 1 .. n
    BY <1>3, <1>5, <1>7 DEF Later
  <2>3. \A h \in Later(all, i) : l = h
    <3> TAKE h \in Later(all, i)
    <3>1. e[l - m].key = e[h - m].key /\ l - m \in 1 .. n /\ h - m \in 1 .. n
      BY <2>2
    <3>2. l - m = h - m
      BY <1>2, <3>1
    <3>3. l \in m + 1 .. m + n /\ h \in m + 1 .. m + n
      BY <2>2
    <3> QED  BY <1>1, <3>2, <3>3
  <2>4. ASSUME all[i].kind = "recovery" PROVE all[l].kind = "fire"
    <3>1. s[i].key \notin old
      BY <1>5, <2>1, <2>4
    <3>2. e[l - m].key = s[i].key /\ l - m \in 1 .. n
      BY <2>2
    <3>3. e[l - m].key \in fires \cup recovers
      BY <1>2, <3>2
    <3>4. e[l - m].key \in fires
      BY <3>1, <3>2, <3>3
    <3> QED  BY <1>2, <2>2, <3>2, <3>4
  <2>5. l \in Nat
    BY <1>1, <2>2
  <2> QED  BY <2>3, <2>4, <2>5
<1>8. ASSUME NEW i \in 1 .. m, Later(all, i) = {}
      PROVE  all[i].kind = "fire" <=> all[i].key \in new
  <2>1. Later(s, i) = {}
    BY <1>5, <1>8
  <2>2. s[i].kind = "fire" <=> s[i].key \in old
    BY <2>1 DEF Agrees, m
  <2>3. s[i].key \notin fires \cup recovers
    <3> SUFFICES ASSUME s[i].key \in fires \cup recovers PROVE FALSE
      OBVIOUS
    <3>1. PICK h \in 1 .. n : e[h].key = s[i].key
      BY <1>2
    <3>2. m + h \in 1 .. m + n /\ m + h > i /\ all[m + h] = e[h]
      BY <1>1
    <3>3. m + h \in Later(all, i)
      BY <1>1, <1>5, <3>1, <3>2 DEF Later
    <3> QED  BY <1>8, <3>3
  <2>4. s[i].key \in Keys
    BY <1>1 DEF Event
  <2> QED  BY <1>5, <2>2, <2>3, <2>4
<1>9. \A i \in 1 .. Len(all) : i \in 1 .. m \/ i \in m + 1 .. m + n
  BY <1>1
<1>10. Agrees(all, new)
  <2> SUFFICES ASSUME NEW i \in 1 .. Len(all)
      PROVE  /\ Later(all, i) = {} => (all[i].kind = "fire" <=> all[i].key \in new)
             /\ Later(all, i) # {} =>
                   \E j \in Later(all, i) :
                      /\ \A l \in Later(all, i) : j <= l
                      /\ all[i].kind = "recovery" => all[j].kind = "fire"
    BY Zenon DEF Agrees
  <2>1. CASE i \in m + 1 .. m + n
    BY <1>4, <2>1
  <2>2. CASE i \in 1 .. m
    BY <1>6, <1>7, <1>8, <2>2
  <2> QED  BY <1>9, <2>1, <2>2
<1> QED  BY <1>1, <1>10 DEF all

\* A log that loses its oldest entries still agrees.
LEMMA LogTrimmed ==
    ASSUME NEW s \in Seq(Event), NEW shown, Agrees(s, shown),
           NEW from \in 1 .. Len(s) + 1
    PROVE  /\ SubSeq(s, from, Len(s)) \in Seq(Event)
           /\ Len(SubSeq(s, from, Len(s))) = Len(s) + 1 - from
           /\ Agrees(SubSeq(s, from, Len(s)), shown)
<1> DEFINE n == Len(s)
           cut == SubSeq(s, from, Len(s))
           d == from - 1
<1>1. /\ n \in Nat /\ d \in Nat
      /\ cut \in Seq(Event) /\ Len(cut) = n - d
      /\ \A i \in 1 .. n - d : cut[i] = s[i + d]
  OBVIOUS
<1> HIDE DEF cut
<1>2. ASSUME NEW i \in 1 .. n - d
      PROVE  /\ i + d \in 1 .. n /\ cut[i] = s[i + d]
             /\ \A j \in Later(cut, i) : j + d \in Later(s, i + d)
             /\ \A l \in Later(s, i + d) : l - d \in Later(cut, i) /\ l = (l - d) + d
  <2>1. i + d \in 1 .. n /\ cut[i] = s[i + d]
    BY <1>1
  <2>2. \A j \in Later(cut, i) : j + d \in Later(s, i + d)
    BY <1>1, <2>1, SMTT(40) DEF Later
  <2>3. ASSUME NEW l \in Later(s, i + d)
        PROVE  l - d \in Later(cut, i) /\ l = (l - d) + d
    <3>1. l \in 1 .. n /\ l > i + d /\ s[l].key = s[i + d].key
      BY <1>1 DEF Later
    <3> DEFINE h == l - d
    <3>2. h \in 1 .. n - d /\ h > i /\ l = h + d
      BY <1>1, <3>1
    <3>3. cut[h] = s[l]
      BY <1>1, <3>2
    <3> QED  BY <1>1, <2>1, <3>1, <3>2, <3>3 DEF Later
  <2> QED  BY <2>1, <2>2, <2>3
<1> HIDE DEF n, d
<1>3. Agrees(cut, shown)
  <2> SUFFICES ASSUME NEW i \in 1 .. n - d
      PROVE  /\ Later(cut, i) = {} => (cut[i].kind = "fire" <=> cut[i].key \in shown)
             /\ Later(cut, i) # {} =>
                   \E j \in Later(cut, i) :
                      /\ \A l \in Later(cut, i) : j <= l
                      /\ cut[i].kind = "recovery" => cut[j].kind = "fire"
    BY <1>1, Zenon DEF Agrees
  <2>1. /\ i + d \in 1 .. n /\ cut[i] = s[i + d]
        /\ \A j \in Later(cut, i) : j + d \in Later(s, i + d)
        /\ \A l \in Later(s, i + d) : l - d \in Later(cut, i) /\ l = (l - d) + d
    BY <1>2
  <2>2. CASE Later(cut, i) = {}
    <3>1. Later(s, i + d) = {}
      BY <2>1, <2>2
    <3> QED  BY <2>1, <2>2, <3>1 DEF Agrees, n
  <2>3. CASE Later(cut, i) # {}
    <3>1. PICK j \in Later(s, i + d) :
              /\ \A l \in Later(s, i + d) : j <= l
              /\ s[i + d].kind = "recovery" => s[j].kind = "fire"
      BY <2>1, <2>3 DEF Agrees, n
    <3> DEFINE h == j - d
    <3>2. h \in Later(cut, i) /\ j = h + d
      BY <2>1
    <3>3. \A l \in Later(cut, i) : l \in 1 .. n - d
      BY <1>1 DEF Later
    <3>4. cut[h] = s[j]
      BY <1>1, <3>2, <3>3
    <3> HIDE DEF h
    <3>5. \A l \in Later(cut, i) : h <= l
      <4> TAKE l \in Later(cut, i)
      <4>1. j <= l + d
        BY <2>1, <3>1
      <4>2. l \in Int /\ h \in Int
        BY <1>1, <3>2, <3>3
      <4> QED  BY <1>1, <3>2, <4>1, <4>2
    <3> QED  BY <2>1, <3>1, <3>2, <3>4, <3>5
  <2> QED  BY <2>2, <2>3
<1> QED  BY <1>1, <1>3 DEF cut, n, d

-----------------------------------------------------------------------------
(* The inductive invariant.                                                *)

\* The view is what the evaluator holds, and the log agrees with it.
ViewInv == view = firing /\ Agrees(recent, view)

\* The current high run is no longer than the time without a low reading.
RunInv == highFor # None => highFor <= lowFor

\* What a counter shows above the baseline has been moved since the first
\* sample, up to the cap.
Covered(now, base, seen) == seen = Cap \/ now <= base + seen

EarnedInv ==
    \A c \in Client \cap DOMAIN wgPeers : baseline[c] # None =>
        /\ Covered(wgPeers[c].rx, baseline[c].rx, moved[c].rx)
        /\ Covered(wgPeers[c].tx, baseline[c].tx, moved[c].tx)

PollerInv == TypeOK /\ ViewInv /\ RunInv /\ EarnedInv /\ TransferAlertEarned

LEMMA InitOK == EvaluatorAssumption /\ PollerAssumption /\ Init => PollerInv
<1> SUFFICES ASSUME EvaluatorAssumption, PollerAssumption, Init PROVE PollerInv
  OBVIOUS
<1>1. Zero \in Counters /\ Zero \in [rx : 0 .. Cap, tx : 0 .. Cap]
  BY DEF Zero, Counters, EvaluatorAssumption
<1>2. TypeOK
  <2>1. EvaluatorTypeOK
    BY DEF EvaluatorTypeOK, Init, EvaluatorInit, EvaluatorAssumption
  <2>2. outbox \in Seq(Event) /\ recent \in Seq(Event) /\ Len(recent) <= RingCap
    BY DEF Init, PollerAssumption
  <2>3. /\ active \in BOOLEAN /\ cpuHigh \in BOOLEAN /\ diskFull \in BOOLEAN
        /\ view \subseteq Keys
    BY DEF Init
  <2>4. /\ DOMAIN wgPeers \subseteq Client
        /\ \A q \in DOMAIN wgPeers : wgPeers[q] \in Counters
        /\ moved \in [Client -> [rx : 0 .. Cap, tx : 0 .. Cap]]
    BY <1>1 DEF Init
  <2>5. lowFor \in 0 .. Sustain
    BY DEF Init, EvaluatorAssumption
  <2> QED  BY <2>1, <2>2, <2>3, <2>4, <2>5 DEF TypeOK
<1>3. ViewInv
  BY DEF ViewInv, Agrees, Init, EvaluatorInit
<1>4. RunInv /\ EarnedInv /\ TransferAlertEarned
  BY DEF RunInv, EarnedInv, TransferAlertEarned, Init, EvaluatorInit
<1> QED  BY <1>2, <1>3, <1>4 DEF PollerInv

\* A tick whose systemd read failed.
LEMMA SkipOK ==
    ASSUME EvaluatorAssumption, PollerAssumption, PollerInv,
           NEW failed, NEW elapsed \in Nat, Tick(failed, elapsed),
           "systemd" \in failed
    PROVE  PollerInv'
<1>0. /\ TypeOK /\ ViewInv /\ RunInv /\ EarnedInv /\ TransferAlertEarned
      /\ Sustain \in Nat /\ Cooldown \in Nat
  BY DEF PollerInv, EvaluatorAssumption
<1>1. /\ lowFor' = Older(lowFor, elapsed, Sustain)
      /\ Skip(elapsed) /\ outbox' = << >>
      /\ UNCHANGED <<view, recent, world, moved>>
  BY DEF Tick
<1>2. TypeOK'
  <2>1. \A k \in Keys : quiet[k] \in 0 .. Cooldown
    BY <1>0 DEF TypeOK, EvaluatorTypeOK
  <2>2. ASSUME NEW k \in Keys PROVE Older(quiet[k], elapsed, Cooldown) \in 0 .. Cooldown
    <3>1. quiet[k] \in Nat /\ Cooldown \in Nat
      BY <1>0, <2>1
    <3> QED  BY <3>1, OlderBounds
  <2>3. quiet' \in [Keys -> 0 .. Cooldown]
    BY <1>0, <1>1, <2>2 DEF Skip
  <2>4. highFor' \in 0 .. Sustain \cup {None}
    BY <1>0, <1>1 DEF Skip, Older, TypeOK, EvaluatorTypeOK
  <2>5. lowFor' \in 0 .. Sustain
    BY <1>0, <1>1 DEF Older, TypeOK
  <2> QED  BY <1>0, <1>1, <2>3, <2>4, <2>5, SMTT(40) DEF TypeOK, EvaluatorTypeOK, Skip, world
<1>3. ViewInv'
  BY <1>0, <1>1 DEF ViewInv, Skip
<1>4. RunInv'
  BY <1>0, <1>1 DEF RunInv, Skip, Older, TypeOK, EvaluatorTypeOK
<1>5. EarnedInv' /\ TransferAlertEarned'
  BY <1>0, <1>1 DEF EarnedInv, TransferAlertEarned, Skip, world, Covered
<1> QED  BY <1>2, <1>3, <1>4, <1>5 DEF PollerInv

\* A tick that evaluates: what its steps compute.
LEMMA EvaluateIs ==
    ASSUME NEW failed, NEW elapsed, Tick(failed, elapsed), "systemd" \notin failed
    PROVE  /\ Evaluate(InputOf(failed), elapsed)
           /\ outbox' = Events(Fires(InputOf(failed), elapsed),
                               Recovers(InputOf(failed), elapsed))
           /\ view' = firing'
           /\ recent' = Logged(outbox')
           /\ lowFor' = IF InputOf(failed).cpuHigh
                        THEN Older(lowFor, elapsed, Sustain) ELSE 0
           /\ InputOf(failed).peers = Samples(failed)
           /\ UNCHANGED <<world, moved>>
  BY DEF Tick, InputOf

LEMMA EvaluateOK ==
    ASSUME EvaluatorAssumption, PollerAssumption, PollerInv,
           NEW failed, NEW elapsed \in Nat, Tick(failed, elapsed),
           "systemd" \notin failed
    PROVE  PollerInv'
<1> DEFINE in == InputOf(failed)
           fires == Fires(in, elapsed)
           recovers == Recovers(in, elapsed)
<1>0. /\ TypeOK /\ ViewInv /\ RunInv /\ EarnedInv /\ TransferAlertEarned
      /\ Sustain \in Nat /\ Cooldown \in Nat /\ Cap \in Nat \ {0} /\ RingCap \in Nat
  BY DEF PollerInv, EvaluatorAssumption, PollerAssumption
<1>1. /\ Evaluate(in, elapsed)
      /\ outbox' = Events(fires, recovers)
      /\ view' = firing'
      /\ recent' = Logged(outbox')
      /\ lowFor' = IF in.cpuHigh THEN Older(lowFor, elapsed, Sustain) ELSE 0
      /\ in.peers = Samples(failed)
      /\ UNCHANGED <<world, moved>>
  BY EvaluateIs
<1> HIDE DEF in
<1>2. /\ DOMAIN in.peers \subseteq Client
      /\ \A c \in DOMAIN in.peers :
            /\ c \in DOMAIN wgPeers /\ in.peers[c] = wgPeers[c]
            /\ in.peers[c] \in Counters
  BY <1>0, <1>1, ReadOK
<1>3. /\ Observed(in) \subseteq Keys /\ Bad(in, elapsed) \subseteq Observed(in)
      /\ fires \subseteq Bad(in, elapsed)
      /\ recovers \subseteq firing \ Bad(in, elapsed)
      /\ recovers \subseteq Observed(in)
  BY <1>2, KeysOK
<1>4. firing' = (firing \ Observed(in)) \cup Bad(in, elapsed)
  BY <1>1 DEF Evaluate
<1>5. /\ firing \subseteq Keys /\ firing' \subseteq Keys
      /\ fires \in SUBSET Keys /\ recovers \in SUBSET Keys
  BY <1>0, <1>3, <1>4 DEF TypeOK, EvaluatorTypeOK
<1>6. EventsFor(outbox', fires, recovers)
  BY <1>1, <1>5, EventsOK
<1>7. /\ recent' \in Seq(Event) /\ Len(recent') <= RingCap
      /\ Agrees(recent', view')
  <2> DEFINE all == recent \o outbox'
             from == IF Len(all) > RingCap THEN Len(all) - RingCap + 1 ELSE 1
  <2>1. \A k \in Keys \ (fires \cup recovers) : k \in firing <=> k \in firing'
    BY <1>3, <1>4 DEF Fires, Recovers
  <2>2. fires \subseteq firing' /\ recovers \subseteq firing \ firing'
    BY <1>3, <1>4
  <2>3. Agrees(recent, firing) /\ recent \in Seq(Event)
    BY <1>0 DEF ViewInv, TypeOK
  <2> HIDE DEF fires, recovers
  <2>4. all \in Seq(Event) /\ Agrees(all, firing')
    BY <1>6, <2>1, <2>2, <2>3, LogGrows
  <2>5. recent' = SubSeq(all, from, Len(all))
    BY <1>1 DEF Logged
  <2> HIDE DEF all
  <2>6. from \in 1 .. Len(all) + 1 /\ Len(all) + 1 - from <= RingCap
    BY <1>0, <2>4
  <2> HIDE DEF from
  <2>7. /\ SubSeq(all, from, Len(all)) \in Seq(Event)
        /\ Len(SubSeq(all, from, Len(all))) = Len(all) + 1 - from
        /\ Agrees(SubSeq(all, from, Len(all)), firing')
    BY <2>4, <2>6, LogTrimmed
  <2> QED  BY <1>1, <2>5, <2>6, <2>7
<1>8. /\ highFor' = HighRun(in, elapsed)
      /\ highFor' \in 0 .. Sustain \cup {None}
      /\ lowFor' \in 0 .. Sustain
  BY <1>0, <1>1, HighRunOK, SMTT(40) DEF Evaluate, Older, TypeOK
<1>9. RunInv'
  BY <1>0, <1>1, <1>8, SMTT(40) DEF RunInv, HighRun, Older, TypeOK, EvaluatorTypeOK
<1>10. ASSUME NEW c \in Client
       PROVE  baseline'[c] = IF c \in DOMAIN in.peers THEN Rebase(in, c) ELSE baseline[c]
  BY <1>1 DEF Evaluate
<1>11. TypeOK'
  <2>0. \A k \in Keys : quiet[k] \in 0 .. Cooldown
    BY <1>0 DEF TypeOK, EvaluatorTypeOK
  <2>1. ASSUME NEW k \in Keys PROVE Older(quiet[k], elapsed, Cooldown) \in 0 .. Cooldown
    <3>1. quiet[k] \in Nat /\ Cooldown \in Nat
      BY <1>0, <2>0
    <3> QED  BY <3>1, OlderBounds
  <2>2. quiet' \in [Keys -> 0 .. Cooldown]
    BY <1>0, <1>1, <2>1 DEF Evaluate
  <2>3. \A c \in DOMAIN in.peers : Rebase(in, c) \in Counters
    BY <1>0, <1>2, RebaseOK
  <2>4. baseline' \in [Client -> Counters \cup {None}]
    BY <1>0, <1>1, <2>3 DEF Evaluate, TypeOK, EvaluatorTypeOK
  <2>5. outbox' \in Seq(Event)
    BY <1>6 DEF EventsFor
  <2>6. /\ active' \in BOOLEAN /\ cpuHigh' \in BOOLEAN /\ diskFull' \in BOOLEAN
        /\ DOMAIN wgPeers' \subseteq Client
        /\ \A q \in DOMAIN wgPeers' : wgPeers'[q] \in Counters
        /\ moved' \in [Client -> [rx : 0 .. Cap, tx : 0 .. Cap]]
    BY <1>0, <1>1 DEF TypeOK, world
  <2>7. view' \subseteq Keys
    BY <1>1, <1>5
  <2> QED  BY <1>5, <1>7, <1>8, <2>2, <2>4, <2>5, <2>6, <2>7 DEF TypeOK, EvaluatorTypeOK
<1>12. ASSUME NEW c \in DOMAIN in.peers
       PROVE  \/ Rebase(in, c) = wgPeers[c]
              \/ /\ Rebase(in, c) = baseline[c] /\ baseline[c] # None
                 /\ Covered(wgPeers[c].rx, baseline[c].rx, moved[c].rx)
                 /\ Covered(wgPeers[c].tx, baseline[c].tx, moved[c].tx)
  BY <1>0, <1>2 DEF Rebase, EarnedInv
<1>13. ASSUME NEW c \in Client
       PROVE  moved[c].rx \in 0 .. Cap /\ moved[c].tx \in 0 .. Cap
  BY <1>0 DEF TypeOK
<1>14. EarnedInv'
  <2> SUFFICES ASSUME NEW c \in Client \cap DOMAIN wgPeers, baseline'[c] # None
      PROVE  /\ Covered(wgPeers[c].rx, baseline'[c].rx, moved[c].rx)
             /\ Covered(wgPeers[c].tx, baseline'[c].tx, moved[c].tx)
    BY <1>1 DEF EarnedInv, world, Covered
  <2>0. wgPeers[c] \in Counters
    BY <1>0 DEF TypeOK
  <2>1. CASE c \in DOMAIN in.peers /\ Rebase(in, c) = wgPeers[c]
    <3>1. baseline'[c] = wgPeers[c]
      BY <1>10, <2>1
    <3>2. wgPeers[c].rx \in Nat /\ wgPeers[c].tx \in Nat
      BY <1>0, <2>0 DEF Counters, EvaluatorAssumption
    <3> QED  BY <1>0, <1>13, <3>1, <3>2, SMTT(40) DEF Covered
  <2>2. CASE c \in DOMAIN in.peers /\ Rebase(in, c) # wgPeers[c]
    BY <1>10, <1>12, <2>2
  <2>3. CASE c \notin DOMAIN in.peers
    BY <1>0, <1>10, <2>3 DEF EarnedInv
  <2> QED  BY <2>1, <2>2, <2>3
<1>15. TransferAlertEarned'
  <2> SUFFICES ASSUME NEW c \in firing' \cap Client
      PROVE  moved[c].rx = Cap \/ moved[c].tx = Cap
    BY <1>1 DEF TransferAlertEarned
  <2>1. CASE c \in firing
    BY <1>0, <2>1 DEF TransferAlertEarned
  <2>2. CASE c \notin firing
    <3>1. c \in Bad(in, elapsed) /\ c \notin Host
      BY <1>4, <2>2 DEF EvaluatorAssumption
    <3>2. c \in DOMAIN in.peers /\ OverCap(in, c)
      BY <3>1 DEF Bad, Observed
    <3>3. /\ in.peers[c] = wgPeers[c] /\ wgPeers[c] \in Counters
          /\ wgPeers[c].rx \in Nat /\ wgPeers[c].tx \in Nat
      BY <1>2, <3>2 DEF Counters, EvaluatorAssumption
    <3>4. Rebase(in, c) # wgPeers[c]
      BY <1>0, <3>2, <3>3 DEF OverCap
    <3>5. /\ Rebase(in, c) = baseline[c] /\ baseline[c] \in Counters
          /\ Covered(wgPeers[c].rx, baseline[c].rx, moved[c].rx)
          /\ Covered(wgPeers[c].tx, baseline[c].tx, moved[c].tx)
      BY <1>0, <1>12, <3>2, <3>4 DEF TypeOK, EvaluatorTypeOK
    <3>6. baseline[c].rx \in Nat /\ baseline[c].tx \in Nat
      BY <3>5 DEF Counters, EvaluatorAssumption
    <3>7. \/ wgPeers[c].rx - baseline[c].rx >= Cap
          \/ wgPeers[c].tx - baseline[c].tx >= Cap
      BY <3>2, <3>3, <3>5 DEF OverCap
    <3>8. moved[c].rx \in 0 .. Cap /\ moved[c].tx \in 0 .. Cap
      BY <1>13
    <3>9. /\ wgPeers[c].rx - baseline[c].rx >= Cap => moved[c].rx = Cap
          /\ wgPeers[c].tx - baseline[c].tx >= Cap => moved[c].tx = Cap
      <4>1. ASSUME NEW now \in Nat, NEW base \in Nat, NEW seen \in 0 .. Cap,
                   Covered(now, base, seen), now - base >= Cap
            PROVE  seen = Cap
        BY <1>0, <4>1 DEF Covered
      <4> QED  BY <3>3, <3>5, <3>6, <3>8, <4>1, ZenonT(60)
    <3> QED  BY <3>7, <3>9
  <2> QED  BY <2>1, <2>2
<1>16. ViewInv'
  BY <1>1, <1>7 DEF ViewInv
<1> QED  BY <1>9, <1>11, <1>14, <1>15, <1>16 DEF PollerInv

LEMMA RestartOK ==
    ASSUME EvaluatorAssumption, PollerAssumption, PollerInv, Restart
    PROVE  PollerInv'
<1>1. Zero \in [rx : 0 .. Cap, tx : 0 .. Cap]
  BY DEF Zero, EvaluatorAssumption
<1>2. TypeOK /\ Sustain \in Nat /\ Cooldown \in Nat /\ RingCap \in Nat
  BY DEF PollerInv, EvaluatorAssumption, PollerAssumption
<1>3. TypeOK'
  <2>1. EvaluatorTypeOK'
    BY <1>2 DEF EvaluatorTypeOK, Restart
  <2>2. /\ outbox' \in Seq(Event) /\ recent' \in Seq(Event) /\ Len(recent') <= RingCap
        /\ view' \subseteq Keys
    BY <1>2 DEF Restart
  <2>3. /\ active' \in BOOLEAN /\ cpuHigh' \in BOOLEAN /\ diskFull' \in BOOLEAN
        /\ DOMAIN wgPeers' \subseteq Client
        /\ \A q \in DOMAIN wgPeers' : wgPeers'[q] \in Counters
    BY <1>2 DEF Restart, TypeOK, world
  <2>4. lowFor' \in 0 .. Sustain /\ moved' \in [Client -> [rx : 0 .. Cap, tx : 0 .. Cap]]
    BY <1>1, <1>2 DEF Restart
  <2> QED  BY <2>1, <2>2, <2>3, <2>4 DEF TypeOK
<1>4. ViewInv' /\ RunInv' /\ EarnedInv' /\ TransferAlertEarned'
  BY DEF Restart, ViewInv, Agrees, RunInv, EarnedInv, TransferAlertEarned
<1> QED  BY <1>3, <1>4 DEF PollerInv

\* The environment's steps touch the host's state and the bytes moved alone.
LEMMA WorldOK ==
    ASSUME EvaluatorAssumption, PollerInv, World, UNCHANGED process
    PROVE  PollerInv'
<1>0. /\ TypeOK /\ ViewInv /\ RunInv /\ EarnedInv /\ TransferAlertEarned
      /\ Cap \in Nat \ {0} /\ MaxBytes \in Nat
  BY DEF PollerInv, EvaluatorAssumption
<1>1. UNCHANGED <<firing, quiet, highFor, baseline, outbox, view, recent, lowFor>>
  BY DEF process, evaluator
<1>2. Zero \in Counters /\ Zero.rx = 0 /\ Zero.tx = 0
  BY DEF Zero, Counters, EvaluatorAssumption
<1>3. ASSUME NEW c \in Client
      PROVE  /\ moved[c] \in [rx : 0 .. Cap, tx : 0 .. Cap]
             /\ moved[c].rx \in 0 .. Cap /\ moved[c].tx \in 0 .. Cap
  BY <1>0 DEF TypeOK
<1>4. ASSUME NEW x \in Counters PROVE x.rx \in Nat /\ x.tx \in Nat
  BY <1>0 DEF Counters
<1>5. ASSUME NEW c \in Client, baseline[c] # None
      PROVE  baseline[c].rx \in Nat /\ baseline[c].tx \in Nat
  <2>1. baseline[c] \in Counters
    BY <1>0, <1>5 DEF TypeOK, EvaluatorTypeOK
  <2> QED  BY <1>4, <2>1
<1>6. ASSUME NEW base \in Nat, NEW seen \in 0 .. Cap
      PROVE  Covered(0, base, seen)
  BY <1>0 DEF Covered
<1>7. /\ active' \in BOOLEAN /\ cpuHigh' \in BOOLEAN /\ diskFull' \in BOOLEAN
      /\ DOMAIN wgPeers' \subseteq Client
      /\ \A q \in DOMAIN wgPeers' : wgPeers'[q] \in Counters
      /\ moved' \in [Client -> [rx : 0 .. Cap, tx : 0 .. Cap]]
      /\ EarnedInv' /\ TransferAlertEarned'
  <2>0. /\ active \in BOOLEAN /\ cpuHigh \in BOOLEAN /\ diskFull \in BOOLEAN
        /\ DOMAIN wgPeers \subseteq Client
        /\ \A q \in DOMAIN wgPeers : wgPeers[q] \in Counters
        /\ moved \in [Client -> [rx : 0 .. Cap, tx : 0 .. Cap]]
    BY <1>0 DEF TypeOK
  <2>1. CASE HostChanges
    <3>1. UNCHANGED <<wgPeers, moved>>
      BY <2>1 DEF HostChanges
    <3>2. active' \in BOOLEAN /\ cpuHigh' \in BOOLEAN /\ diskFull' \in BOOLEAN
      BY <2>0, <2>1 DEF HostChanges
    <3>3. EarnedInv' /\ TransferAlertEarned'
      BY <1>0, <1>1, <3>1 DEF EarnedInv, TransferAlertEarned, Covered
    <3> QED  BY <2>0, <3>1, <3>2, <3>3
  <2>2. CASE CountersReset
    <3>1. /\ wgPeers' = [q \in DOMAIN wgPeers |-> Zero]
          /\ UNCHANGED <<active, cpuHigh, diskFull, moved>>
      BY <2>2 DEF CountersReset
    <3>2. EarnedInv'
      BY <1>1, <1>2, <1>3, <1>5, <1>6, <3>1 DEF EarnedInv
    <3>3. TransferAlertEarned'
      BY <1>0, <1>1, <3>1 DEF TransferAlertEarned
    <3> QED  BY <1>2, <2>0, <3>1, <3>2, <3>3
  <2>3. ASSUME NEW p \in Client, PeerChanges(p)
        PROVE  /\ active' \in BOOLEAN /\ cpuHigh' \in BOOLEAN /\ diskFull' \in BOOLEAN
               /\ DOMAIN wgPeers' \subseteq Client
               /\ \A q \in DOMAIN wgPeers' : wgPeers'[q] \in Counters
               /\ moved' \in [Client -> [rx : 0 .. Cap, tx : 0 .. Cap]]
               /\ EarnedInv' /\ TransferAlertEarned'
    <3>1. UNCHANGED <<active, cpuHigh, diskFull, moved>>
      BY <2>3 DEF PeerChanges
    <3>2. /\ DOMAIN wgPeers' \subseteq Client
          /\ \A q \in DOMAIN wgPeers' :
                \/ wgPeers'[q] = Zero
                \/ q \in DOMAIN wgPeers /\ wgPeers'[q] = wgPeers[q]
      <4>1. CASE p \in DOMAIN wgPeers
        <5>1. wgPeers' = [q \in DOMAIN wgPeers \ {p} |-> wgPeers[q]]
          BY <2>3, <4>1 DEF PeerChanges
        <5> QED  BY <2>0, <5>1
      <4>2. CASE p \notin DOMAIN wgPeers
        <5>1. wgPeers' = [q \in DOMAIN wgPeers \cup {p} |->
                             IF q = p THEN Zero ELSE wgPeers[q]]
          BY <2>3, <4>2 DEF PeerChanges
        <5> QED  BY <2>0, <5>1
      <4> QED  BY <4>1, <4>2
    <3>3. \A q \in DOMAIN wgPeers' : wgPeers'[q] \in Counters
      BY <1>2, <2>0, <3>2
    <3>4. EarnedInv'
      <4> SUFFICES ASSUME NEW c \in Client \cap DOMAIN wgPeers', baseline[c] # None
          PROVE  /\ Covered(wgPeers'[c].rx, baseline[c].rx, moved[c].rx)
                 /\ Covered(wgPeers'[c].tx, baseline[c].tx, moved[c].tx)
        BY <1>1, <3>1 DEF EarnedInv
      <4>1. CASE wgPeers'[c] = Zero
        BY <1>2, <1>3, <1>5, <1>6, <4>1
      <4>2. CASE c \in DOMAIN wgPeers /\ wgPeers'[c] = wgPeers[c]
        BY <1>0, <4>2 DEF EarnedInv
      <4> QED  BY <3>2, <4>1, <4>2
    <3>5. TransferAlertEarned'
      BY <1>0, <1>1, <3>1 DEF TransferAlertEarned
    <3> QED  BY <2>0, <3>1, <3>2, <3>3, <3>4, <3>5
  <2>4. ASSUME NEW p \in Client, Traffic(p)
        PROVE  /\ active' \in BOOLEAN /\ cpuHigh' \in BOOLEAN /\ diskFull' \in BOOLEAN
               /\ DOMAIN wgPeers' \subseteq Client
               /\ \A q \in DOMAIN wgPeers' : wgPeers'[q] \in Counters
               /\ moved' \in [Client -> [rx : 0 .. Cap, tx : 0 .. Cap]]
               /\ EarnedInv' /\ TransferAlertEarned'
    <3>1. PICK n \in Counters :
            /\ n.rx >= wgPeers[p].rx /\ n.tx >= wgPeers[p].tx
            /\ wgPeers' = [wgPeers EXCEPT ![p] = n]
            /\ moved' =
                 IF baseline[p] # None
                 THEN [moved EXCEPT
                         ![p] = [rx |-> Older(@.rx, n.rx - wgPeers[p].rx, Cap),
                                 tx |-> Older(@.tx, n.tx - wgPeers[p].tx, Cap)]]
                 ELSE moved
      BY <2>4, Zenon DEF Traffic
    <3>2. UNCHANGED <<active, cpuHigh, diskFull>> /\ p \in DOMAIN wgPeers
      BY <2>4 DEF Traffic
    <3>3. /\ wgPeers[p].rx \in Nat /\ wgPeers[p].tx \in Nat
          /\ n.rx \in Nat /\ n.tx \in Nat
      BY <1>4, <2>0, <3>2
    <3> DEFINE rx == Older(moved[p].rx, n.rx - wgPeers[p].rx, Cap)
               tx == Older(moved[p].tx, n.tx - wgPeers[p].tx, Cap)
    <3>4. /\ rx \in 0 .. Cap /\ tx \in 0 .. Cap
          /\ rx = Cap \/ rx = moved[p].rx + (n.rx - wgPeers[p].rx)
          /\ tx = Cap \/ tx = moved[p].tx + (n.tx - wgPeers[p].tx)
          /\ moved[p].rx = Cap => rx = Cap
          /\ moved[p].tx = Cap => tx = Cap
      BY <1>0, <1>3, <3>1, <3>3 DEF Older
    <3>5. /\ moved' = [moved EXCEPT ![p] = [rx |-> rx, tx |-> tx]] \/ moved' = moved
          /\ baseline[p] # None => moved' = [moved EXCEPT ![p] = [rx |-> rx, tx |-> tx]]
      BY <3>1
    <3> HIDE DEF rx, tx
    <3>6. moved' \in [Client -> [rx : 0 .. Cap, tx : 0 .. Cap]]
      BY <2>0, <3>4, <3>5
    <3>7. /\ DOMAIN wgPeers' = DOMAIN wgPeers
          /\ wgPeers'[p] = n
          /\ \A q \in DOMAIN wgPeers \ {p} : wgPeers'[q] = wgPeers[q]
      BY <3>1, <3>2
    <3>8. /\ \A q \in Client \ {p} : moved'[q] = moved[q]
          /\ moved'[p] = moved[p] \/ (moved'[p].rx = rx /\ moved'[p].tx = tx)
          /\ baseline[p] # None => moved'[p].rx = rx /\ moved'[p].tx = tx
      <4>1. ASSUME moved' = [moved EXCEPT ![p] = [rx |-> rx, tx |-> tx]]
            PROVE  /\ \A q \in Client \ {p} : moved'[q] = moved[q]
                   /\ moved'[p].rx = rx /\ moved'[p].tx = tx
        <5>1. moved'[p] = [rx |-> rx, tx |-> tx]
          BY <2>0, <4>1
        <5>2. \A q \in Client \ {p} : moved'[q] = moved[q]
          BY <2>0, <4>1
        <5> QED  BY <5>1, <5>2
      <4> QED  BY <3>5, <4>1
    <3>9. \A q \in DOMAIN wgPeers' : wgPeers'[q] \in Counters
      BY <2>0, <3>7
    <3>10. EarnedInv'
      <4> SUFFICES ASSUME NEW c \in Client \cap DOMAIN wgPeers, baseline[c] # None
          PROVE  /\ Covered(wgPeers'[c].rx, baseline[c].rx, moved'[c].rx)
                 /\ Covered(wgPeers'[c].tx, baseline[c].tx, moved'[c].tx)
        BY <1>1, <3>7 DEF EarnedInv
      <4>1. /\ Covered(wgPeers[c].rx, baseline[c].rx, moved[c].rx)
            /\ Covered(wgPeers[c].tx, baseline[c].tx, moved[c].tx)
        BY <1>0 DEF EarnedInv
      <4>2. CASE c # p
        BY <3>7, <3>8, <4>1, <4>2
      <4>3. CASE c = p
        <5>1. ASSUME NEW w \in Nat, NEW b \in Nat, NEW s \in 0 .. Cap,
                     NEW x \in Nat, NEW r, Covered(w, b, s),
                     r = Cap \/ r = s + (x - w), s = Cap => r = Cap
              PROVE  Covered(x, b, r)
          BY <1>0, <5>1 DEF Covered
        <5>2. Covered(n.rx, baseline[p].rx, rx)
          BY <1>3, <1>5, <3>3, <3>4, <4>1, <4>3, <5>1, SMTT(40)
        <5>3. Covered(n.tx, baseline[p].tx, tx)
          BY <1>3, <1>5, <3>3, <3>4, <4>1, <4>3, <5>1, SMTT(40)
        <5> QED  BY <3>7, <3>8, <4>3, <5>2, <5>3
      <4> QED  BY <4>2, <4>3
    <3>11. TransferAlertEarned'
      BY <1>0, <1>1, <3>4, <3>8 DEF TransferAlertEarned
    <3> QED  BY <2>0, <3>2, <3>6, <3>7, <3>9, <3>10, <3>11
  <2> QED  BY <2>1, <2>2, <2>3, <2>4 DEF World
<1>8. TypeOK'
  BY <1>0, <1>1, <1>7 DEF TypeOK, EvaluatorTypeOK
<1>9. ViewInv' /\ RunInv'
  BY <1>0, <1>1 DEF ViewInv, RunInv
<1> QED  BY <1>7, <1>8, <1>9 DEF PollerInv

LEMMA PollerInductive ==
    EvaluatorAssumption /\ PollerAssumption /\ PollerInv /\ [Next]_vars => PollerInv'
<1> SUFFICES ASSUME EvaluatorAssumption, PollerAssumption, PollerInv, [Next]_vars
    PROVE  PollerInv'
  OBVIOUS
<1>1. ASSUME NEW failed \in SUBSET Reads, NEW elapsed \in 1 .. MaxGap,
             Tick(failed, elapsed)
      PROVE  PollerInv'
  <2>1. elapsed \in Nat
    BY DEF PollerAssumption
  <2> QED  BY <1>1, <2>1, SkipOK, EvaluateOK
<1>2. CASE Restart
  BY <1>2, RestartOK
<1>3. CASE World /\ UNCHANGED process
  BY <1>3, WorldOK
<1>4. CASE UNCHANGED vars
  <2>1. UNCHANGED <<firing, quiet, highFor, baseline, outbox, view, recent, lowFor,
                    active, cpuHigh, diskFull, wgPeers, moved>>
    BY <1>4 DEF vars, world, process, evaluator
  <2> QED  BY <2>1 DEF PollerInv, TypeOK, EvaluatorTypeOK, ViewInv, RunInv,
                       EarnedInv, Covered, TransferAlertEarned
<1> QED  BY <1>1, <1>2, <1>3, <1>4 DEF Next, Ticks

LEMMA PollerInvariant == Spec => []PollerInv
  BY InitOK, PollerInductive, EvaluatorAssumption, PollerAssumption, PTL DEF Spec

-----------------------------------------------------------------------------
(* The theorems.                                                           *)

\* Type correctness: the ring never holds more than recentCap entries, and no
\* counter or distance leaves its range.
THEOREM PollerTypes == Spec => []TypeOK
<1>1. PollerInv => TypeOK
  BY DEF PollerInv
<1> QED  BY <1>1, PollerInvariant, PTL

\* StatusHolder shows an alert as active exactly if the newest entry its log
\* still has of the key is a Fire, for any ring size and order of the keys.
THEOREM ViewAndLogAgree == Spec => []LogAgrees
<1>1. PollerInv => LogAgrees
  BY LogAgreesIs DEF PollerInv, ViewInv
<1> QED  BY <1>1, PollerInvariant, PTL

\* transferCapObservation raises no alert for bytes the client did not move,
\* through any resets, removals, missed reads and restarts.
THEOREM TransferAlertsEarned == Spec => []TransferAlertEarned
<1>1. PollerInv => TransferAlertEarned
  BY DEF PollerInv
<1> QED  BY <1>1, PollerInvariant, PTL

\* cpuObservation raises high-cpu only after a full CPUSustain without a low
\* or missing reading.
THEOREM HighCPUSustained == Spec => CPUSustained
<1>1. PollerInv /\ PollerInv' /\ [Next]_vars
        => ["high-cpu" \in firing' \ firing => lowFor' = Sustain]_vars
  <2> SUFFICES ASSUME PollerInv, PollerInv', [Next]_vars,
                      "high-cpu" \in firing' \ firing
      PROVE  lowFor' = Sustain
    OBVIOUS
  <2>1. PICK failed \in SUBSET Reads, elapsed \in 1 .. MaxGap : Tick(failed, elapsed)
    BY DEF Next, Ticks, Restart, vars, process, evaluator
  <2>2. "systemd" \notin failed
    BY <2>1 DEF Tick, Skip
  <2> DEFINE in == InputOf(failed)
  <2>3. Evaluate(in, elapsed)
    BY <2>1, <2>2, EvaluateIs
  <2> HIDE DEF in
  <2>4. "high-cpu" \in Bad(in, elapsed)
    BY <2>3 DEF Evaluate
  <2>5. "high-cpu" \notin Client
    BY EvaluatorAssumption DEF EvaluatorAssumption
  <2>6. HighRun(in, elapsed) = Sustain
    BY <2>4, <2>5 DEF Bad
  <2>7. highFor' = Sustain /\ Sustain \in Nat /\ None # Sustain
    BY <2>3, <2>6, EvaluatorAssumption DEF Evaluate, EvaluatorAssumption
  <2>8. highFor' <= lowFor' /\ lowFor' \in 0 .. Sustain
    BY <2>7 DEF PollerInv, RunInv, TypeOK
  <2> QED  BY <2>7, <2>8
<1> QED  BY <1>1, PollerInvariant, PTL DEF Spec, CPUSustained

-----------------------------------------------------------------------------
(* The loop composed with the dispatch worker.                             *)

\* Handing over, delivering and giving up leave the loop's state alone but for
\* the events still to hand over; the channel never exceeds its buffer.
LEMMA DispatchInductive ==
    ASSUME EvaluatorAssumption, PollerAssumption, DispatchAssumption,
           PollerInv, DeliveryTypeOK, [DispatchNext]_allVars
    PROVE  PollerInv' /\ DeliveryTypeOK'
<1>0. /\ queue \in Seq(Event) /\ Len(queue) <= QueueCap
      /\ inflight \in Event \cup {None}
      /\ told \in [Keys -> {"nothing", "fire", "recovery"}]
      /\ QueueCap \in Nat /\ outbox \in Seq(Event)
  BY DEF DeliveryTypeOK, DispatchAssumption, PollerInv, TypeOK
<1>1. ASSUME UNCHANGED delivery PROVE DeliveryTypeOK'
  BY <1>0, <1>1 DEF DeliveryTypeOK, delivery
<1>2. ASSUME UNCHANGED vars PROVE PollerInv'
  BY <1>2, PollerInductive
<1>3. CASE Sample
  <2>1. Ticks /\ UNCHANGED delivery
    BY <1>3 DEF Sample
  <2>2. [Next]_vars
    BY <2>1 DEF Next
  <2> QED  BY <1>1, <2>1, <2>2, PollerInductive
<1>4. CASE Send
  <2>1. /\ outbox # << >> /\ outbox' = Tail(outbox)
        /\ queue' = IF Len(queue) < QueueCap THEN Append(queue, Head(outbox)) ELSE queue
        /\ UNCHANGED <<firing, quiet, highFor, baseline, view, recent, lowFor, active,
                       cpuHigh, diskFull, wgPeers, moved, inflight, told>>
    BY <1>4 DEF Send, world, evaluator
  <2>2. outbox' \in Seq(Event) /\ Head(outbox) \in Event
    BY <1>0, <2>1
  <2>3. queue' \in Seq(Event) /\ Len(queue') <= QueueCap
    BY <1>0, <2>1, <2>2
  <2>4. TypeOK'
    BY <2>1, <2>2 DEF PollerInv, TypeOK, EvaluatorTypeOK
  <2>5. ViewInv' /\ RunInv' /\ EarnedInv' /\ TransferAlertEarned'
    BY <2>1 DEF PollerInv, ViewInv, RunInv, EarnedInv, Covered, TransferAlertEarned
  <2> QED  BY <1>0, <2>1, <2>3, <2>4, <2>5 DEF PollerInv, DeliveryTypeOK
<1>5. CASE Receive
  <2>1. queue # << >> /\ inflight' = Head(queue) /\ queue' = Tail(queue)
        /\ UNCHANGED vars /\ UNCHANGED told
    BY <1>5 DEF Receive
  <2>2. queue' \in Seq(Event) /\ Len(queue') <= QueueCap /\ inflight' \in Event
    BY <1>0, <2>1
  <2> QED  BY <1>0, <1>2, <2>1, <2>2 DEF DeliveryTypeOK
<1>6. ASSUME NEW k \in Keys, Deliver(k)
      PROVE  PollerInv' /\ DeliveryTypeOK'
  <2>1. /\ inflight \in Event /\ told' = [told EXCEPT ![k] = inflight.kind]
        /\ inflight' = None /\ UNCHANGED vars /\ UNCHANGED queue
    BY <1>0, <1>6 DEF Deliver
  <2>2. inflight.kind \in {"nothing", "fire", "recovery"}
    BY <2>1 DEF Event
  <2> QED  BY <1>0, <1>2, <2>1, <2>2 DEF DeliveryTypeOK
<1>7. CASE GiveUp
  <2>1. inflight' = None /\ UNCHANGED vars /\ UNCHANGED <<queue, told>>
    BY <1>7 DEF GiveUp
  <2> QED  BY <1>0, <1>2, <2>1 DEF DeliveryTypeOK
<1>8. CASE World /\ UNCHANGED <<process, delivery>>
  BY <1>1, <1>8, WorldOK
<1>9. CASE Shutdown
  <2>1. Restart /\ queue' = << >> /\ inflight' = None /\ UNCHANGED told
    BY <1>9 DEF Shutdown
  <2> QED  BY <1>0, <2>1, RestartOK DEF DeliveryTypeOK
<1>10. CASE UNCHANGED allVars
  BY <1>1, <1>2, <1>10 DEF allVars
<1> QED  BY <1>3, <1>4, <1>5, <1>6, <1>7, <1>8, <1>9, <1>10 DEF DispatchNext

\* With the worker running, too, the dispatch channel keeps its bound, the view
\* agrees with its log and a transfer alert is earned: runDispatchLoop and the
\* non-blocking send disturb nothing the loop keeps.
THEOREM DispatchKeepsAlerts ==
    DispatchSpec => [](DeliveryTypeOK /\ TypeOK /\ LogAgrees /\ TransferAlertEarned)
<1>1. DispatchInit => PollerInv /\ DeliveryTypeOK
  <2> SUFFICES ASSUME DispatchInit PROVE PollerInv /\ DeliveryTypeOK
    OBVIOUS
  <2>1. Init
    BY DEF DispatchInit
  <2>2. DeliveryTypeOK
    BY DispatchAssumption DEF DispatchInit, DeliveryTypeOK, DispatchAssumption
  <2> QED  BY <2>1, <2>2, InitOK, EvaluatorAssumption, PollerAssumption
<1>2. PollerInv /\ DeliveryTypeOK /\ [DispatchNext]_allVars => PollerInv' /\ DeliveryTypeOK'
  BY DispatchInductive, EvaluatorAssumption, PollerAssumption, DispatchAssumption
<1>3. PollerInv => TypeOK /\ LogAgrees /\ TransferAlertEarned
  BY LogAgreesIs DEF PollerInv, ViewInv
<1> QED  BY <1>1, <1>2, <1>3, PTL DEF DispatchSpec
=============================================================================
