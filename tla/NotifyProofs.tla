---------------------------- MODULE NotifyProofs ----------------------------
(***************************************************************************)
(* What a Notify that returns has done, for any URLs, any transports       *)
(* configured at boot and any retry budget, while operators re-point the   *)
(* webhook.                                                                *)
(***************************************************************************)
EXTENDS Notify, SequenceTheorems, FiniteSetTheorems, TLAPS

-----------------------------------------------------------------------------
(* The inductive invariant, call by call.                                  *)

\* The transports still to be called.
ToCall(c) == {c.rest[i] : i \in 1 .. Len(c.rest)}

\* The transports a sender has to serve.
Wanted(s) == {"webhook"} \cup (IF s = "dispatch" THEN configured ELSE {})

\* A transport is over: delivered, among the errors, or rightly left out.
Settled(s, c, t) ==
    IF t = "webhook"
    THEN \/ "webhook" \in c.errs
         \/ c.accepted \cap WebhookURL # {}
         \/ c.off /\ (s = "test" => c.changed)
    ELSE t \in c.accepted \cup c.errs

Posting(c) == c.stage \in {"post", "backoff"}

\* Every transport is still to be called, being called, or settled.
NoneForgotten(s, c) ==
    c.stage # "idle" =>
        \A t \in Wanted(s) :
            t \in ToCall(c) \/ (Posting(c) /\ c.child = t) \/ Settled(s, c, t)

\* The webhook comes first, and once: nothing is accepted before it.
WebhookFirst(c) ==
    \A i \in 1 .. Len(c.rest) : c.rest[i] = "webhook" =>
        i = 1 /\ c.child = "none" /\ c.accepted = {}

\* What is being called has its own target, and one webhook at most has heard
\* of the message.
TargetInv(c) ==
    /\ Posting(c) => /\ c.child # "none"
                     /\ IF c.child = "webhook" THEN c.target \in WebhookURL
                        ELSE c.target = c.child
    /\ c.child = "webhook" => c.accepted \cap WebhookURL \subseteq {c.target}
    /\ \E u : c.accepted \cap WebhookURL \subseteq {u}

CallInv(s, c) ==
    /\ c \in Call
    /\ c.stage = "done" => c.rest = << >>
    /\ NoneForgotten(s, c)
    /\ WebhookFirst(c)
    /\ TargetInv(c)

\* A test that has not called the webhook yet saw it enabled, and so it is
\* unless somebody changed the configuration.
TestInv ==
    sends["test"].rest # << >> /\ ~sends["test"].changed => Enabled

NotifyInv ==
    /\ NotifyTypeOK
    /\ \A s \in Sender : CallInv(s, sends[s])
    /\ TestInv

-----------------------------------------------------------------------------
(* Calls.                                                                  *)

LEMMA NoCallInv == ASSUME NEW s PROVE CallInv(s, NoCall)
<1>1. NoCall \in Call
  BY NotifyAssumption DEF NoCall, Call
<1>2. NoneForgotten(s, NoCall) /\ WebhookFirst(NoCall) /\ TargetInv(NoCall)
  BY DEF NoCall, NoneForgotten, WebhookFirst, TargetInv, Posting
<1> QED  BY <1>1, <1>2 DEF CallInv, NoCall

\* Appending a transport that may not be configured.
LEMMA Appended ==
    ASSUME NEW r \in Seq({"webhook"} \cup BootTransport), r # << >>,
           NEW t \in {"slack-bot", "telegram", "discord"},
           configured \in SUBSET BootTransport
    PROVE  LET q == r \o IfConfigured(t)
           IN  /\ q \in Seq({"webhook"} \cup BootTransport)
               /\ q # << >>
               /\ \A i \in 1 .. Len(r) : r[i] \in {q[j] : j \in 1 .. Len(q)}
               /\ t \in configured => t \in {q[j] : j \in 1 .. Len(q)}
               /\ \A i \in 1 .. Len(q) :
                     q[i] = "webhook" => i \in 1 .. Len(r) /\ r[i] = "webhook"
<1> DEFINE q == r \o IfConfigured(t)
<1>1. CASE t \in configured
  <2>1. IfConfigured(t) = <<t>> /\ <<t>> \in Seq({"webhook"} \cup BootTransport)
        /\ Len(<<t>>) = 1 /\ <<t>>[1] = t
    BY <1>1 DEF IfConfigured
  <2>2. /\ q \in Seq({"webhook"} \cup BootTransport)
        /\ Len(q) = Len(r) + 1
        /\ \A i \in 1 .. Len(r) + 1 : q[i] = IF i <= Len(r) THEN r[i] ELSE <<t>>[i - Len(r)]
    BY <2>1, ConcatProperties
  <2>3. Len(r) \in Nat
    BY LenProperties
  <2>4. q[Len(r) + 1] = t /\ \A i \in 1 .. Len(r) : q[i] = r[i]
    BY <2>1, <2>2, <2>3
  <2>5. q # << >>
    BY <2>2, <2>3, EmptySeq
  <2> HIDE DEF q
  <2> QED  BY <2>2, <2>3, <2>4, <2>5 DEF q
<1>2. CASE t \notin configured
  <2>1. IfConfigured(t) = << >>
    BY <1>2 DEF IfConfigured
  <2>2. q = r
    BY <2>1, ConcatEmptySeq
  <2> QED  BY <1>2, <2>2
<1> QED  BY <1>1, <1>2

\* A call begins with every transport it wants, the webhook first and once.
LEMMA ChildrenWanted ==
    ASSUME configured \in SUBSET BootTransport, NEW s \in Sender
    PROVE  LET q == Children(s)
           IN  /\ q \in Seq({"webhook"} \cup BootTransport)
               /\ q # << >>
               /\ \A t \in Wanted(s) : t \in {q[j] : j \in 1 .. Len(q)}
               /\ \A i \in 1 .. Len(q) : q[i] = "webhook" => i = 1
<1> DEFINE W == {"webhook"} \cup BootTransport
           q1 == <<"webhook">>
           q2 == q1 \o IfConfigured("slack-bot")
           q3 == q2 \o IfConfigured("telegram")
           q4 == q3 \o IfConfigured("discord")
           Els(q) == {q[j] : j \in 1 .. Len(q)}
<1>1. q1 \in Seq(W) /\ q1 # << >> /\ Len(q1) = 1 /\ q1[1] = "webhook"
  OBVIOUS
<1>2. CASE s = "test"
  <2>1. Children(s) = q1 /\ Wanted(s) = {"webhook"}
    BY <1>2 DEF Children, Wanted
  <2> QED  BY <1>1, <2>1
<1>3. CASE s = "dispatch"
  <2> HIDE DEF q1
  <2>1. /\ q2 \in Seq(W) /\ q2 # << >>
        /\ \A i \in 1 .. Len(q1) : q1[i] \in Els(q2)
        /\ "slack-bot" \in configured => "slack-bot" \in Els(q2)
        /\ \A i \in 1 .. Len(q2) : q2[i] = "webhook" => i \in 1 .. Len(q1) /\ q1[i] = "webhook"
    BY <1>1, Appended
  <2> HIDE DEF q2
  <2>2. /\ q3 \in Seq(W) /\ q3 # << >>
        /\ \A i \in 1 .. Len(q2) : q2[i] \in Els(q3)
        /\ "telegram" \in configured => "telegram" \in Els(q3)
        /\ \A i \in 1 .. Len(q3) : q3[i] = "webhook" => i \in 1 .. Len(q2) /\ q2[i] = "webhook"
    BY <2>1, Appended
  <2> HIDE DEF q3
  <2>3. /\ q4 \in Seq(W) /\ q4 # << >>
        /\ \A i \in 1 .. Len(q3) : q3[i] \in Els(q4)
        /\ "discord" \in configured => "discord" \in Els(q4)
        /\ \A i \in 1 .. Len(q4) : q4[i] = "webhook" => i \in 1 .. Len(q3) /\ q3[i] = "webhook"
    BY <2>2, Appended
  <2> HIDE DEF q4
  <2>4. Children(s) = q4
    BY <1>3 DEF Children, q1, q2, q3, q4
  <2>5. Els(q1) \subseteq Els(q2) /\ Els(q2) \subseteq Els(q3) /\ Els(q3) \subseteq Els(q4)
    BY <2>1, <2>2, <2>3
  <2>6. "webhook" \in Els(q1)
    BY <1>1
  <2>7. \A t \in Wanted(s) : t \in Els(q4)
    BY <1>3, <2>1, <2>2, <2>3, <2>5, <2>6, NotifyAssumption, ZenonT(60) DEF Wanted
  <2>8. \A i \in 1 .. Len(q4) : q4[i] = "webhook" => i = 1
    BY <1>1, <2>1, <2>2, <2>3
  <2> QED  BY <2>3, <2>4, <2>7, <2>8
<1> QED  BY <1>2, <1>3 DEF Sender

LEMMA BegunInv ==
    ASSUME configured \in SUBSET BootTransport, NEW s \in Sender
    PROVE  CallInv(s, [NoCall EXCEPT !.stage = "next", !.rest = Children(s)])
<1> DEFINE c == [NoCall EXCEPT !.stage = "next", !.rest = Children(s)]
<1>1. /\ c.stage = "next" /\ c.rest = Children(s) /\ c.child = "none"
      /\ c.accepted = {}
  BY DEF NoCall
<1>2. c \in Call
  <2>1. Children(s) \in Seq({"webhook"} \cup BootTransport)
    BY ChildrenWanted
  <2>2. NoCall \in Call
    BY NoCallInv DEF CallInv
  <2> QED  BY <2>1, <2>2 DEF Call
<1> HIDE DEF c
<1>3. NoneForgotten(s, c)
  BY <1>1, ChildrenWanted DEF NoneForgotten, ToCall
<1>4. WebhookFirst(c)
  BY <1>1, ChildrenWanted DEF WebhookFirst
<1>5. TargetInv(c)
  BY <1>1 DEF TargetInv, Posting
<1>6. CallInv(s, c)
  BY <1>1, <1>2, <1>3, <1>4, <1>5 DEF CallInv
<1> QED  BY <1>6 DEF c

\* The composite calls its next transport: the webhook at the URL in force.
LEMMA CalledInv ==
    ASSUME NotifyTypeOK, TestInv, NEW s \in Sender, NEW c, c = sends[s],
           CallInv(s, c), c.stage = "next", c.rest # << >>,
           NEW k, k = Head(c.rest),
           NEW t, t = (IF k = "webhook" THEN Current ELSE k),
           NEW d, d = [c EXCEPT !.rest = Tail(@), !.child = k, !.target = t,
                                !.attempt = 1, !.off = @ \/ t = NoURL,
                                !.stage = IF t = NoURL THEN "next" ELSE "post"]
    PROVE  CallInv(s, d)
<1> DEFINE W == {"webhook"} \cup BootTransport
<1>1. c \in Call /\ c.rest \in Seq(W)
  BY DEF CallInv, Call
<1>2. /\ Tail(c.rest) \in Seq(W) /\ k \in W /\ k = c.rest[1]
      /\ Len(c.rest) \in Nat \ {0} /\ Len(Tail(c.rest)) = Len(c.rest) - 1
      /\ \A i \in 1 .. Len(c.rest) - 1 : Tail(c.rest)[i] = c.rest[i + 1]
  BY <1>1, HeadTailProperties, LenProperties, EmptySeq
<1>3. t \in WebhookURL \cup BootTransport \cup {NoURL}
  BY <1>2 DEF NotifyTypeOK, Current, WebhookURL
<1>4. d \in Call
  <2>1. 1 \in 0 .. MaxAttempts + 1
    BY NotifyAssumption
  <2>2. [c EXCEPT !.rest = Tail(@), !.child = k, !.target = t] \in Call
    BY <1>1, <1>2, <1>3, ZenonT(60) DEF Call
  <2>3. \A e \in Call, g \in {"next", "post"} :
           [e EXCEPT !.attempt = 1, !.off = @ \/ t = NoURL, !.stage = g] \in Call
    BY <2>1, ZenonT(60) DEF Call
  <2>4. d = [[c EXCEPT !.rest = Tail(@), !.child = k, !.target = t] EXCEPT
                !.attempt = 1, !.off = @ \/ t = NoURL,
                !.stage = IF t = NoURL THEN "next" ELSE "post"]
    BY <1>1 DEF Call
  <2>5. (IF t = NoURL THEN "next" ELSE "post") \in {"next", "post"}
    OBVIOUS
  <2> QED  BY ONLY <2>2, <2>3, <2>4, <2>5
<1>5. /\ d.rest = Tail(c.rest) /\ d.child = k /\ d.target = t
      /\ d.off = (c.off \/ t = NoURL) /\ d.errs = c.errs
      /\ d.accepted = c.accepted /\ d.changed = c.changed
      /\ d.stage = IF t = NoURL THEN "next" ELSE "post"
  BY <1>1 DEF Call
<1>6. k # "none" /\ (k # "webhook" => k \in BootTransport /\ k \notin WebhookURL /\ k # NoURL)
  BY <1>2, NotifyAssumption DEF WebhookURL
<1>7. ToCall(c) \subseteq {k} \cup ToCall(d)
  <2> SUFFICES ASSUME NEW i \in 1 .. Len(c.rest), i # 1
               PROVE  c.rest[i] \in ToCall(d)
    BY <1>2 DEF ToCall
  <2>1. i - 1 \in 1 .. Len(d.rest) /\ d.rest[i - 1] = c.rest[i]
    BY <1>2, <1>5, SMTT(40)
  <2> QED  BY <2>1 DEF ToCall
<1>8. t = NoURL => k = "webhook" /\ ~Enabled
  BY <1>6 DEF Enabled
<1>9. t = NoURL => (s = "test" => c.changed)
  BY <1>8 DEF TestInv
<1>10. NoneForgotten(s, d)
  <2> SUFFICES ASSUME NEW u \in Wanted(s)
               PROVE  u \in ToCall(d) \/ (Posting(d) /\ d.child = u) \/ Settled(s, d, u)
    BY DEF NoneForgotten
  <2>1. u \in ToCall(c) \/ Settled(s, c, u)
    BY DEF CallInv, NoneForgotten, Posting
  <2>2. CASE Settled(s, c, u)
    BY <1>5, <2>2, <1>1 DEF Settled, Call
  <2>3. CASE u = k /\ t # NoURL
    BY <1>5, <2>3 DEF Posting
  <2>4. CASE u = k /\ t = NoURL
    BY <1>5, <1>8, <1>9, <2>4 DEF Settled
  <2>5. CASE u \in ToCall(d)
    BY <2>5
  <2> QED  BY <1>7, <2>1, <2>2, <2>3, <2>4, <2>5
<1>11. WebhookFirst(d)
  <2> SUFFICES ASSUME NEW i \in 1 .. Len(d.rest), d.rest[i] = "webhook"
               PROVE  FALSE
    BY DEF WebhookFirst
  <2>1. i + 1 \in 1 .. Len(c.rest) /\ c.rest[i + 1] = "webhook" /\ i + 1 # 1
    BY <1>2, <1>5
  <2> QED  BY <2>1 DEF CallInv, WebhookFirst
<1>12. TargetInv(d)
  <2>1. k = "webhook" => c.accepted = {}
    BY <1>2 DEF CallInv, WebhookFirst
  <2>2. k = "webhook" /\ t # NoURL => t \in WebhookURL
    BY <1>3, <1>6 DEF NotifyTypeOK, Current, WebhookURL
  <2>3. Posting(d) => t # NoURL
    BY <1>5 DEF Posting
  <2> QED  BY <1>5, <1>6, <2>1, <2>2, <2>3 DEF CallInv, TargetInv
<1>13. d.stage # "done"
  BY <1>5
<1> QED  BY <1>4, <1>10, <1>11, <1>12, <1>13 DEF CallInv

\* With none left it returns.
LEMMA ReturnInv ==
    ASSUME NEW s, NEW c, CallInv(s, c), c.stage = "next", c.rest = << >>,
           NEW d, d = [c EXCEPT !.stage = "done", !.child = "none",
                                !.target = NoURL, !.attempt = 0]
    PROVE  CallInv(s, d)
<1>1. c \in Call
  BY DEF CallInv
<1>2. d \in Call
  <2>1. 0 \in 0 .. MaxAttempts + 1
    BY NotifyAssumption
  <2> QED  BY <1>1, <2>1 DEF Call
<1>3. /\ d.rest = c.rest /\ d.child = "none" /\ d.off = c.off
      /\ d.errs = c.errs /\ d.accepted = c.accepted
      /\ d.changed = c.changed /\ d.stage = "done"
  BY <1>1 DEF Call
<1>4. NoneForgotten(s, d)
  <2>1. \A t : Settled(s, c, t) => Settled(s, d, t)
    BY <1>3 DEF Settled
  <2> QED  BY <1>3, <2>1 DEF CallInv, NoneForgotten, Posting, ToCall
<1>5. WebhookFirst(d) /\ TargetInv(d)
  BY <1>3 DEF CallInv, WebhookFirst, TargetInv, Posting
<1> QED  BY <1>2, <1>3, <1>4, <1>5 DEF CallInv

\* What is known of a call after an attempt or a wait: only its stage, its
\* attempt, its errors and the copies accepted have changed.
Moved(c, d) ==
    /\ d \in Call
    /\ d.rest = c.rest /\ d.child = c.child /\ d.target = c.target
    /\ d.off = c.off /\ d.changed = c.changed
    /\ c.errs \subseteq d.errs
    /\ d.accepted \in {c.accepted, c.accepted \cup {c.target}}
    /\ d.stage \in {"next", "post", "backoff"}
    /\ d.stage = "next" =>
          c.child \in d.errs \/ c.target \in d.accepted

\* It is still served: a transport leaves its turn delivered or failed.
LEMMA MovedInv ==
    ASSUME NEW s \in Sender, NEW c, CallInv(s, c), Posting(c),
           configured \in SUBSET BootTransport,
           NEW d, Moved(c, d)
    PROVE  CallInv(s, d)
<1>1. /\ c \in Call /\ c.child # "none"
      /\ IF c.child = "webhook" THEN c.target \in WebhookURL
         ELSE c.target = c.child /\ c.child \in BootTransport /\ c.target \notin WebhookURL
  BY NotifyAssumption DEF CallInv, TargetInv, Call, WebhookURL
<1>2. /\ d.rest = c.rest /\ d.child = c.child /\ d.target = c.target
      /\ d.off = c.off /\ d.changed = c.changed
      /\ c.errs \subseteq d.errs /\ c.accepted \subseteq d.accepted
      /\ d.accepted \subseteq c.accepted \cup {c.target}
      /\ d.stage \in {"next", "post", "backoff"}
      /\ d.stage = "next" => c.child \in d.errs \/ c.target \in d.accepted
  BY DEF Moved
<1>3. \A t : Settled(s, c, t) => Settled(s, d, t)
  BY <1>2 DEF Settled
<1>4. d.stage = "next" => Settled(s, d, c.child)
  BY <1>1, <1>2 DEF Settled
<1>5. ToCall(d) = ToCall(c)
  BY <1>2 DEF ToCall
<1>6. NoneForgotten(s, d)
  <2> SUFFICES ASSUME NEW t \in Wanted(s)
               PROVE  t \in ToCall(d) \/ (Posting(d) /\ d.child = t) \/ Settled(s, d, t)
    BY DEF NoneForgotten
  <2>1. t \in ToCall(c) \/ c.child = t \/ Settled(s, c, t)
    BY DEF CallInv, NoneForgotten, Posting
  <2> QED  BY <1>2, <1>3, <1>4, <1>5, <2>1 DEF Posting
<1>7. WebhookFirst(d)
  BY <1>1, <1>2 DEF CallInv, WebhookFirst
<1>8. TargetInv(d)
  <2>1. \E u : d.accepted \cap WebhookURL \subseteq {u}
    <3>1. CASE c.child = "webhook"
      BY <1>2, <3>1 DEF CallInv, TargetInv
    <3>2. CASE c.child # "webhook"
      <4>1. d.accepted \cap WebhookURL \subseteq c.accepted \cap WebhookURL
        BY <1>1, <1>2, <3>2
      <4> QED  BY <4>1 DEF CallInv, TargetInv
    <3> QED  BY <3>1, <3>2
  <2>2. d.child = "webhook" => d.accepted \cap WebhookURL \subseteq {d.target}
    BY <1>2 DEF CallInv, TargetInv
  <2> QED  BY <1>1, <1>2, <2>1, <2>2 DEF TargetInv
<1> QED  BY <1>2, <1>6, <1>7, <1>8 DEF CallInv, Moved

\* One attempt moves a call on: a good answer means an accepted copy.
LEMMA AttemptMoves ==
    ASSUME NEW c \in Call, Posting(c), c.child # "none",
           c.target \in WebhookURL \cup BootTransport,
           NEW a \in Answer(c.child)
    PROVE  Moved(c, AfterAttempt(c, a))
<1> DEFINE h == Heard(c, a)
<1>1. /\ h \in Call /\ h.rest = c.rest /\ h.child = c.child
      /\ h.target = c.target /\ h.off = c.off /\ h.changed = c.changed
      /\ h.errs = c.errs /\ h.attempt = c.attempt /\ h.stage = c.stage
      /\ h.accepted = IF a.accepted THEN c.accepted \cup {c.target} ELSE c.accepted
  <2>1. CASE a.accepted
    <3>1. h = [c EXCEPT !.accepted = @ \cup {c.target}]
      BY <2>1 DEF Heard
    <3> QED  BY <2>1, <3>1 DEF Call
  <2>2. CASE ~a.accepted
    BY <2>2 DEF Heard
  <2> QED  BY <2>1, <2>2
<1>2. Succeeds(c.child, a) => a.accepted
  BY DEF Succeeds, Answer
<1> HIDE DEF h
<1>3. CASE Succeeds(c.child, a)
  <2>1. AfterAttempt(c, a) = [h EXCEPT !.stage = "next"]
    BY <1>3 DEF AfterAttempt, h
  <2> QED  BY <1>1, <1>2, <1>3, <2>1 DEF Moved, Call
<1>4. CASE ~Succeeds(c.child, a) /\ c.attempt < MaxAttempts
  <2>1. AfterAttempt(c, a) = [h EXCEPT !.stage = "backoff", !.attempt = @ + 1]
    BY <1>4 DEF AfterAttempt, h, Retry
  <2>2. h.attempt + 1 \in 0 .. MaxAttempts + 1
    BY <1>1, <1>4, NotifyAssumption DEF Call
  <2> QED  BY <1>1, <2>1, <2>2, ZenonT(60) DEF Moved, Call
<1>5. CASE ~Succeeds(c.child, a) /\ ~(c.attempt < MaxAttempts)
  <2>1. AfterAttempt(c, a) = [h EXCEPT !.stage = "next", !.errs = @ \cup {h.child}]
    BY <1>5 DEF AfterAttempt, h, Failed
  <2>2. h.child \in {"webhook"} \cup BootTransport
    BY <1>1 DEF Call
  <2>3. [h EXCEPT !.stage = "next", !.errs = @ \cup {h.child}] \in Call
    BY <1>1, <2>2 DEF Call
  <2> QED  BY <1>1, <2>1, <2>3 DEF Moved, Call
<1> QED  BY <1>3, <1>4, <1>5

\* So do the wait's two ends.
LEMMA WaitMoves ==
    ASSUME NEW c \in Call, c.child # "none"
    PROVE  Moved(c, [c EXCEPT !.stage = "post"]) /\ Moved(c, Failed(c))
  BY DEF Moved, Call, Failed

-----------------------------------------------------------------------------
(* The steps.                                                              *)

LEMMA NotifyInitInv == NotifyInit => NotifyInv
<1> SUFFICES ASSUME NotifyInit PROVE NotifyInv
  OBVIOUS
<1>1. \A s \in Sender : CallInv(s, sends[s])
  BY NoCallInv DEF NotifyInit
<1>2. NotifyTypeOK
  BY <1>1, NoCallInv DEF NotifyInit, NotifyTypeOK, CallInv
<1>3. TestInv
  BY DEF NotifyInit, TestInv, NoCall, Sender
<1> QED  BY <1>1, <1>2, <1>3 DEF NotifyInv

\* A change of configuration marks a test that has yet to call the webhook.
LEMMA NotedInv ==
    ASSUME NotifyInv, sends' = Noted, seed' = seed, configured' = configured,
           cancelled' = cancelled, override' \in URL \cup {NoURL}
    PROVE  NotifyInv'
<1> DEFINE c == sends["test"]
           d == [c EXCEPT !.changed = @ \/ c.rest # << >>]
<1>1. /\ sends \in [Sender -> Call] /\ c \in Call /\ CallInv("test", c)
      /\ "test" \in Sender
  BY DEF NotifyInv, NotifyTypeOK, Sender
<1>2. sends' = [sends EXCEPT !["test"] = d]
  BY DEF Noted
<1>3. /\ d \in Call
      /\ d.rest = c.rest /\ d.child = c.child /\ d.target = c.target
      /\ d.off = c.off /\ d.errs = c.errs /\ d.accepted = c.accepted
      /\ d.stage = c.stage /\ (c.changed => d.changed)
      /\ (d.rest # << >> => d.changed)
  BY <1>1 DEF Call
<1> HIDE DEF d
<1>4. CallInv("test", d)
  <2>1. \A t : Settled("test", c, t) => Settled("test", d, t)
    BY <1>3 DEF Settled
  <2>2. NoneForgotten("test", d)
    BY <1>1, <1>3, <2>1 DEF CallInv, NoneForgotten, Posting, ToCall
  <2>3. WebhookFirst(d) /\ TargetInv(d)
    BY <1>1, <1>3 DEF CallInv, WebhookFirst, TargetInv, Posting
  <2> QED  BY <1>1, <1>3, <2>2, <2>3 DEF CallInv
<1>5. sends' \in [Sender -> Call] /\ sends'["test"] = d
      /\ \A s \in Sender : s # "test" => sends'[s] = sends[s]
  BY <1>1, <1>2, <1>3
<1>6. (\A s \in Sender : CallInv(s, sends[s]))'
  BY <1>4, <1>5 DEF NotifyInv, CallInv, NoneForgotten, Wanted
<1>7. NotifyTypeOK'
  BY <1>5 DEF NotifyInv, NotifyTypeOK
<1>8. TestInv'
  BY <1>3, <1>5 DEF TestInv
<1> QED  BY <1>6, <1>7, <1>8 DEF NotifyInv

\* A step of one sender that keeps its call in order, and starts no test
\* behind the back of the configuration, keeps the invariant.
LEMMA OneSender ==
    ASSUME NotifyInv, NEW s \in Sender, NEW d, CallInv(s, d),
           sends' = [sends EXCEPT ![s] = d],
           UNCHANGED <<seed, override, configured>>,
           cancelled' \in SUBSET Sender,
           s = "test" =>
             (d.rest # << >> /\ ~d.changed => Enabled)
    PROVE  NotifyInv'
<1>1. d \in Call /\ sends \in [Sender -> Call]
  BY DEF CallInv, NotifyInv, NotifyTypeOK
<1>2. /\ sends' \in [Sender -> Call] /\ sends'[s] = d
      /\ \A r \in Sender : r # s => sends'[r] = sends[r]
  BY <1>1
<1>3. (\A r \in Sender : CallInv(r, sends[r]))'
  BY <1>2 DEF NotifyInv, CallInv, NoneForgotten, Wanted
<1>4. NotifyTypeOK'
  BY <1>2 DEF NotifyInv, NotifyTypeOK
<1>5. TestInv'
  BY <1>2 DEF NotifyInv, TestInv, Enabled, Current, Sender
<1> QED  BY <1>3, <1>4, <1>5 DEF NotifyInv

LEMMA NextChildKeeps ==
    ASSUME NotifyInv, NEW s \in Sender, NextChild(s)
    PROVE  NotifyInv'
<1> DEFINE c == sends[s]
<1>1. /\ CallInv(s, c) /\ c \in Call /\ sends \in [Sender -> Call]
      /\ NotifyTypeOK /\ TestInv /\ cancelled' \in SUBSET Sender
      /\ c.stage = "next" /\ UNCHANGED <<seed, override, configured>>
  BY DEF NotifyInv, CallInv, NotifyTypeOK, NextChild
<1>2. CASE c.rest = << >>
  <2> DEFINE d == [c EXCEPT !.stage = "done", !.child = "none",
                            !.target = NoURL, !.attempt = 0]
  <2>1. sends' = [sends EXCEPT ![s] = d]
    BY <1>2 DEF NextChild
  <2>2. CallInv(s, d)
    BY <1>1, <1>2, ReturnInv
  <2>3. d.rest = << >>
    BY <1>1, <1>2 DEF Call
  <2> HIDE DEF d
  <2> QED  BY <1>1, <2>1, <2>2, <2>3, OneSender
<1>3. CASE c.rest # << >>
  <2> DEFINE k == Head(c.rest)
             t == IF k = "webhook" THEN Current ELSE k
             d == [c EXCEPT !.rest = Tail(@), !.child = k, !.target = t,
                            !.attempt = 1, !.off = @ \/ t = NoURL,
                            !.stage = IF t = NoURL THEN "next" ELSE "post"]
  <2>1. sends' = [sends EXCEPT ![s] = d]
    BY <1>1, <1>3, ZenonT(60) DEF NextChild, Call
  <2>2. CallInv(s, d)
    BY <1>1, <1>3, CalledInv, ZenonT(60)
  <2>3. d.changed = c.changed
    BY <1>1 DEF Call
  <2>4. s = "test" => (d.rest # << >> /\ ~d.changed => Enabled)
    BY <1>1, <1>3, <2>3 DEF TestInv
  <2> HIDE DEF d
  <2> QED  BY <1>1, <2>1, <2>2, <2>4, OneSender
<1> QED  BY <1>2, <1>3

LEMMA MovedKeeps ==
    ASSUME NotifyInv, NEW s \in Sender, Posting(sends[s]),
           NEW d, Moved(sends[s], d), sends' = [sends EXCEPT ![s] = d],
           UNCHANGED <<seed, override, configured, cancelled>>
    PROVE  NotifyInv'
<1>1. CallInv(s, d)
  BY MovedInv DEF NotifyInv, NotifyTypeOK
<1>2. s = "test" => (d.rest # << >> /\ ~d.changed => Enabled)
  BY DEF NotifyInv, TestInv, Moved
<1> QED  BY <1>1, <1>2, OneSender DEF NotifyInv, NotifyTypeOK

LEMMA NotifyStep == NotifyInv /\ [NotifyNext]_notifyVars => NotifyInv'
<1> SUFFICES ASSUME NotifyInv, [NotifyNext]_notifyVars PROVE NotifyInv'
  OBVIOUS
<1> USE DEF Sender
<1>0. /\ configured \in SUBSET BootTransport /\ sends \in [Sender -> Call]
      /\ cancelled \in SUBSET Sender /\ seed \in WebhookURL \cup {NoURL}
      /\ override \in URL \cup {NoURL}
  BY DEF NotifyInv, NotifyTypeOK
<1>1. CASE \E raw \in URL \cup {NoURL, Malformed} : handleSetWebhook(raw)
  BY <1>1, NotedInv DEF handleSetWebhook, validateWebhookURL
<1>2. CASE handleRevertWebhook
  BY <1>2, NotedInv DEF handleRevertWebhook
<1>3. ASSUME NEW s \in Sender, Begin(s), UNCHANGED <<seed, override, configured>>,
             cancelled' \in SUBSET Sender, s = "test" => Enabled
      PROVE  NotifyInv'
  <2> DEFINE d == [NoCall EXCEPT !.stage = "next", !.rest = Children(s)]
  <2>1. CallInv(s, d)
    BY <1>0, BegunInv
  <2>2. sends' = [sends EXCEPT ![s] = d]
    BY <1>3 DEF Begin
  <2> HIDE DEF d
  <2> QED  BY <1>3, <2>1, <2>2, OneSender
<1>4. CASE dispatchEvent
  BY <1>0, <1>3, <1>4 DEF dispatchEvent
<1>5. CASE handleTestWebhook
  BY <1>0, <1>3, <1>5 DEF handleTestWebhook
<1>6. ASSUME NEW s \in Sender, Sending(s)
      PROVE  NotifyInv'
  <2>1. CASE NextChild(s)
    BY <2>1, NextChildKeeps
  <2>2. CASE postOnce(s)
    <3> DEFINE c == sends[s]
    <3>1. PICK a \in Answer(c.child) : sends' = [sends EXCEPT ![s] = AfterAttempt(@, a)]
      BY <2>2 DEF postOnce
    <3>2. c \in Call /\ Posting(c) /\ c.child # "none" /\ c.target \in WebhookURL \cup BootTransport
      BY <1>0, <2>2 DEF postOnce, Posting, NotifyInv, CallInv, TargetInv, Call
    <3>3. Moved(c, AfterAttempt(c, a))
      BY <3>2, AttemptMoves
    <3>4. sends' = [sends EXCEPT ![s] = AfterAttempt(c, a)]
      BY <3>1
    <3> QED  BY <2>2, <3>2, <3>3, <3>4, MovedKeeps DEF postOnce
  <2>3. CASE Backoff(s)
    <3> DEFINE c == sends[s]
    <3>1. c \in Call /\ Posting(c) /\ c.child # "none"
      BY <1>0, <2>3 DEF Backoff, Posting, NotifyInv, CallInv, TargetInv
    <3>2. Moved(c, [c EXCEPT !.stage = "post"]) /\ Moved(c, Failed(c))
      BY <3>1, WaitMoves
    <3>3. \/ sends' = [sends EXCEPT ![s] = [c EXCEPT !.stage = "post"]]
          \/ sends' = [sends EXCEPT ![s] = Failed(c)]
      BY <2>3 DEF Backoff
    <3> QED  BY <2>3, <3>1, <3>2, <3>3, MovedKeeps DEF Backoff
  <2> QED  BY <1>6, <2>1, <2>2, <2>3 DEF Sending
<1>7. CASE \E s \in Sender : Cancel(s)
  BY <1>0, <1>7 DEF Cancel, NotifyInv, NotifyTypeOK, CallInv, NoneForgotten,
                    Wanted, TestInv, Enabled, Current
<1>8. CASE NotifyRestart
  <2>1. \A s \in Sender : sends'[s] = NoCall
    BY <1>8 DEF NotifyRestart
  <2>2. (\A s \in Sender : CallInv(s, sends[s]))'
    BY <1>8, <2>1, NoCallInv DEF NotifyRestart, CallInv, NoneForgotten, NoCall
  <2>3. NotifyTypeOK'
    BY <1>0, <1>8, NoCallInv DEF NotifyRestart, NotifyTypeOK, CallInv
  <2>4. TestInv'
    BY <2>1 DEF TestInv, NoCall
  <2> QED  BY <2>2, <2>3, <2>4 DEF NotifyInv
<1>9. CASE UNCHANGED notifyVars
  BY <1>9 DEF notifyVars, NotifyInv, NotifyTypeOK, CallInv, NoneForgotten,
              Wanted, TestInv, Enabled, Current
<1> QED  BY <1>1, <1>2, <1>4, <1>5, <1>6, <1>7, <1>8, <1>9 DEF NotifyNext

-----------------------------------------------------------------------------
\* A Notify that returns accounts for every transport it had to serve, however
\* the answers, the cancellations and the changes of URL fall: each one
\* accepted the message or is among the joined errors, and the test handler
\* reports "delivered" without a delivery only if the webhook was re-pointed
\* under it (MultiNotifier.Notify, postJSON, handleTestWebhook).
THEOREM EveryTransportAccounted == NotifySpec => []Accounted
<1>1. NotifyInv => Accounted
  <2> SUFFICES ASSUME NotifyInv, NEW s \in Sender, Returned(s)
               PROVE  /\ \A t \in configured :
                            s = "dispatch" => t \in sends[s].accepted \cup sends[s].errs
                      /\ Settled(s, sends[s], "webhook")
    BY DEF Accounted, Settled
  <2>1. /\ sends[s].stage = "done" /\ sends[s].rest = << >>
        /\ NoneForgotten(s, sends[s])
    BY DEF NotifyInv, CallInv, Returned
  <2>2. ToCall(sends[s]) = {}
    BY <2>1 DEF ToCall
  <2>3. \A t \in Wanted(s) : Settled(s, sends[s], t)
    BY <2>1, <2>2 DEF NoneForgotten, Posting
  <2>4. "webhook" \notin configured
    BY NotifyAssumption DEF NotifyInv, NotifyTypeOK
  <2> QED  BY <2>3, <2>4 DEF Wanted, Settled
<1> QED  BY <1>1, NotifyInitInv, NotifyStep, PTL DEF NotifySpec

\* The copies of one message, the retries included, reach one webhook: the one
\* in force when the transport was called (Webhook.Notify resolves the URL
\* once, outside postJSON's retry loop).
THEOREM MessageNotSplit == NotifySpec => []OneTarget
<1>1. NotifyInv => OneTarget
  <2> SUFFICES ASSUME NotifyInv, NEW s \in Sender
               PROVE  /\ Cardinality(sends[s].accepted \cap WebhookURL) <= 1
                      /\ sends[s].child = "webhook" =>
                            sends[s].accepted \cap WebhookURL \subseteq {sends[s].target}
    BY DEF OneTarget
  <2> DEFINE A == sends[s].accepted \cap WebhookURL
  <2>1. TargetInv(sends[s])
    BY DEF NotifyInv, CallInv
  <2>2. PICK u : A \subseteq {u}
    BY <2>1 DEF TargetInv
  <2>3. IsFiniteSet({u}) /\ Cardinality({u}) = 1
    BY FS_Singleton
  <2>4. Cardinality(A) <= 1
    BY <2>2, <2>3, FS_Subset
  <2> QED  BY <2>1, <2>4 DEF TargetInv
<1> QED  BY <1>1, NotifyInitInv, NotifyStep, PTL DEF NotifySpec
=============================================================================
