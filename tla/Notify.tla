------------------------------- MODULE Notify -------------------------------
(***************************************************************************)
(* Delivery of one message: the webhook whose URL operators change while   *)
(* it is in use, the transports configured at boot, the fan-out over them  *)
(* and the retries of each.  Two goroutines send: the poller's dispatch    *)
(* worker to every transport, the test handler to the webhook alone.       *)
(***************************************************************************)
EXTENDS Naturals, Sequences, FiniteSets

CONSTANTS
    URL,            \* well-formed https URLs with a host
    BootTransport,  \* the transports configured by environment variables
    Malformed,      \* anything else an operator may type in
    NoURL,          \* the empty URL: delivery is off
    MaxAttempts     \* the retry budget of one transport

ASSUME NotifyAssumption ==
    /\ BootTransport \subseteq {"slack-bot", "telegram", "discord"}
    /\ MaxAttempts \in Nat \ {0}
    /\ NoURL \notin URL \cup BootTransport
    /\ Malformed \notin URL \cup BootTransport \cup {NoURL}
    /\ URL \cap BootTransport = {}

Sender == {"dispatch", "test"}

\* What the webhook may point at: only the operators' own choice is checked.
WebhookURL == URL \cup {Malformed}

VARIABLES
    seed,           \* WebhookConfig.seed: DASHBOARD_WEBHOOK_URL
    override,       \* WebhookConfig.override: NoURL stands for nil
    configured,     \* the boot transports whose environment is complete
    sends,          \* per sender, the Notify call it is in
    cancelled       \* the senders whose context is cancelled

notifyVars == <<seed, override, configured, sends, cancelled>>

\* A call: the transports not yet called, the one being called and its
\* target, the attempt; the transports that failed (the errors to join).
\* History: the receivers that accepted a copy, whether the webhook was off,
\* whether its URL changed between the test handler's check and the call.
Call == [stage : {"idle", "next", "post", "backoff", "done"},
         rest : Seq({"webhook"} \cup BootTransport),
         child : {"webhook", "none"} \cup BootTransport,
         target : WebhookURL \cup BootTransport \cup {NoURL},
         attempt : 0 .. MaxAttempts + 1,
         errs : SUBSET ({"webhook"} \cup BootTransport),
         accepted : SUBSET (WebhookURL \cup BootTransport),
         off : BOOLEAN,
         changed : BOOLEAN]

NoCall == [stage |-> "idle", rest |-> << >>, child |-> "none",
           target |-> NoURL, attempt |-> 0, errs |-> {}, accepted |-> {},
           off |-> FALSE, changed |-> FALSE]

NotifyTypeOK ==
    /\ seed \in WebhookURL \cup {NoURL}
    /\ override \in URL \cup {NoURL}
    /\ configured \in SUBSET BootTransport
    /\ sends \in [Sender -> Call]
    /\ cancelled \in SUBSET Sender

\* main: the holder is seeded from the environment, unchecked, and each of
\* NewSlackBotFromEnv, NewTelegramFromEnv and NewDiscordFromEnv yields a
\* transport only if its variables are all set.
NotifyInit ==
    /\ seed \in WebhookURL \cup {NoURL}
    /\ override = NoURL
    /\ configured \in SUBSET BootTransport
    /\ sends = [s \in Sender |-> NoCall]
    /\ cancelled = {}

-----------------------------------------------------------------------------
(* The webhook's URL.                                                      *)

Current == IF override # NoURL THEN override ELSE seed

Enabled == Current # NoURL

validateWebhookURL(raw) == raw \in URL

\* A test in flight has not called the webhook yet.
Noted ==
    [sends EXCEPT !["test"].changed = @ \/ sends["test"].rest # << >>]

handleSetWebhook(raw) ==
    /\ validateWebhookURL(raw)
    /\ override' = raw
    /\ sends' = Noted
    /\ UNCHANGED <<seed, configured, cancelled>>

handleRevertWebhook ==
    /\ override' = NoURL
    /\ sends' = Noted
    /\ UNCHANGED <<seed, configured, cancelled>>

-----------------------------------------------------------------------------
(* One Notify call.                                                        *)

\* NewMultiNotifier drops the transports that are not configured.
IfConfigured(t) == IF t \in configured THEN <<t>> ELSE << >>

\* The transports in the order the composite calls them; the test handler has
\* the webhook only.
Children(s) ==
    IF s = "test" THEN <<"webhook">>
    ELSE <<"webhook">> \o IfConfigured("slack-bot")
            \o IfConfigured("telegram") \o IfConfigured("discord")

Begin(s) ==
    /\ sends' = [sends EXCEPT ![s] =
           [NoCall EXCEPT !.stage = "next", !.rest = Children(s)]]

\* runDispatchLoop takes an event.
dispatchEvent ==
    /\ sends["dispatch"].stage \in {"idle", "done"}
    /\ "dispatch" \notin cancelled
    /\ Begin("dispatch")
    /\ UNCHANGED <<seed, override, configured, cancelled>>

\* With no webhook configured the handler answers without a send.
handleTestWebhook ==
    /\ sends["test"].stage \in {"idle", "done"}
    /\ Enabled
    /\ Begin("test")
    /\ cancelled' = cancelled \ {"test"}
    /\ UNCHANGED <<seed, override, configured>>

\* The composite calls the next transport, or returns the joined errors.
\* Webhook.Notify resolves its URL here, once; an empty one is a success
\* without a request.
NextChild(s) ==
    /\ sends[s].stage = "next"
    /\ IF sends[s].rest = << >>
       THEN sends' = [sends EXCEPT ![s] =
                [@ EXCEPT !.stage = "done", !.child = "none",
                          !.target = NoURL, !.attempt = 0]]
       ELSE LET c == Head(sends[s].rest)
                t == IF c = "webhook" THEN Current ELSE c
            IN  sends' = [sends EXCEPT
                    ![s].rest = Tail(@),
                    ![s].child = c,
                    ![s].target = t,
                    ![s].attempt = 1,
                    ![s].off = @ \/ t = NoURL,
                    ![s].stage = IF t = NoURL THEN "next" ELSE "post"]
    /\ UNCHANGED <<seed, override, configured, cancelled>>

\* What a request can come back with: the receiver accepted the message or
\* not; the status, with the body's verdict for Slack's chat.postMessage,
\* which answers 200 with ok:false when it rejects a message.  Accepted
\* without a good status is an answer lost or late.
Answer(c) ==
    {a \in [accepted : BOOLEAN, status : {"2xx", "other"}, ok : BOOLEAN] :
        /\ a.ok => a.accepted /\ a.status = "2xx"
        /\ a.status = "2xx" /\ c # "slack-bot" => a.accepted}

\* Mutant: the body is not looked at.
MutantSucceeds(c, a) == a.status = "2xx"

\* postOnce with its validate hook.
Succeeds(c, a) == a.status = "2xx" /\ (c = "slack-bot" => a.ok)

\* Mutant: the first error ends the fan-out.
MutantFailed(call) ==
    [call EXCEPT !.stage = "next", !.rest = << >>,
                 !.errs = @ \cup {call.child}]

\* A transport has failed for good: the error is kept, the next one is
\* called all the same.
Failed(call) ==
    [call EXCEPT !.stage = "next", !.errs = @ \cup {call.child}]

\* The receiver got the request, in the history.
Heard(call, a) ==
    IF a.accepted
    THEN [call EXCEPT !.accepted = @ \cup {call.target}]
    ELSE call

\* Mutant: the URL is looked up again for every attempt.
MutantRetry(call) ==
    [call EXCEPT !.stage = "backoff", !.attempt = @ + 1,
                 !.target = IF call.child = "webhook" /\ Enabled
                            THEN Current ELSE @]

Retry(call) == [call EXCEPT !.stage = "backoff", !.attempt = @ + 1]

\* The loop of postJSON after an attempt.
AfterAttempt(call, a) ==
    CASE Succeeds(call.child, a) -> [Heard(call, a) EXCEPT !.stage = "next"]
      [] ~Succeeds(call.child, a) /\ call.attempt < MaxAttempts ->
             Retry(Heard(call, a))
      [] OTHER -> Failed(Heard(call, a))

\* One request; with a cancelled context none is sent.
postOnce(s) ==
    /\ sends[s].stage = "post"
    /\ \E a \in Answer(sends[s].child) :
          /\ s \in cancelled => ~a.accepted /\ a.status = "other"
          /\ sends' = [sends EXCEPT ![s] = AfterAttempt(@, a)]
    /\ UNCHANGED <<seed, override, configured, cancelled>>

\* The select between attempts: the timer, or the cancelled context.
Backoff(s) ==
    /\ sends[s].stage = "backoff"
    /\ \/ sends' = [sends EXCEPT ![s].stage = "post"]
       \/ s \in cancelled /\ sends' = [sends EXCEPT ![s] = Failed(@)]
    /\ UNCHANGED <<seed, override, configured, cancelled>>

\* The browser goes away, or the process is told to stop.
Cancel(s) ==
    /\ sends[s].stage \notin {"idle", "done"}
    /\ cancelled' = cancelled \cup {s}
    /\ UNCHANGED <<seed, override, configured, sends>>

\* The override lives in memory only.
NotifyRestart ==
    /\ override' = NoURL
    /\ sends' = [s \in Sender |-> NoCall]
    /\ cancelled' = {}
    /\ UNCHANGED <<seed, configured>>

Sending(s) == NextChild(s) \/ postOnce(s) \/ Backoff(s)

NotifyNext ==
    \/ \E raw \in URL \cup {NoURL, Malformed} : handleSetWebhook(raw)
    \/ handleRevertWebhook
    \/ dispatchEvent
    \/ handleTestWebhook
    \/ \E s \in Sender : Sending(s) \/ Cancel(s)
    \/ NotifyRestart

NotifySpec == NotifyInit /\ [][NotifyNext]_notifyVars

-----------------------------------------------------------------------------
Returned(s) == sends[s].stage = "done"

\* A Notify that returns accounts for every transport: each one accepted the
\* message or is among the joined errors, whatever the others did; the
\* webhook may have been off, which the test handler, having seen it
\* enabled, can meet only if the configuration changed meanwhile.  So an
\* answer "delivered" means delivered.
Accounted ==
    \A s \in Sender : Returned(s) =>
        /\ \A t \in configured :
              s = "dispatch" => t \in sends[s].accepted \cup sends[s].errs
        /\ \/ "webhook" \in sends[s].errs
           \/ sends[s].accepted \cap WebhookURL # {}
           \/ sends[s].off /\ (s = "test" => sends[s].changed)

\* The copies of one message reach one webhook, however often operators
\* re-point it between the attempts, and it is the one that was in force when
\* the transport was called: a message is not split over two channels.
OneTarget ==
    \A s \in Sender :
        /\ Cardinality(sends[s].accepted \cap WebhookURL) <= 1
        /\ sends[s].child = "webhook" =>
              sends[s].accepted \cap WebhookURL \subseteq {sends[s].target}
=============================================================================
