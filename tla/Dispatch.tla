------------------------------ MODULE Dispatch ------------------------------
(***************************************************************************)
(* The sample loop composed with the dispatch worker of poller.Poller: the *)
(* loop hands each event over with a non-blocking send on a bounded        *)
(* channel, the worker delivers one event at a time through the notifier.  *)
(***************************************************************************)
EXTENDS Poller

CONSTANTS
    QueueCap,       \* dispatchBufferSize
    NotifierFails   \* a delivery may fail after its retries

ASSUME DispatchAssumption ==
    QueueCap \in Nat \ {0} /\ NotifierFails \in BOOLEAN

VARIABLES
    queue,      \* the dispatch channel
    inflight,   \* the event the worker is delivering, or None
    told        \* per key, the kind of the last event delivered

delivery == <<queue, inflight, told>>

allVars == <<vars, delivery>>

DeliveryTypeOK ==
    /\ queue \in Seq(Event) /\ Len(queue) <= QueueCap
    /\ inflight \in Event \cup {None}
    /\ told \in [Keys -> {"nothing", "fire", "recovery"}]

DispatchInit ==
    /\ Init
    /\ queue = << >>
    /\ inflight = None
    /\ told = [k \in Keys |-> "nothing"]

-----------------------------------------------------------------------------
\* The loop ticks again once every event of the last tick has been offered.
Sample ==
    /\ outbox = << >>
    /\ Ticks
    /\ UNCHANGED delivery

\* The select with a default branch: a full channel drops the event.
Send ==
    /\ outbox # << >>
    /\ outbox' = Tail(outbox)
    /\ queue' = IF Len(queue) < QueueCap THEN Append(queue, Head(outbox))
                ELSE queue
    /\ UNCHANGED <<world, evaluator, view, recent, lowFor, moved,
                   inflight, told>>

\* runDispatchLoop takes the next event ...
Receive ==
    /\ inflight = None
    /\ queue # << >>
    /\ inflight' = Head(queue)
    /\ queue' = Tail(queue)
    /\ UNCHANGED <<vars, told>>

\* ... and Notify returns: delivered, or given up after its retries.
Deliver(k) ==
    /\ inflight # None
    /\ inflight.key = k
    /\ told' = [told EXCEPT ![k] = inflight.kind]
    /\ inflight' = None
    /\ UNCHANGED <<vars, queue>>

GiveUp ==
    /\ NotifierFails
    /\ inflight # None
    /\ inflight' = None
    /\ UNCHANGED <<vars, queue, told>>

\* Shutdown abandons what is queued or being delivered.
Shutdown ==
    /\ Restart
    /\ queue' = << >>
    /\ inflight' = None
    /\ UNCHANGED told

DispatchNext ==
    \/ Sample \/ Send \/ Receive
    \/ \E k \in Keys : Deliver(k)
    \/ GiveUp
    \/ World /\ UNCHANGED <<process, delivery>>
    \/ Shutdown

DispatchSpec == DispatchInit /\ [][DispatchNext]_allVars

\* Both goroutines keep running, and the notifier does not fail for ever.
DispatchFairSpec ==
    /\ DispatchSpec
    /\ WF_allVars(Sample \/ Send)
    /\ WF_allVars(Receive)
    /\ \A k \in Keys : SF_allVars(Deliver(k))

-----------------------------------------------------------------------------
\* As long as the worker catches up from time to time, the operator ends up
\* told of an alert that lasts once the host's state no longer changes,
\* although events are dropped and deliveries fail: the reminders make up
\* for them.
LastingAlertTold ==
    \A k \in Keys :
        (/\ <>[](k \in firing)
         /\ []<>(queue = << >>)
         /\ <>[][UNCHANGED world]_allVars)
        => <>[](told[k] = "fire")
=============================================================================
