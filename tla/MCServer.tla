------------------------------ MODULE MCServer ------------------------------
(***************************************************************************)
(* The components of the dashboard that keep state of their own and share  *)
(* none with the others: each behaviour is one of one part, chosen         *)
(* initially, while the others rest.                                       *)
(*                                                                         *)
(* The CPU and the byte side of proc.Service are two parts, since neither  *)
(* difference enters the other.  The two sides of the poller's collect     *)
(* share the clock only: handshakes are written after the chart rows,      *)
(* whatever became of those.  The chart side is taken one table at a time  *)
(* with traffic ("traffic_metrics", "client_traffic") and with all its     *)
(* tables together without ("tick").                                       *)
(***************************************************************************)
EXTENDS Notify, ProcSampler, Processes, ServerInfo, Handshakes, Series

VARIABLE part

serverVars == <<part, notifyVars, procVars, processesVars, infoVars,
                hsVars, seriesState>>

Telemetry == {"handshakes", "tick", "traffic_metrics", "client_traffic"}

Part == {"notify", "cpu", "bytes", "processes", "info"} \cup Telemetry

ServerInit ==
    /\ part \in Part
    /\ NotifyInit /\ ProcInit /\ ProcessesInit /\ InfoInit
    /\ HandshakesInit /\ SeriesInit
    \* The URLs are interchangeable.
    /\ seed \in {NoURL, Malformed, CHOOSE u \in URL : TRUE}
    /\ part # "notify" => seed = NoURL /\ configured = {}
    /\ part # "processes" => running = [p \in PID |-> Gone]
    /\ part # "info" => host = "other" /\ ~PublicEndpoint

\* A table by itself: the inserts into the others fail, and only one of its
\* keys moves bytes or is replaced.
Alone(table, k) ==
    /\ \A t \in Table \ {table} : tables'[t] = {}
    /\ \A j \in Key \ {k} : carried'[j] = None /\ j \in DOMAIN counter'

Collecting ==
    \/ part = "handshakes" /\ HandshakesNext /\ UNCHANGED seriesState
    \/ /\ part # "handshakes" /\ SeriesNext /\ UNCHANGED hsState
       /\ part = "traffic_metrics" => Alone("traffic_metrics", Iface)
       /\ part = "client_traffic" =>
             \E p \in Peer \ Quiet : Alone("client_traffic", p)
       /\ part = "tick" => UNCHANGED counter

ServerNext ==
    /\ UNCHANGED part
    /\ \/ /\ part = "notify" /\ NotifyNext
          /\ UNCHANGED <<procVars, processesVars, infoVars, hsVars, seriesState>>
       \/ /\ part \in {"cpu", "bytes"} /\ ProcNext
          /\ part = "cpu" => UNCHANGED <<bytes, moved, clock>>
          /\ part = "bytes" => UNCHANGED cpu
          /\ UNCHANGED <<notifyVars, processesVars, infoVars, hsVars, seriesState>>
       \/ /\ part = "processes" /\ ProcessesNext
          /\ UNCHANGED <<notifyVars, procVars, infoVars, hsVars, seriesState>>
       \/ /\ part = "info" /\ InfoNext
          /\ UNCHANGED <<notifyVars, procVars, processesVars, hsVars, seriesState>>
       \/ /\ part \in Telemetry /\ Collecting
          /\ UNCHANGED <<notifyVars, procVars, processesVars, infoVars>>

ServerSpec == ServerInit /\ [][ServerNext]_serverVars

\* The type invariants of the components.
ServerTypeOK ==
    /\ NotifyTypeOK /\ ProcTypeOK /\ ProcessesTypeOK /\ InfoTypeOK
    /\ HandshakesTypeOK /\ SeriesTypeOK
=============================================================================
