----------------------------- MODULE ServerInfo -----------------------------
(***************************************************************************)
(* serverinfo.Service under concurrent requests.  Whether the host is on   *)
(* EC2 is probed once per process, by whichever goroutine asks first, and  *)
(* the verdict is kept; what the About page shows and what the downloaded  *)
(* client configuration holds hangs on it.                                 *)
(***************************************************************************)
EXTENDS Naturals

CONSTANTS
    Request,    \* slots for HTTP requests
    EC2Field    \* the EC2 card's reads: public IP, instance type, zone, AMI

ASSUME ServerInfoAssumption ==
    EC2Field \cap {"endpoint", "key", "vpc"} = {}

VARIABLES
    host,           \* where the process runs
    PublicEndpoint, \* WG_PUBLIC_ENDPOINT is set
    ec2Once,        \* the sync.Once: new, running, done
    ec2OK,          \* the verdict
    requests,       \* per slot, the request and its goroutines
    probeFailed     \* history: the probe of an EC2 host came back negative

infoVars == <<host, PublicEndpoint, ec2Once, ec2OK, requests, probeFailed>>

Task == EC2Field \cup {"endpoint", "key", "vpc"}

\* A goroutine of a request: not started, to be run, inside the probe,
\* waiting for IMDS or for the echo service, done with a value from some
\* source, done with ErrNotOnEC2, done with another error.
Status == {"off", "ready", "probing", "imds?", "echo?",
           "imds", "echo", "override", "wg", "not_on_ec2", "failed"}
Over == {"imds", "echo", "override", "wg", "not_on_ec2", "failed"}

Kind == {"none", "about", "server", "snapshot", "config"}

NoRequest == [kind |-> "none", task |-> [t \in Task |-> "off"],
              answer |-> "none"]

InfoTypeOK ==
    /\ host \in {"ec2", "other"}
    /\ PublicEndpoint \in BOOLEAN
    /\ ec2Once \in {"new", "running", "done"}
    /\ ec2OK \in BOOLEAN
    /\ requests \in [Request -> [kind : Kind, task : [Task -> Status],
                                 answer : {"none", "page", "error",
                                           "vpc_config", "plain_config"}]]
    /\ probeFailed \in BOOLEAN

InfoInit ==
    /\ host \in {"ec2", "other"}
    /\ PublicEndpoint \in BOOLEAN
    /\ ec2Once = "new"
    /\ ec2OK = FALSE
    /\ requests = [r \in Request |-> NoRequest]
    /\ probeFailed = FALSE

-----------------------------------------------------------------------------
\* The goroutines a handler starts: Get runs the endpoint and the key.
Started(kind) ==
    [t \in Task |->
        IF t \in {"endpoint", "key"} \/ (kind = "about" /\ t \in EC2Field)
        THEN "ready" ELSE "off"]

Arrives(r, kind) ==
    /\ requests[r].kind = "none"
    /\ requests' = [requests EXCEPT ![r] =
           [kind |-> kind, task |-> Started(kind), answer |-> "none"]]
    /\ UNCHANGED <<host, PublicEndpoint, ec2Once, ec2OK, probeFailed>>

Becomes(r, t, s) == requests' = [requests EXCEPT ![r].task[t] = s]

\* Mutant: a flag instead of the Once: whoever finds the probe under way
\* takes the zero value for its verdict.
MutantVerdictKnown == ec2Once \in {"running", "done"}

\* ec2Once.Do returns: nobody passes while the first caller is probing.
VerdictKnown == ec2Once = "done"

\* The first caller of onEC2 runs the probe; the others wait for it.
onEC2(r, t) ==
    /\ requests[r].task[t] = "ready"
    /\ t # "key"
    /\ ~(t = "endpoint" /\ PublicEndpoint)
    /\ ec2Once = "new"
    /\ ec2Once' = "running"
    /\ Becomes(r, t, "probing")
    /\ UNCHANGED <<host, PublicEndpoint, ec2OK, probeFailed>>

\* Mutant: the probe's result is never published.
MutantLatched(ok) == "running"

\* Mutant: a negative verdict is not kept.
MutantOnceAfter(ok) == IF ok THEN "done" ELSE "new"

OnceAfter(ok) == "done"

\* One token PUT with a short deadline, under the caller's context: away
\* from EC2 it fails, on EC2 it may.
defaultEC2Probe(r, t) ==
    /\ requests[r].task[t] = "probing"
    /\ \E ok \in BOOLEAN :
          /\ ok => host = "ec2"
          /\ ec2Once' = OnceAfter(ok)
          /\ ec2OK' = ok
          /\ probeFailed' = (probeFailed \/ (host = "ec2" /\ ~ok))
          /\ Becomes(r, t, IF OnceAfter(ok) = "done" THEN "ready"
                           ELSE "not_on_ec2")
    /\ UNCHANGED <<host, PublicEndpoint>>

\* EC2PublicIP, InstanceType, AvailabilityZone, AMIID, VPCCIDR: off EC2 they
\* end before any request.
EC2Only(r, t) ==
    /\ t \in EC2Field \cup {"vpc"}
    /\ requests[r].task[t] = "ready"
    /\ VerdictKnown
    /\ Becomes(r, t, IF ec2OK THEN "imds?" ELSE "not_on_ec2")
    /\ UNCHANGED <<host, PublicEndpoint, ec2Once, ec2OK, probeFailed>>

\* The operator's override, IMDS on EC2, the echo service elsewhere.
resolvePublicIP(r) ==
    /\ requests[r].task["endpoint"] = "ready"
    /\ \/ PublicEndpoint /\ Becomes(r, "endpoint", "override")
       \/ /\ ~PublicEndpoint
          /\ VerdictKnown
          /\ Becomes(r, "endpoint", IF ec2OK THEN "imds?" ELSE "echo?")
    /\ UNCHANGED <<host, PublicEndpoint, ec2Once, ec2OK, probeFailed>>

\* Token PUT and GET: a value, or an error.
metadata(r, t) ==
    /\ requests[r].task[t] = "imds?"
    /\ \E s \in {"failed"} \cup (IF host = "ec2" THEN {"imds"} ELSE {}) :
          Becomes(r, t, s)
    /\ UNCHANGED <<host, PublicEndpoint, ec2Once, ec2OK, probeFailed>>

echo(r) ==
    /\ requests[r].task["endpoint"] = "echo?"
    /\ \E s \in {"failed", "echo"} : Becomes(r, "endpoint", s)
    /\ UNCHANGED <<host, PublicEndpoint, ec2Once, ec2OK, probeFailed>>

\* sudo wg show wg0 public-key; empty output is an error.
fetchServerPublicKey(r) ==
    /\ requests[r].task["key"] = "ready"
    /\ \E s \in {"failed", "wg"} : Becomes(r, "key", s)
    /\ UNCHANGED <<host, PublicEndpoint, ec2Once, ec2OK, probeFailed>>

-----------------------------------------------------------------------------
(* The handlers, once every goroutine they wait for is done.               *)

Answered(r, a) == requests' = [requests EXCEPT ![r].answer = a]

GetFailed(r) == "failed" \in {requests[r].task["endpoint"],
                              requests[r].task["key"]}

Waited(r, ts) ==
    /\ requests[r].answer = "none"
    /\ \A t \in ts : requests[r].task[t] \in Over

\* Each card of the page degrades by itself.
handleGetPartialAbout(r) ==
    /\ requests[r].kind = "about"
    /\ Waited(r, EC2Field \cup {"endpoint", "key"})
    /\ Answered(r, "page")
    /\ UNCHANGED <<host, PublicEndpoint, ec2Once, ec2OK, probeFailed>>

handleGetServer(r) ==
    /\ requests[r].kind = "server"
    /\ Waited(r, {"endpoint", "key"})
    /\ Answered(r, IF GetFailed(r) THEN "error" ELSE "page")
    /\ UNCHANGED <<host, PublicEndpoint, ec2Once, ec2OK, probeFailed>>

\* /api/snapshot joins its goroutines, and a section that failed is an error
\* string in the answer.
handleGetSnapshot(r) ==
    /\ requests[r].kind = "snapshot"
    /\ Waited(r, {"endpoint", "key"})
    /\ Answered(r, "page")
    /\ UNCHANGED <<host, PublicEndpoint, ec2Once, ec2OK, probeFailed>>

\* Without endpoint or key a 503; with them the handler goes on to the VPC's
\* CIDR.
ConfigGet(r) ==
    /\ requests[r].kind = "config"
    /\ requests[r].task["vpc"] = "off"
    /\ Waited(r, {"endpoint", "key"})
    /\ IF GetFailed(r) THEN Answered(r, "error") ELSE Becomes(r, "vpc", "ready")
    /\ UNCHANGED <<host, PublicEndpoint, ec2Once, ec2OK, probeFailed>>

\* With the CIDR: its resolver, and a route to the VPC in a split tunnel (a
\* CIDR without an IPv4 base is a 500); without, the configured resolver and
\* the overlay alone.
handleGetClientConfig(r) ==
    /\ requests[r].kind = "config"
    /\ Waited(r, {"vpc"})
    /\ \/ requests[r].task["vpc"] = "imds"
          /\ \E a \in {"vpc_config", "error"} : Answered(r, a)
       \/ requests[r].task["vpc"] # "imds" /\ Answered(r, "plain_config")
    /\ UNCHANGED <<host, PublicEndpoint, ec2Once, ec2OK, probeFailed>>

\* The slot is used again.
Leaves(r) ==
    /\ requests[r].answer # "none"
    /\ requests' = [requests EXCEPT ![r] = NoRequest]
    /\ UNCHANGED <<host, PublicEndpoint, ec2Once, ec2OK, probeFailed>>

\* A new process: the verdict is open again.
InfoRestart ==
    /\ ec2Once' = "new"
    /\ ec2OK' = FALSE
    /\ requests' = [r \in Request |-> NoRequest]
    /\ probeFailed' = FALSE
    /\ UNCHANGED <<host, PublicEndpoint>>

Goroutine(r, t) ==
    \/ onEC2(r, t)
    \/ defaultEC2Probe(r, t)
    \/ EC2Only(r, t)
    \/ metadata(r, t)

Handling(r) ==
    \/ \E t \in Task : Goroutine(r, t)
    \/ resolvePublicIP(r)
    \/ echo(r)
    \/ fetchServerPublicKey(r)
    \/ handleGetPartialAbout(r)
    \/ handleGetServer(r)
    \/ handleGetSnapshot(r)
    \/ ConfigGet(r)
    \/ handleGetClientConfig(r)

InfoNext ==
    \/ \E r \in Request :
          \/ \E k \in Kind \ {"none"} : Arrives(r, k)
          \/ Handling(r)
          \/ Leaves(r)
    \/ InfoRestart

InfoSpec == InfoInit /\ [][InfoNext]_infoVars

-----------------------------------------------------------------------------
Results(r) == {requests[r].task[t] : t \in Task}

\* One verdict for everybody: no two goroutines, of one page or of two
\* requests, disagree whether this is EC2, so a page never says "not on EC2"
\* next to values read from EC2, nor offers an echoed address for an
\* endpoint while the card shows another one from IMDS.
OneVerdict ==
    \A r, q \in Request :
        "imds" \in Results(r) => {"not_on_ec2", "echo"} \cap Results(q) = {}

\* A configuration that is handed out has an endpoint and a key, mentions
\* the VPC only on EC2, and on EC2 goes without the VPC's resolver and route
\* only after the probe or the metadata read failed (the handler's fallback
\* is meant for hosts off AWS).
ConfigTruthful ==
    \A r \in Request :
        requests[r].answer \in {"vpc_config", "plain_config"} =>
            /\ requests[r].task["endpoint"] \in {"override", "imds", "echo"}
            /\ requests[r].task["key"] = "wg"
            /\ requests[r].answer = "vpc_config" => host = "ec2"
            /\ requests[r].answer = "plain_config" =>
                  \/ host = "other"
                  \/ probeFailed
                  \/ requests[r].task["vpc"] = "failed"

\* Nobody waits for ever: while the verdict is out, exactly one goroutine is
\* inside the probe, whose deadline releases all the others, and the handlers
\* wait for nothing but goroutines that were started.
NobodyStranded ==
    LET probing == {x \in Request \X Task :
                        requests[x[1]].task[x[2]] = "probing"}
    IN  /\ ec2Once = "running" => probing # {}
        /\ \A x, y \in probing : x = y
        /\ \A r \in Request :
              requests[r].kind # "none" => "off" \notin
                  {requests[r].task["endpoint"], requests[r].task["key"]}
=============================================================================
