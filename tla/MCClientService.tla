--------------------------- MODULE MCClientService ---------------------------
(***************************************************************************)
(* Small instances of ClientService.  The subnet is a /30 (addresses 0..3, *)
(* the server on 1): the allocator has one host, overrides reach the       *)
(* network and broadcast addresses too.                                    *)
(*                                                                         *)
(* The state space of the service is finite, but large in cloud mode; the  *)
(* bounded specifications below limit how many mutations commit and how    *)
(* often the environment intervenes in one behaviour.                      *)
(***************************************************************************)
EXTENDS ClientService, TLC

CONSTANTS
    admin, bob, ka, kb,
    MaxMutations,   \* bound on mutation and delete-check steps
    MaxEvents       \* bound on crashes, reboots, rebuilds and S3 outages

VARIABLES mutations, events

AdminSeed == <<[name |-> admin, key |-> ka, addr |-> 2]>>

EmptySeed == << >>

MCvars == <<vars, mutations, events>>

MCInit == Init /\ mutations = 0 /\ events = 0

MCNext ==
    \/ (Start \/ Step \/ RecheckStore) /\ UNCHANGED <<mutations, events>>
    \/ /\ mutations < MaxMutations
       /\ mutations' = mutations + 1
       /\ Mutation
       /\ UNCHANGED events
    \/ /\ events < MaxEvents
       /\ events' = events + 1
       /\ Environment
       /\ UNCHANGED mutations
    \/ pc = "idle" /\ UNCHANGED MCvars   \* no request arrives

MCSpec == MCInit /\ [][MCNext]_MCvars

MCFairSpec ==
    MCSpec /\ WF_vars(Step) /\ WF_vars(Start) /\ SF_vars(RecheckStore)
=============================================================================
