---------------------------- MODULE ClientService ----------------------------
(***************************************************************************)
(* clients.Service: the orchestration of every peer mutation and of the    *)
(* boot reconcile.  A mutation commits to the SQLite table, is applied to  *)
(* wg0.conf and to the running interface through the wg-sync helper, and   *)
(* in cloud mode is written through to the S3 backup.  Each of these is a  *)
(* step of its own, because the process, the host, the helper, the request *)
(* context and S3 can all fail between two of them.                        *)
(*                                                                         *)
(* Service.mu serialises mutations, so at most one is in flight; pc is the *)
(* step its holder (or the boot sequence of main.go) has reached.          *)
(* Validation failures return before any write and are stuttering steps.   *)
(***************************************************************************)
EXTENDS PeerTable, Sequences

CONSTANTS
    Seed,       \* the boot manifest clients.json, a sequence of entries
    Cloud,      \* CLIENT_MANAGEMENT_MODE = "cloud"
    Faults      \* the failures the environment may produce

FaultKinds == {"apply",    \* staging, wg-sync or wg syncconf fails
               "cancel",   \* a request's context ends between two steps
               "db",       \* a manifest read, a seed insert or a restore fails
               "outage",   \* S3 or the aws CLI is unreachable for a while
               "lost",     \* S3 stores an object, the boot's aws CLI fails
               "crash",    \* the dashboard process dies
               "reboot",   \* the host reboots
               "rebuild"}  \* the instance is replaced; only S3 survives

ASSUME ModeAssumption == Cloud \in BOOLEAN /\ Faults \subseteq FaultKinds

\* The manifest is what Terraform or the installer rendered: valid entries,
\* none of them on the server's own address.
ASSUME SeedAssumption ==
    /\ Seed \in Seq(Entry)
    /\ \A i, j \in DOMAIN Seed : i # j => Disjoint(Seed[i], Seed[j])
    /\ \A i \in DOMAIN Seed : Seed[i].addr # ServerIP

VARIABLES
    db,             \* the clients table (SQLite, survives a restart)
    conf,           \* the peers of /etc/wireguard/wg0.conf
    kernel,         \* the peers of the running wg0 interface
    s3,             \* entries of the S3 object, {} if it does not exist:
                    \* every reader treats the two alike
    storeUp,        \* S3 answers
    storeReady,     \* Service.storeReady
    pc,             \* step of the mutex holder or of the boot sequence
    cont,           \* what follows a successful applyLocked
    op,             \* what the mutation in flight does, by key
    reply,          \* what the last mutation or boot reconcile returned
    seed,           \* the manifest main.go loaded at this boot
    pendingDelete,  \* DELETE handlers between their check and the mutex
    \* history, read by properties only:
    seen,           \* this process has had an answer to a store Load
    wanted,         \* keys acknowledged to the operator and not removed since
    gone,           \* keys whose removal the operator committed
    revoked,        \* keys whose removal was acknowledged to the operator
    disabled        \* keys whose disabling was acknowledged to the operator

data    == <<db, conf, kernel, s3>>
control == <<storeUp, storeReady, pc, cont, op, reply, seed, pendingDelete>>
told    == <<wanted, gone, revoked, disabled>>
history == <<seen, told>>
vars    == <<data, control, history>>

-----------------------------------------------------------------------------
\* The keys a mutation adds, removes, lets connect and keeps from connecting.
Effect == [add : SUBSET Key, del : SUBSET Key,
           on : SUBSET Key, off : SUBSET Key]

NoOp == [add |-> {}, del |-> {}, on |-> {}, off |-> {}]

Steps == {"down", "load", "heal", "coldsave", "seed", "replace",
          "stage", "merge", "sync", "save", "put", "idle"}

Conts == {"none", "local", "cold", "hard", "replace", "save", "toggle"}

SeedEntries(s) == {s[i] : i \in DOMAIN s}

TypeOK ==
    /\ db \in SUBSET Row
    /\ conf \in SUBSET Peer
    /\ kernel \in SUBSET Peer
    /\ s3 \in SUBSET Entry
    /\ storeUp \in BOOLEAN
    /\ storeReady \in BOOLEAN
    /\ pc \in Steps
    /\ cont \in Conts
    /\ op \in Effect
    /\ reply \in {"none", "ok", "healed", "error"}
    /\ seed \in {Seed, << >>}
    /\ pendingDelete \in SUBSET Name
    /\ seen \in BOOLEAN
    /\ wanted \in SUBSET Key
    /\ gone \in SUBSET Key
    /\ revoked \in SUBSET Key
    /\ disabled \in SUBSET Key

\* A fresh host: install.sh has written the manifest's peers to wg0.conf and
\* brought the interface up; the dashboard has never run.
Init ==
    /\ db = {}
    /\ conf = Peers(EnabledRows(SeedEntries(Seed)))
    /\ kernel = conf
    /\ s3 = {}
    /\ storeUp = TRUE
    /\ storeReady = TRUE
    /\ pc = "down"
    /\ cont = "none"
    /\ op = NoOp
    /\ reply = "none"
    /\ seed = << >>
    /\ pendingDelete = {}
    /\ seen = FALSE
    /\ wanted = {} /\ gone = {} /\ revoked = {} /\ disabled = {}

-----------------------------------------------------------------------------
(* How a mutation or a boot ends. *)

\* The mutex is released with the given result; on success the operator has
\* been told of the mutation's effect.
Finish(result) ==
    /\ pc' = "idle"
    /\ reply' = result
    /\ cont' = "none"
    /\ seed' = << >>
    /\ op' = NoOp
    /\ wanted' = IF result = "ok" THEN wanted \cup op.add ELSE wanted
    /\ revoked' = IF result = "ok" THEN revoked \cup op.del ELSE revoked
    /\ disabled' = IF result = "ok" THEN disabled \cup op.off ELSE disabled
    /\ UNCHANGED gone

\* The mutation's table write has committed.
Commit(effect, next) ==
    /\ pc' = "stage"
    /\ cont' = next
    /\ UNCHANGED <<reply, seed>>
    /\ op' = effect
    /\ wanted' = wanted \ effect.del
    /\ gone' = (gone \cup effect.del) \ effect.add
    /\ revoked' = revoked \ effect.add
    /\ disabled' = disabled \ (effect.on \cup effect.del)

\* The same goroutine goes on to another step, with what it has to do after
\* applyLocked.
GotoWith(step, next) ==
    /\ pc' = step
    /\ cont' = next
    /\ UNCHANGED <<op, reply, seed, told>>

Goto(step) == GotoWith(step, cont)

-----------------------------------------------------------------------------
(* Mutations. *)

\* Service.Add with an explicit address (a # Auto) or an allocated one.
AddressFor(a, auto, used) ==
    IF auto THEN Allocates(a, used) ELSE OverrideOK(a, used)

Add(n, k, a, auto) ==
    /\ pc = "idle"
    /\ n \notin Names(db)
    /\ k \notin Keys(db)
    /\ AddressFor(a, auto, Addrs(db))
    /\ db' = db \cup {[name |-> n, key |-> k, addr |-> a, enabled |-> TRUE]}
    /\ Commit([NoOp EXCEPT !.add = {k}, !.on = {k}], "save")
    /\ UNCHANGED <<conf, kernel, s3, storeUp, storeReady, pendingDelete,
                   seen>>

\* Mutant: a new address is checked against the subnet only.
MutantUpdateOK(from, to) ==
    LET others == db \ {from} IN
    /\ to.name # from.name => to.name \notin Names(others)
    /\ to.key  # from.key  => to.key  \notin Keys(others)
    /\ to.addr # from.addr => OverrideOK(to.addr, {})

\* Service.Update: the row becomes "to"; canonical says that the request
\* carried a name, a key or an address, changed or not.
UpdateOK(from, to) ==
    LET others == db \ {from} IN
    /\ to.name # from.name => to.name \notin Names(others)
    /\ to.key  # from.key  => to.key  \notin Keys(others)
    /\ to.addr # from.addr => OverrideOK(to.addr, Addrs(others))

Update(from, to, canonical) ==
    /\ pc = "idle"
    /\ from \in db
    /\ UpdateOK(from, to)
    /\ EntryOf(to) # EntryOf(from) => canonical
    /\ db' = (db \ {from}) \cup {to}
    /\ Commit([add |-> IF canonical THEN {to.key} ELSE {},
               del |-> {from.key} \ {to.key},
               on  |-> IF to.enabled THEN {to.key} ELSE {},
               off |-> IF to.enabled THEN {} ELSE {to.key}],
              IF canonical THEN "save" ELSE "toggle")
    /\ UNCHANGED <<conf, kernel, s3, storeUp, storeReady, pendingDelete,
                   seen>>

\* The HTTP server listens once the boot reconcile has returned.
Serving ==
    \/ pc = "idle"
    \/ /\ pc \in {"stage", "merge", "sync", "save", "put"}
       /\ cont \in {"save", "toggle"}

\* handleDeleteClient lists the table without the mutex ...
DeleteCheck(n) ==
    /\ Serving
    /\ n \in Names(db) \ pendingDelete
    /\ pendingDelete' = pendingDelete \cup {n}
    /\ UNCHANGED <<data, storeUp, storeReady, pc, cont, op, reply, seed,
                   history>>

\* ... and calls Service.Delete, which removes whatever row carries the name
\* by then, if any, and applies and saves in either case.
Delete(n) ==
    /\ pc = "idle"
    /\ n \in pendingDelete
    /\ pendingDelete' = pendingDelete \ {n}
    /\ db' = {r \in db : r.name # n}
    /\ Commit([NoOp EXCEPT !.del = Keys({r \in db : r.name = n})], "save")
    /\ UNCHANGED <<conf, kernel, s3, storeUp, storeReady, seen>>

-----------------------------------------------------------------------------
(* applyLocked: Applier.Apply stages the fragment, the wg-sync helper        *)
(* merges it into wg0.conf and then loads wg0.conf into the interface.       *)

\* Mutant: the helper's error is logged and swallowed.
MutantApplyFails ==
    /\ UNCHANGED storeReady
    /\ Finish("ok")

\* applyLocked returns an error: a boot restore or cold seed also gives up
\* on the store.
ApplyFails ==
    /\ storeReady' = (storeReady /\ cont \notin {"replace", "cold"})
    /\ Finish("error")

Stage ==
    /\ pc = "stage"
    /\ \/ /\ Goto("merge")
          /\ UNCHANGED storeReady
       \/ /\ "apply" \in Faults \/ "cancel" \in Faults
          /\ ApplyFails
    /\ UNCHANGED <<data, storeUp, pendingDelete, seen>>

\* Mutant: the helper appends the new stanzas and keeps the old ones.
MutantMerge ==
    /\ pc = "merge"
    /\ conf' = conf \cup Peers(db)
    /\ Goto("sync")
    /\ UNCHANGED <<db, kernel, s3, storeUp, storeReady, pendingDelete, seen>>

Merge ==
    /\ pc = "merge"
    /\ \/ /\ conf' = Peers(db)
          /\ Goto("sync")
          /\ UNCHANGED storeReady
       \/ /\ "apply" \in Faults
          /\ ApplyFails
          /\ UNCHANGED conf
    /\ UNCHANGED <<db, kernel, s3, storeUp, pendingDelete, seen>>

\* What the caller of applyLocked does next.
AfterApply ==
    \/ /\ cont \in {"save", "replace"}
       /\ Goto("save")
       /\ UNCHANGED storeReady
    \/ /\ cont \in {"toggle", "local"}
       /\ Finish("ok")
       /\ UNCHANGED storeReady
    \/ /\ cont = "cold"
       /\ Finish("ok")
       /\ storeReady' = TRUE
    \/ /\ cont = "hard"
       /\ Finish("error")
       /\ UNCHANGED storeReady

\* The context cannot kill the helper, which runs as root: a request that
\* ends meanwhile gets an error for a change that is live.
Sync ==
    /\ pc = "sync"
    /\ \/ /\ kernel' = conf
          /\ AfterApply
       \/ /\ "cancel" \in Faults
          /\ kernel' = conf
          /\ ApplyFails
       \/ /\ "apply" \in Faults
          /\ ApplyFails
          /\ UNCHANGED kernel
    /\ UNCHANGED <<db, conf, s3, storeUp, pendingDelete, seen>>

-----------------------------------------------------------------------------
(* saveStoreLocked and the heal probe.  A request whose context has ended    *)
(* fails a call of the store even while S3 answers.                          *)

\* Mutant: an error of the probe also marks the store ready.
MutantBlindProbe ==
    /\ storeReady' = TRUE
    /\ seen' = (seen \/ (~storeReady /\ storeUp))

\* Mutant: a missing object counts as an error of the probe.
MutantStrictProbe ==
    /\ storeReady' = (storeReady \/ (storeUp /\ s3 # {}))
    /\ seen' = (seen \/ (~storeReady /\ storeUp))

\* attemptStoreHealLocked: any answer to Load, its content unread, makes the
\* store ready again.
HealProbe ==
    /\ storeReady' = (storeReady \/ storeUp)
    /\ seen' = (seen \/ (~storeReady /\ storeUp))

Save ==
    /\ pc = "save"
    /\ \/ /\ Cloud
          /\ HealProbe
          /\ IF storeReady' THEN Goto("put") ELSE Finish("ok")
       \/ /\ Cloud
          /\ ~storeReady /\ "cancel" \in Faults
          /\ Finish("ok")
          /\ UNCHANGED <<storeReady, seen>>
       \/ /\ ~Cloud
          /\ Finish("ok")
          /\ UNCHANGED <<storeReady, seen>>
    /\ UNCHANGED <<data, storeUp, pendingDelete>>

\* Mutant: the saved list is merged into the stored one.
MutantPut ==
    /\ pc = "put"
    /\ s3' = IF storeUp THEN s3 \cup Entries(db) ELSE s3
    /\ Finish("ok")
    /\ storeReady' = (storeReady \/ cont = "replace")
    /\ UNCHANGED <<db, conf, kernel, storeUp, pendingDelete, seen>>

\* Store.Save; its failure is logged and the mutation still succeeds, so a
\* write whose answer is lost ends like one that is answered.  Only the table
\* read before it can fail the mutation.
Put ==
    /\ pc = "put"
    /\ \/ /\ storeUp
          /\ s3' = Entries(db)
          /\ Finish("ok")
          /\ storeReady' = (storeReady \/ cont = "replace")
       \/ /\ ~storeUp \/ "cancel" \in Faults
          /\ Finish("ok")
          /\ storeReady' = (storeReady \/ cont = "replace")
          /\ UNCHANGED s3
       \/ /\ "cancel" \in Faults
          /\ Finish("error")
          /\ storeReady' = (storeReady /\ cont # "replace")
          /\ UNCHANGED s3
    /\ UNCHANGED <<db, conf, kernel, storeUp, pendingDelete, seen>>

\* RecheckStore, from the poller's hourly retention tick.  The poller starts
\* before the boot reconcile, which holds the mutex only inside Seed,
\* ReplaceAll and Reconcile.
RecheckStore ==
    /\ Cloud
    /\ pc \in {"load", "heal", "coldsave", "seed", "replace", "idle"}
    /\ ~storeReady
    /\ storeUp
    /\ HealProbe
    /\ UNCHANGED <<data, storeUp, pc, cont, op, reply, seed, pendingDelete,
                   told>>

-----------------------------------------------------------------------------
(* Boot: main.go, then Seed + Reconcile (local) or ReconcileFromStore        *)
(* (cloud).                                                                  *)

Start ==
    /\ pc = "down"
    /\ seed' \in (IF "db" \in Faults THEN {Seed, << >>} ELSE {Seed})
    /\ pc' = IF Cloud THEN "load" ELSE "seed"
    /\ cont' = IF Cloud THEN "none" ELSE "local"
    /\ UNCHANGED <<data, storeUp, storeReady, op, reply, pendingDelete,
                   history>>

\* A hard Load error: the store is not trusted, and an empty table is seeded
\* from the manifest.
LoadFails ==
    /\ pc = "load"
    /\ ~storeUp
    /\ storeReady' = FALSE
    /\ \/ /\ db = {}
          /\ GotoWith("seed", "hard")
       \/ /\ db # {}
          /\ Finish("error")
    /\ UNCHANGED <<data, storeUp, pendingDelete, seen>>

\* Mutant: an empty table is always seeded, whatever the store holds.
MutantLoadAnswers ==
    /\ pc = "load"
    /\ storeUp
    /\ seen' = TRUE
    /\ Goto(IF db = {} THEN "coldsave"
            ELSE IF s3 # {} THEN "replace" ELSE "heal")
    /\ UNCHANGED <<data, storeUp, storeReady, pendingDelete>>

\* Load answers: a missing or empty object is never authoritative.
LoadAnswers ==
    /\ pc = "load"
    /\ storeUp
    /\ seen' = TRUE
    /\ Goto(IF s3 # {} THEN "replace"
            ELSE IF db # {} THEN "heal" ELSE "coldsave")
    /\ UNCHANGED <<data, storeUp, storeReady, pendingDelete>>

\* The boot's own Save fails; if only its answer was lost, S3 has the entries.
BootSaveFails(entries) ==
    /\ \/ ~storeUp /\ UNCHANGED s3
       \/ storeUp /\ "lost" \in Faults /\ s3' = entries
    /\ storeReady' = FALSE
    /\ Finish("error")

\* reconcileFromEmptyStore with rows in the table: the table heals the store.
HealStore ==
    /\ pc = "heal"
    /\ \/ /\ storeUp
          /\ s3' = Entries(db)
          /\ storeReady' = TRUE
          /\ Finish("healed")
       \/ BootSaveFails(Entries(db))
    /\ UNCHANGED <<db, conf, kernel, storeUp, pendingDelete, seen>>

\* reconcileFromEmptyStore with an empty table: the manifest is saved first.
ColdSave ==
    /\ pc = "coldsave"
    /\ \/ /\ storeUp
          /\ s3' = SeedEntries(seed)
          /\ GotoWith("seed", "cold")
          /\ UNCHANGED storeReady
       \/ BootSaveFails(SeedEntries(seed))
    /\ UNCHANGED <<db, conf, kernel, storeUp, pendingDelete, seen>>

\* The rows Seed leaves in an empty table: the first n of the manifest, all
\* of them unless an insert fails.  There is no transaction around the loop.
SeededRows(n) == EnabledRows({seed[i] : i \in 1 .. n})

\* Mutant: every boot imports the manifest.
MutantSeeded(n) == SeededRows(n)

\* Seed does nothing once the table has a row.
Seeded(n) == IF db = {} THEN SeededRows(n) ELSE db

SeedTable ==
    /\ pc = "seed"
    /\ \E n \in 0 .. Len(seed) :
          /\ db = {} /\ "db" \notin Faults => n = Len(seed)
          /\ db # {} => n = Len(seed)
          /\ db' = Seeded(n)
          /\ \/ /\ n = Len(seed) \/ cont = "local"
                /\ Goto("stage")
                /\ UNCHANGED storeReady
             \/ /\ n < Len(seed) /\ cont # "local"
                /\ Finish("error")
                /\ storeReady' = (storeReady /\ cont # "cold")
    /\ UNCHANGED <<conf, kernel, s3, storeUp, pendingDelete, seen>>

\* ReplaceAll with a non-empty stored list: validate, then the transaction,
\* which a constraint or the database may fail.
ReplaceAll ==
    /\ pc = "replace"
    /\ LET want == EnabledRows(s3) IN
       \E order \in UpdateOrders(db, want) :
          \/ /\ ValidSet(s3) /\ ReplaceCommits(db, want, order)
             /\ db' = want
             /\ GotoWith("stage", "replace")
             /\ UNCHANGED storeReady
          \/ /\ \/ ~(ValidSet(s3) /\ ReplaceCommits(db, want, order))
                \/ "db" \in Faults
             /\ Finish("error")
             /\ storeReady' = FALSE
             /\ UNCHANGED db
    /\ UNCHANGED <<conf, kernel, s3, storeUp, pendingDelete, seen>>

-----------------------------------------------------------------------------
(* The environment. *)

\* Everything the process kept in memory is lost.
ProcessGone ==
    /\ pc' = "down"
    /\ cont' = "none"
    /\ op' = NoOp
    /\ reply' = "none"
    /\ seed' = << >>
    /\ storeReady' = TRUE
    /\ seen' = FALSE
    /\ pendingDelete' = {}

\* What a stop in the middle of the merge leaves in wg0.conf: the helper
\* installs the new file over the old one, so a beginning of it, or none.
Torn == IF pc = "merge" THEN {conf} \cup SUBSET Peers(db) ELSE {conf}

Crash ==
    /\ "crash" \in Faults
    /\ pc # "down"
    /\ ProcessGone
    /\ conf' \in Torn
    /\ UNCHANGED <<db, kernel, s3, storeUp, told>>

\* wg-quick@wg0 brings the interface up from wg0.conf.
HostReboot ==
    /\ "reboot" \in Faults
    /\ ProcessGone
    /\ conf' \in Torn
    /\ kernel' = conf'
    /\ UNCHANGED <<db, s3, storeUp, told>>

\* A replacement instance: user-data runs install.sh on an empty disk.
Rebuild ==
    /\ "rebuild" \in Faults
    /\ Cloud
    /\ ProcessGone
    /\ db' = {}
    /\ conf' = Peers(EnabledRows(SeedEntries(Seed)))
    /\ kernel' = conf'
    /\ UNCHANGED <<s3, storeUp, told>>

StoreToggles ==
    /\ "outage" \in Faults
    /\ storeUp' = ~storeUp
    /\ UNCHANGED <<data, storeReady, pc, cont, op, reply, seed,
                   pendingDelete, history>>

-----------------------------------------------------------------------------
\* The steps the process takes by itself once started.
Step ==
    \/ Stage \/ Merge \/ Sync \/ Save \/ Put
    \/ LoadFails \/ LoadAnswers \/ HealStore \/ ColdSave \/ SeedTable
    \/ ReplaceAll

Mutation ==
    \/ \E n \in Name, k \in Key, a \in Subnet, auto \in BOOLEAN :
          Add(n, k, a, auto)
    \/ \E from \in db, to \in Row, canonical \in BOOLEAN :
          Update(from, to, canonical)
    \/ \E n \in Name : DeleteCheck(n) \/ Delete(n)

Environment == Crash \/ HostReboot \/ Rebuild \/ StoreToggles

Next == Start \/ Step \/ Mutation \/ RecheckStore \/ Environment

Spec == Init /\ [][Next]_vars

\* A started process keeps running its own steps, systemd starts the unit at
\* boot and restarts it on failure, and the retention ticker, which waits
\* for the mutex in FIFO order, is not starved by a stream of mutations.
FairSpec ==
    Spec /\ WF_vars(Step) /\ WF_vars(Start) /\ SF_vars(RecheckStore)

-----------------------------------------------------------------------------
(* Properties. *)

SeedKeys == Keys(SeedEntries(Seed))

\* No two rows, stored entries or configured peers share a name, a key or an
\* address, and none of them is ever given the server's own address, through
\* every mutation, restore, failed apply and restart: what is live or stored
\* is always a snapshot of one valid table.
AddressSafety ==
    /\ UniqueTable(db)
    /\ UniqueTable(s3)
    /\ UniquePeers(conf) /\ UniquePeers(kernel)
    /\ ServerIP \notin Addrs(db) \cup Addrs(s3)
    /\ ServerIP \notin Addrs(conf) \cup Addrs(kernel)

\* A mutation or boot reconcile that returned success after applying has
\* left wg0.conf and the interface with exactly the enabled rows.
LiveMatchesTable ==
    pc = "idle" /\ reply = "ok" => conf = Peers(db) /\ kernel = conf

\* A client the operator was told is configured stays in the table until the
\* operator removes it, across crashes, reboots and instance replacement.
AckedSurvives == pc = "idle" => wanted \subseteq Keys(db)

\* A client whose removal was acknowledged is in no table, configuration or
\* interface again until it is added again; only manifest keys are exempt.
RevokedStaysOut ==
    (revoked \ SeedKeys) \cap (Keys(db) \cup Keys(conf) \cup Keys(kernel)) = {}

\* A client whose disabling was acknowledged is not in wg0.conf or on the
\* interface until the operator enables, replaces or removes it, whatever
\* fails or restarts meanwhile; in local mode the table keeps the flag.
DisabledStaysOut == disabled \cap (Keys(conf) \cup Keys(kernel)) = {}

\* The manifest's peer does not come back after an acknowledged removal.
AdminNotResurrected == pc = "idle" => revoked \cap Keys(db) = {}

\* The S3 object is written only by a process that has had an answer from
\* the store: an object a hard error kept it from reading is not overwritten
\* blindly.
WrittenOnlyAfterRead == [][s3' # s3 => seen']_vars

\* The backup loses a peer only if the operator removed that peer.
BackupKeepsPeers == [][Keys(s3) \ Keys(s3') \subseteq gone']_vars

\* A store latched offline at boot is trusted again once S3 answers for good,
\* with or without further mutations.
StoreHeals == <>[](storeUp /\ pc # "down") => <>[]storeReady
=============================================================================
