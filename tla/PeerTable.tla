------------------------------ MODULE PeerTable ------------------------------
(***************************************************************************)
(* The clients table of the dashboard and the pure rules around it: the    *)
(* UNIQUE columns (internal/db), address allocation and validation         *)
(* (internal/clients), the projections of a row to a WireGuard peer        *)
(* (internal/wgsync, internal/wgconfig) and to an entry of the S3 backup   *)
(* (internal/clientstore), and the outcome of the transaction that         *)
(* replaces the whole table.                                               *)
(*                                                                         *)
(* A table is a set of rows.  The surrogate id, the note and the two       *)
(* timestamps of a row are left out: no rule below reads them.  Addresses  *)
(* are the host numbers Network..Broadcast of the server's subnet.         *)
(***************************************************************************)
EXTENDS Naturals, FiniteSets, Functions

CONSTANTS
    Name,       \* client names that pass ValidateName
    Key,        \* public keys that pass ValidatePublicKey
    Network,    \* first address of the server's subnet
    Broadcast,  \* last address of the server's subnet
    ServerIP    \* the server's own address inside it

ASSUME SubnetAssumption ==
    /\ Network \in Nat
    /\ Broadcast \in Nat
    /\ ServerIP \in Nat

\* net.IPNet.Contains: the addresses ValidateAddress accepts.
Subnet == Network .. Broadcast

Row == [name : Name, key : Key, addr : Subnet, enabled : BOOLEAN]

\* One entry of the boot manifest or of the S3 object.
Entry == [name : Name, key : Key, addr : Subnet]

\* One peer of wg0.conf or of the running interface: a public key and its
\* AllowedIPs.
Peer == [key : Key, addr : Subnet]

Names(rows) == {r.name : r \in rows}
Keys(rows)  == {r.key  : r \in rows}
Addrs(rows) == {r.addr : r \in rows}

-----------------------------------------------------------------------------
(* The schema's UNIQUE columns. *)

Disjoint(r, s) == r.name # s.name /\ r.key # s.key /\ r.addr # s.addr

UniqueTable(rows) == \A r, s \in rows : r # s => Disjoint(r, s)

\* What a set of peers must satisfy to be configured unambiguously: one
\* stanza per key, and no address routed to two keys.
UniquePeers(peers) ==
    \A p, q \in peers : p # q => p.key # q.key /\ p.addr # q.addr

-----------------------------------------------------------------------------
(* Address allocation and validation. *)

\* The hosts AllocateAddress may hand out: strictly between the network and
\* the broadcast address, not the server, not used.
FreeHosts(used) ==
    {h \in Subnet : /\ Network < h
                    /\ h < Broadcast
                    /\ h # ServerIP
                    /\ h \notin used}

\* AllocateAddress returns a.  No a satisfies this when the subnet is
\* exhausted (ErrSubnetExhausted).
Allocates(a, used) ==
    /\ a \in FreeHosts(used)
    /\ \A h \in FreeHosts(used) : a <= h

\* ValidateOverride accepts a.  Unlike the allocator it lets the network and
\* the broadcast address through.
OverrideOK(a, used) ==
    /\ a \in Subnet
    /\ a # ServerIP
    /\ a \notin used

\* validateSet accepts a bulk payload.  It checks the entries against the
\* subnet and against each other, not against the server's address.
ValidSet(entries) ==
    /\ \A e \in entries : e.addr \in Subnet
    /\ UniqueTable(entries)

-----------------------------------------------------------------------------
(* Projections. *)

EntryOf(r) == [name |-> r.name, key |-> r.key, addr |-> r.addr]

\* Mutant: AllowedIPs off by one.
MutantPeerOf(r) == [key |-> r.key, addr |-> r.addr + 1]

PeerOf(r) == [key |-> r.key, addr |-> r.addr]

\* Mutant: the backup, like the interface, holds enabled rows only.
MutantEntries(rows) == {EntryOf(r) : r \in {x \in rows : x.enabled}}

\* The list saveStoreLocked hands to Store.Save.
Entries(rows) == {EntryOf(r) : r \in rows}

\* Mutant: the renderer does not look at the enabled flag.
MutantPeers(rows) == {PeerOf(r) : r \in rows}

\* The stanzas Applier.Apply renders: enabled rows only.
Peers(rows) == {PeerOf(r) : r \in {x \in rows : x.enabled}}

\* Seed and ReplaceAll stamp every row enabled.
EnabledRow(e) == [name |-> e.name, key |-> e.key, addr |-> e.addr,
                  enabled |-> TRUE]

EnabledRows(entries) == {EnabledRow(e) : e \in entries}

-----------------------------------------------------------------------------
(* db.ReplaceClients: deletes, then updates, then inserts, in one            *)
(* transaction.  The updates run in Go map order, and SQLite checks the      *)
(* UNIQUE columns after each statement.                                      *)

\* The rows left after the deletes whose key is wanted with other values:
\* the ones an UPDATE statement rewrites.
Stale(cur, want) ==
    {r \in cur : r.key \in Keys(want) /\ r \notin want}

UpdateOrders(cur, want) ==
    Bijection(1 .. Cardinality(Stale(cur, want)), Stale(cur, want))

\* The table after the deletes and the first i updates.
AfterUpdates(cur, want, order, i) ==
    LET done == {order[j] : j \in 1 .. i}
        kept == {r \in cur : r.key \in Keys(want)}
    IN  (kept \ done) \cup {w \in want : w.key \in Keys(done)}

\* Mutant: the constraints are checked once, at the commit.
MutantReplaceCommits(cur, want, order) == UniqueTable(want)

\* Every statement of the transaction satisfies the UNIQUE columns; the
\* inserts, which complete the table to want, always do once want is valid.
ReplaceCommits(cur, want, order) ==
    \A i \in 1 .. Cardinality(Stale(cur, want)) :
        UniqueTable(AfterUpdates(cur, want, order, i))
=============================================================================
