------------------------- MODULE ClientServiceProofs -------------------------
(***************************************************************************)
(* Proofs, for every set of names and keys, subnet, manifest, mode and     *)
(* combination of faults, about the specification of clients.Service.      *)
(***************************************************************************)
EXTENDS ClientService, FiniteSetTheorems, TLAPS

USE DEF told

-----------------------------------------------------------------------------
(* Projections of tables. *)

\* Rendering enabled rows to peers, rows to stored entries and entries to
\* enabled rows stays within the record types of PeerTable.
LEMMA ProjectionTypes ==
    /\ \A rows \in SUBSET Row : Peers(rows) \in SUBSET Peer
    /\ \A rows \in SUBSET Row : Entries(rows) \in SUBSET Entry
    /\ \A entries \in SUBSET Entry : EnabledRows(entries) \in SUBSET Row
<1>1. \A r \in Row : PeerOf(r) \in Peer /\ EntryOf(r) \in Entry
  BY DEF PeerOf, EntryOf, Row, Entry, Peer
<1>2. \A e \in Entry : EnabledRow(e) \in Row
  BY DEF EnabledRow, Row, Entry
<1>3. \A rows \in SUBSET Row : Peers(rows) \in SUBSET Peer
  BY <1>1 DEF Peers
<1>4. \A rows \in SUBSET Row : Entries(rows) \in SUBSET Entry
  BY <1>1 DEF Entries
<1>5. \A entries \in SUBSET Entry : EnabledRows(entries) \in SUBSET Row
  BY <1>2 DEF EnabledRows
<1> QED  BY <1>3, <1>4, <1>5

\* The manifest loaded at a boot is a sequence of valid entries, and so is
\* every prefix Seed inserts of it.
LEMMA SeedTypes ==
    ASSUME seed \in {Seed, << >>}
    PROVE  /\ seed \in Seq(Entry)
           /\ SeedEntries(seed) \in SUBSET Entry
           /\ \A n \in 0 .. Len(seed) : SeededRows(n) \in SUBSET Row
<1>1. seed \in Seq(Entry)
  <2>1. << >> \in Seq(Entry)
    OBVIOUS
  <2>2. Seed \in Seq(Entry)
    BY SeedAssumption
  <2> QED  BY <2>1, <2>2
<1>2. \A i \in DOMAIN seed : seed[i] \in Entry
  BY <1>1
<1>3. SeedEntries(seed) \in SUBSET Entry
  BY <1>2 DEF SeedEntries
<1>4. ASSUME NEW n \in 0 .. Len(seed)
      PROVE  SeededRows(n) \in SUBSET Row
  <2>1. {seed[i] : i \in 1 .. n} \in SUBSET Entry
    BY <1>1
  <2> QED  BY <2>1, ProjectionTypes DEF SeededRows
<1> QED  BY <1>1, <1>3, <1>4

\* The peers install.sh writes to wg0.conf.
LEMMA InstallTypes == Peers(EnabledRows(SeedEntries(Seed))) \in SUBSET Peer
<1>1. SeedEntries(Seed) \in SUBSET Entry
  <2>1. \A i \in DOMAIN Seed : Seed[i] \in Entry
    BY SeedAssumption
  <2> QED  BY <2>1 DEF SeedEntries
<1> QED  BY <1>1, ProjectionTypes

-----------------------------------------------------------------------------
(* Type correctness. *)

\* The ways a mutation or a boot can proceed keep the control variables they
\* assign in their types.
ControlTypes ==
    /\ pc \in Steps
    /\ cont \in Conts
    /\ op \in Effect
    /\ reply \in {"none", "ok", "healed", "error"}
    /\ seed \in {Seed, << >>}
    /\ wanted \in SUBSET Key
    /\ gone \in SUBSET Key
    /\ revoked \in SUBSET Key
    /\ disabled \in SUBSET Key

LEMMA FinishTypes ==
    ASSUME ControlTypes, NEW result \in {"ok", "healed", "error"},
           Finish(result)
    PROVE  ControlTypes'
  BY DEF ControlTypes, Finish, Steps, Conts, NoOp, Effect

LEMMA CommitTypes ==
    ASSUME ControlTypes, NEW effect \in Effect, NEW next \in Conts,
           Commit(effect, next)
    PROVE  ControlTypes'
  BY DEF ControlTypes, Commit, Steps, Effect

LEMMA GotoTypes ==
    ASSUME ControlTypes, NEW step \in Steps, NEW next \in Conts,
           GotoWith(step, next)
    PROVE  ControlTypes'
  BY DEF ControlTypes, GotoWith

LEMMA GoneTypes ==
    ASSUME ControlTypes, ProcessGone, UNCHANGED told
    PROVE  ControlTypes'
  BY DEF ControlTypes, ProcessGone, Steps, Conts, NoOp, Effect

LEMMA TypeInit == Init => TypeOK
<1> SUFFICES ASSUME Init PROVE TypeOK
  OBVIOUS
<1>1. conf \in SUBSET Peer /\ kernel \in SUBSET Peer
  BY InstallTypes DEF Init
<1> QED  BY <1>1 DEF Init, TypeOK, NoOp, Effect, Steps, Conts

LEMMA TypeStep == TypeOK /\ [Next]_vars => TypeOK'
<1> SUFFICES ASSUME TypeOK, [Next]_vars PROVE TypeOK'
  OBVIOUS
<1> USE ProjectionTypes
<1>0. ControlTypes
  BY DEF TypeOK, ControlTypes
<1>1. ASSUME ControlTypes',
             db' \in SUBSET Row, conf' \in SUBSET Peer,
             kernel' \in SUBSET Peer, s3' \in SUBSET Entry,
             storeUp' \in BOOLEAN, storeReady' \in BOOLEAN,
             seen' \in BOOLEAN, pendingDelete' \in SUBSET Name
      PROVE  TypeOK'
  BY <1>1 DEF TypeOK, ControlTypes
<1>2. ASSUME NEW n \in Name, NEW k \in Key, NEW a \in Subnet,
             NEW auto \in BOOLEAN, Add(n, k, a, auto)
      PROVE  TypeOK'
  <2>1. ControlTypes'
    <3>1. [NoOp EXCEPT !.add = {k}, !.on = {k}] \in Effect
      BY DEF NoOp, Effect
    <3> QED  BY <1>0, <1>2, <3>1, CommitTypes DEF Add, Conts
  <2>2. db' \in SUBSET Row
    <3>1. [name |-> n, key |-> k, addr |-> a, enabled |-> TRUE] \in Row
      BY DEF Row
    <3> QED  BY <1>2, <3>1 DEF Add, TypeOK
  <2> QED  BY <1>1, <1>2, <2>1, <2>2 DEF Add, TypeOK
<1>3. ASSUME NEW from \in db, NEW to \in Row, NEW canonical \in BOOLEAN,
             Update(from, to, canonical)
      PROVE  TypeOK'
  <2>1. from.key \in Key /\ to.key \in Key
    BY DEF TypeOK, Row
  <2>2. ControlTypes'
    <3> DEFINE effect == [add |-> IF canonical THEN {to.key} ELSE {},
                          del |-> {from.key} \ {to.key},
                          on  |-> IF to.enabled THEN {to.key} ELSE {},
                          off |-> IF to.enabled THEN {} ELSE {to.key}]
               next == IF canonical THEN "save" ELSE "toggle"
    <3>1. effect \in Effect
      BY <2>1 DEF Effect
    <3>2. Commit(effect, next) /\ next \in Conts
      BY <1>3 DEF Update, Conts
    <3> HIDE DEF effect, next
    <3> QED  BY <1>0, <3>1, <3>2, CommitTypes
  <2>3. db' \in SUBSET Row
    BY <1>3 DEF Update, TypeOK
  <2> QED  BY <1>1, <1>3, <2>2, <2>3 DEF Update, TypeOK
<1>4. ASSUME NEW n \in Name, DeleteCheck(n)
      PROVE  TypeOK'
  BY <1>4 DEF DeleteCheck, TypeOK, data, history
<1>5. ASSUME NEW n \in Name, Delete(n)
      PROVE  TypeOK'
  <2>1. [NoOp EXCEPT !.del = Keys({r \in db : r.name = n})] \in Effect
    BY DEF TypeOK, Row, Keys, NoOp, Effect
  <2>2. ControlTypes'
    BY <1>0, <1>5, <2>1, CommitTypes DEF Delete, Conts
  <2> QED  BY <1>1, <1>5, <2>2 DEF Delete, TypeOK
<1>6. ASSUME ApplyFails
      PROVE  ControlTypes' /\ storeReady' \in BOOLEAN
  BY <1>0, <1>6, FinishTypes DEF ApplyFails, TypeOK
<1>7. CASE Stage
  <2>1. ControlTypes' /\ storeReady' \in BOOLEAN
    BY <1>0, <1>6, <1>7, GotoTypes DEF Stage, Goto, Steps, TypeOK
  <2> QED  BY <1>1, <1>7, <2>1 DEF Stage, TypeOK, data
<1>8. CASE Merge
  <2>1. ControlTypes' /\ storeReady' \in BOOLEAN
    BY <1>0, <1>6, <1>8, GotoTypes DEF Merge, Goto, Steps, TypeOK
  <2>2. conf' \in SUBSET Peer
    BY <1>8 DEF Merge, TypeOK
  <2> QED  BY <1>1, <1>8, <2>1, <2>2 DEF Merge, TypeOK
<1>9. CASE Sync
  <2>1. ASSUME AfterApply
        PROVE  ControlTypes' /\ storeReady' \in BOOLEAN
    BY <1>0, <2>1, GotoTypes, FinishTypes DEF AfterApply, Goto, Steps, TypeOK
  <2>2. ControlTypes' /\ storeReady' \in BOOLEAN /\ kernel' \in SUBSET Peer
    BY <1>6, <1>9, <2>1 DEF Sync, TypeOK
  <2> QED  BY <1>1, <1>9, <2>2 DEF Sync, TypeOK
<1>10. CASE Save
  <2>1. ControlTypes'
    BY <1>0, <1>10, GotoTypes, FinishTypes DEF Save, Goto, Steps, TypeOK
  <2>2. storeReady' \in BOOLEAN /\ seen' \in BOOLEAN
    BY <1>10 DEF Save, HealProbe, TypeOK
  <2> QED  BY <1>1, <1>10, <2>1, <2>2 DEF Save, TypeOK, data
<1>11. CASE Put
  <2>1. ControlTypes'
    BY <1>0, <1>11, FinishTypes DEF Put
  <2>2. storeReady' \in BOOLEAN /\ s3' \in SUBSET Entry
    BY <1>11 DEF Put, TypeOK
  <2> QED  BY <1>1, <1>11, <2>1, <2>2 DEF Put, TypeOK
<1>12. CASE RecheckStore
  BY <1>12 DEF RecheckStore, HealProbe, TypeOK, data
<1>13. CASE Start
  BY <1>13 DEF Start, TypeOK, data, history, Steps, Conts
<1>14. CASE LoadFails
  <2>1. ControlTypes'
    BY <1>0, <1>14, GotoTypes, FinishTypes DEF LoadFails, Steps, Conts
  <2> QED  BY <1>1, <1>14, <2>1 DEF LoadFails, TypeOK, data
<1>15. CASE LoadAnswers
  <2>1. ControlTypes'
    BY <1>0, <1>15, GotoTypes DEF LoadAnswers, Goto, Steps, TypeOK
  <2> QED  BY <1>1, <1>15, <2>1 DEF LoadAnswers, TypeOK, data
<1>16. CASE HealStore
  <2>1. ControlTypes'
    BY <1>0, <1>16, FinishTypes DEF HealStore, BootSaveFails
  <2>2. s3' \in SUBSET Entry /\ storeReady' \in BOOLEAN
    BY <1>16 DEF HealStore, BootSaveFails, TypeOK
  <2> QED  BY <1>1, <1>16, <2>1, <2>2 DEF HealStore, TypeOK
<1>17. CASE ColdSave
  <2>1. ControlTypes'
    BY <1>0, <1>17, GotoTypes, FinishTypes DEF ColdSave, BootSaveFails, Steps, Conts
  <2>2. s3' \in SUBSET Entry /\ storeReady' \in BOOLEAN
    BY <1>17, SeedTypes DEF ColdSave, BootSaveFails, TypeOK
  <2> QED  BY <1>1, <1>17, <2>1, <2>2 DEF ColdSave, TypeOK
<1>18. CASE SeedTable
  <2>1. PICK n \in 0 .. Len(seed) :
           /\ db' = IF db = {} THEN SeededRows(n) ELSE db
           /\ \/ Goto("stage") /\ UNCHANGED storeReady
              \/ Finish("error") /\ storeReady' = (storeReady /\ cont # "cold")
    BY <1>18 DEF SeedTable, Seeded
  <2>2. ControlTypes' /\ storeReady' \in BOOLEAN
    BY <1>0, <2>1, GotoTypes, FinishTypes DEF Goto, Steps, TypeOK
  <2>3. db' \in SUBSET Row
    BY <2>1, SeedTypes DEF TypeOK
  <2> QED  BY <1>1, <1>18, <2>2, <2>3 DEF SeedTable, TypeOK
<1>19. CASE ReplaceAll
  <2>1. \/ /\ db' = EnabledRows(s3)
           /\ GotoWith("stage", "replace")
           /\ UNCHANGED storeReady
        \/ /\ Finish("error") /\ storeReady' = FALSE /\ UNCHANGED db
    BY <1>19 DEF ReplaceAll
  <2>2. ControlTypes' /\ storeReady' \in BOOLEAN
    BY <1>0, <2>1, GotoTypes, FinishTypes DEF Steps, Conts, TypeOK
  <2>3. db' \in SUBSET Row
    BY <2>1 DEF TypeOK
  <2> QED  BY <1>1, <1>19, <2>2, <2>3 DEF ReplaceAll, TypeOK
<1>20. CASE Environment
  <2>1. ASSUME ProcessGone
        PROVE  storeReady' \in BOOLEAN /\ seen' \in BOOLEAN
               /\ pendingDelete' \in SUBSET Name
    BY <2>1 DEF ProcessGone
  <2>6. Torn \in SUBSET SUBSET Peer
    BY DEF Torn, TypeOK
  <2>2. CASE Crash
    BY <1>0, <1>1, <2>1, <2>2, <2>6, GoneTypes DEF Crash, TypeOK
  <2>3. CASE HostReboot
    BY <1>0, <1>1, <2>1, <2>3, <2>6, GoneTypes DEF HostReboot, TypeOK
  <2>4. CASE Rebuild
    BY <1>0, <1>1, <2>1, <2>4, GoneTypes, InstallTypes DEF Rebuild, TypeOK
  <2>5. CASE StoreToggles
    BY <2>5 DEF StoreToggles, TypeOK, data, history
  <2> QED  BY <1>20, <2>2, <2>3, <2>4, <2>5 DEF Environment
<1>21. CASE UNCHANGED vars
  BY <1>21 DEF vars, data, control, history, TypeOK
<1> QED  BY <1>2, <1>3, <1>4, <1>5, <1>7, <1>8, <1>9, <1>10, <1>11, <1>12,
            <1>13, <1>14, <1>15, <1>16, <1>17, <1>18, <1>19, <1>20, <1>21
         DEF Next, Step, Mutation

\* Every reachable state of the service is well typed, whatever the manifest,
\* the mode and the faults.
THEOREM TypeCorrect == Spec => []TypeOK
  BY TypeInit, TypeStep, PTL DEF Spec

-----------------------------------------------------------------------------
(* Address safety. *)

\* The two halves of AddressSafety, for one table and for one configuration.
SafeTable(rows)  == UniqueTable(rows) /\ ServerIP \notin Addrs(rows)
SafePeers(peers) == UniquePeers(peers) /\ ServerIP \notin Addrs(peers)

\* Rendering a safe table to peers or to backup entries, and reading entries
\* back as rows, keeps it safe.
LEMMA ProjectionsSafe ==
    /\ \A rows \in SUBSET Row :
          SafeTable(rows) => SafePeers(Peers(rows)) /\ SafeTable(Entries(rows))
    /\ \A entries \in SUBSET Entry :
          SafeTable(entries) => SafeTable(EnabledRows(entries))
<1>1. ASSUME NEW rows \in SUBSET Row, SafeTable(rows)
      PROVE  SafePeers(Peers(rows))
  <2>1. \A p \in Peers(rows) :
           \E r \in rows : p.key = r.key /\ p.addr = r.addr /\ p = PeerOf(r)
    BY DEF Peers, PeerOf
  <2>2. UniquePeers(Peers(rows))
    BY <1>1, <2>1 DEF SafeTable, UniqueTable, Disjoint, UniquePeers
  <2>3. ServerIP \notin Addrs(Peers(rows))
    BY <1>1, <2>1 DEF SafeTable, Addrs
  <2> QED  BY <2>2, <2>3 DEF SafePeers
<1>2. ASSUME NEW rows \in SUBSET Row, SafeTable(rows)
      PROVE  SafeTable(Entries(rows))
  <2>1. \A e \in Entries(rows) :
           \E r \in rows : /\ e.name = r.name /\ e.key = r.key
                           /\ e.addr = r.addr /\ e = EntryOf(r)
    BY DEF Entries, EntryOf
  <2>2. UniqueTable(Entries(rows))
    BY <1>2, <2>1 DEF SafeTable, UniqueTable, Disjoint
  <2>3. ServerIP \notin Addrs(Entries(rows))
    BY <1>2, <2>1 DEF SafeTable, Addrs
  <2> QED  BY <2>2, <2>3 DEF SafeTable
<1>3. ASSUME NEW entries \in SUBSET Entry, SafeTable(entries)
      PROVE  SafeTable(EnabledRows(entries))
  <2>1. \A r \in EnabledRows(entries) :
           \E e \in entries : /\ r.name = e.name /\ r.key = e.key
                              /\ r.addr = e.addr /\ r = EnabledRow(e)
    BY DEF EnabledRows, EnabledRow
  <2>2. UniqueTable(EnabledRows(entries))
    BY <1>3, <2>1 DEF SafeTable, UniqueTable, Disjoint
  <2>3. ServerIP \notin Addrs(EnabledRows(entries))
    BY <1>3, <2>1 DEF SafeTable, Addrs
  <2> QED  BY <2>2, <2>3 DEF SafeTable
<1> QED  BY <1>1, <1>2, <1>3

\* Any part of the manifest, as entries, is safe.
LEMMA ManifestSafe ==
    ASSUME NEW s \in {Seed, << >>}, NEW I \in SUBSET DOMAIN s
    PROVE  SafeTable({s[i] : i \in I}) /\ {s[i] : i \in I} \in SUBSET Entry
<1>1. /\ \A i \in DOMAIN s : s[i] \in Entry /\ s[i].addr # ServerIP
      /\ \A i, j \in DOMAIN s : i # j => Disjoint(s[i], s[j])
  BY SeedAssumption
<1>2. UniqueTable({s[i] : i \in I})
  BY <1>1 DEF UniqueTable
<1>3. ServerIP \notin Addrs({s[i] : i \in I})
  BY <1>1 DEF Addrs
<1> QED  BY <1>1, <1>2, <1>3 DEF SafeTable

\* A row with a fresh name, key and address other than the server's extends a
\* safe table to a safe one; this is what Add and Update check.
LEMMA InsertSafe ==
    ASSUME NEW rows, NEW r, SafeTable(rows),
           r.name \notin Names(rows), r.key \notin Keys(rows),
           r.addr \notin Addrs(rows), r.addr # ServerIP
    PROVE  SafeTable(rows \cup {r})
  BY DEF SafeTable, UniqueTable, Disjoint, Names, Keys, Addrs

\* Removing rows keeps a table safe, and leaves no row sharing a name, a key
\* or an address with a removed one.
LEMMA RemoveSafe ==
    ASSUME NEW rows, SafeTable(rows), NEW sub \in SUBSET rows
    PROVE  /\ SafeTable(sub)
           /\ \A r \in rows \ sub : /\ r.name \notin Names(sub)
                                    /\ r.key \notin Keys(sub)
                                    /\ r.addr \notin Addrs(sub)
                                    /\ r.addr # ServerIP
  BY DEF SafeTable, UniqueTable, Disjoint, Names, Keys, Addrs

LEMMA AddressInit == Init => AddressSafety
<1> SUFFICES ASSUME Init PROVE AddressSafety
  OBVIOUS
<1>1. SafeTable(SeedEntries(Seed)) /\ SeedEntries(Seed) \in SUBSET Entry
  BY ManifestSafe DEF SeedEntries
<1>2. SafePeers(conf) /\ kernel = conf
  BY <1>1, ProjectionsSafe, ProjectionTypes DEF Init
<1> QED  BY <1>2 DEF Init, AddressSafety, SafePeers, UniqueTable, Addrs

LEMMA AddressStep == TypeOK /\ AddressSafety /\ [Next]_vars => AddressSafety'
<1> SUFFICES ASSUME TypeOK, AddressSafety, [Next]_vars PROVE AddressSafety'
  OBVIOUS
<1>0. /\ SafeTable(db) /\ SafeTable(s3) /\ SafePeers(conf) /\ SafePeers(kernel)
      /\ db \in SUBSET Row /\ s3 \in SUBSET Entry /\ seed \in {Seed, << >>}
  BY DEF AddressSafety, SafeTable, SafePeers, TypeOK
<1>1. ASSUME SafeTable(db'), SafeTable(s3'), SafePeers(conf'),
             SafePeers(kernel')
      PROVE  AddressSafety'
  BY <1>1 DEF AddressSafety, SafeTable, SafePeers
<1>2. ASSUME UNCHANGED data
      PROVE  AddressSafety'
  BY <1>0, <1>1, <1>2 DEF data
<1>3. ASSUME NEW n \in Name, NEW k \in Key, NEW a \in Subnet,
             NEW auto \in BOOLEAN, Add(n, k, a, auto)
      PROVE  AddressSafety'
  <2>1. a # ServerIP /\ a \notin Addrs(db)
    BY <1>3 DEF Add, AddressFor, Allocates, FreeHosts, OverrideOK
  <2>2. SafeTable(db')
    BY <1>0, <1>3, <2>1, InsertSafe DEF Add
  <2> QED  BY <1>0, <1>1, <1>3, <2>2 DEF Add
<1>4. ASSUME NEW from \in db, NEW to \in Row, NEW canonical \in BOOLEAN,
             Update(from, to, canonical)
      PROVE  AddressSafety'
  <2> DEFINE others == db \ {from}
  <2>1. /\ SafeTable(others)
        /\ from.name \notin Names(others) /\ from.key \notin Keys(others)
        /\ from.addr \notin Addrs(others) /\ from.addr # ServerIP
    BY <1>0, RemoveSafe
  <2>2. /\ to.name \notin Names(others) /\ to.key \notin Keys(others)
        /\ to.addr \notin Addrs(others) /\ to.addr # ServerIP
    BY <1>4, <2>1 DEF Update, UpdateOK, OverrideOK
  <2>3. db' = others \cup {to}
    BY <1>4 DEF Update
  <2>4. SafeTable(db')
    BY <2>1, <2>2, <2>3, InsertSafe
  <2> QED  BY <1>0, <1>1, <1>4, <2>4 DEF Update
<1>5. ASSUME NEW n \in Name, Delete(n)
      PROVE  AddressSafety'
  BY <1>0, <1>1, <1>5, RemoveSafe DEF Delete
<1>6. CASE Merge
  BY <1>0, <1>1, <1>6, ProjectionsSafe DEF Merge
<1>7. CASE Sync
  BY <1>0, <1>1, <1>7 DEF Sync
<1>8. CASE Put
  BY <1>0, <1>1, <1>8, ProjectionsSafe DEF Put
<1>9. CASE HealStore
  BY <1>0, <1>1, <1>9, ProjectionsSafe DEF HealStore, BootSaveFails
<1>10. CASE ColdSave
  BY <1>0, <1>1, <1>10, ManifestSafe DEF ColdSave, BootSaveFails, SeedEntries
<1>11. CASE SeedTable
  <2>1. PICK n \in 0 .. Len(seed) : db' = IF db = {} THEN SeededRows(n) ELSE db
    BY <1>11 DEF SeedTable, Seeded
  <2>2. seed \in Seq(Entry)
    BY <1>0, SeedTypes
  <2>3. SafeTable(SeededRows(n))
    <3>1. 1 .. n \in SUBSET DOMAIN seed
      BY <2>2
    <3>2. /\ SafeTable({seed[i] : i \in 1 .. n})
          /\ {seed[i] : i \in 1 .. n} \in SUBSET Entry
      BY <1>0, <3>1, ManifestSafe
    <3> QED  BY <3>2, ProjectionsSafe DEF SeededRows
  <2> QED  BY <1>0, <1>1, <1>11, <2>1, <2>3 DEF SeedTable
<1>12. CASE ReplaceAll
  BY <1>0, <1>1, <1>12, ProjectionsSafe DEF ReplaceAll
<1>13. CASE Crash \/ HostReboot
  <2>1. ASSUME NEW c \in Torn PROVE SafePeers(c)
    BY <1>0, ProjectionsSafe DEF Torn, SafePeers, UniquePeers, Addrs
  <2> QED  BY <1>0, <1>1, <1>13, <2>1 DEF Crash, HostReboot
<1>14. CASE Rebuild
  <2>1. SafePeers(Peers(EnabledRows(SeedEntries(Seed))))
    BY ManifestSafe, ProjectionsSafe, ProjectionTypes DEF SeedEntries
  <2>2. SafeTable({})
    BY DEF SafeTable, UniqueTable, Addrs
  <2> QED  BY <1>0, <1>1, <1>14, <2>1, <2>2 DEF Rebuild
<1>15. CASE \/ Start \/ Stage \/ Save \/ LoadFails \/ LoadAnswers
            \/ RecheckStore \/ StoreToggles \/ UNCHANGED vars
            \/ \E n \in Name : DeleteCheck(n)
  BY <1>2, <1>15 DEF Start, Stage, Save, LoadFails, LoadAnswers, RecheckStore,
                     StoreToggles, DeleteCheck, vars
<1> QED  BY <1>3, <1>4, <1>5, <1>6, <1>7, <1>8, <1>9, <1>10, <1>11, <1>12,
            <1>13, <1>14, <1>15
         DEF Next, Step, Mutation, Environment

\* No mutation, restore, fault or restart ever makes two peers share a name,
\* a key or an address, or gives one the server's own.
THEOREM AddressesSafe == Spec => []AddressSafety
  BY TypeInit, TypeStep, AddressInit, AddressStep, PTL DEF Spec

-----------------------------------------------------------------------------
(* The live configuration follows the table. *)

\* A mutation either commits and goes on to applyLocked or, like the check of
\* handleDeleteClient, only reads.
LEMMA MutationControl ==
    ASSUME Mutation
    PROVE  /\ UNCHANGED <<storeUp, storeReady, seen>>
           /\ \/ pc = "idle" /\ pc' = "stage" /\ cont' \in {"save", "toggle"}
              \/ UNCHANGED <<data, pc, cont, reply>>
<1>1. ASSUME NEW effect, NEW next \in {"save", "toggle"}, Commit(effect, next)
      PROVE  pc' = "stage" /\ cont' \in {"save", "toggle"}
  BY <1>1 DEF Commit
<1>2. ASSUME NEW n \in Name, NEW k \in Key, NEW a \in Subnet,
             NEW auto \in BOOLEAN, Add(n, k, a, auto)
      PROVE  /\ UNCHANGED <<storeUp, storeReady, seen>> /\ pc = "idle"
             /\ \E effect : Commit(effect, "save")
  BY <1>2, Zenon DEF Add
<1>3. ASSUME NEW from \in db, NEW to \in Row, NEW canonical \in BOOLEAN,
             Update(from, to, canonical)
      PROVE  /\ UNCHANGED <<storeUp, storeReady, seen>> /\ pc = "idle"
             /\ \E effect : \E next \in {"save", "toggle"} : Commit(effect, next)
  <2>1. (IF canonical THEN "save" ELSE "toggle") \in {"save", "toggle"}
    OBVIOUS
  <2> QED  BY <1>3, <2>1, Zenon DEF Update
<1>4. ASSUME NEW n \in Name, Delete(n)
      PROVE  /\ UNCHANGED <<storeUp, storeReady, seen>> /\ pc = "idle"
             /\ \E effect : Commit(effect, "save")
  BY <1>4, Zenon DEF Delete
<1>5. ASSUME NEW n \in Name, DeleteCheck(n)
      PROVE  UNCHANGED <<data, storeUp, storeReady, seen, pc, cont, reply>>
  BY <1>5 DEF DeleteCheck, history
<1> QED  BY <1>1, <1>2, <1>3, <1>4, <1>5 DEF Mutation

\* Why LiveMatchesTable holds: the helper has merged the table as it is now
\* when it loads wg0.conf, and nothing but a new mutation changes the table
\* until the result is returned.
LiveInv ==
    /\ pc = "sync" => conf = Peers(db)
    /\ pc \in {"save", "put"} => conf = Peers(db) /\ kernel = conf
    /\ LiveMatchesTable

LEMMA LiveStep == LiveInv /\ [Next]_vars => LiveInv'
<1> SUFFICES ASSUME LiveInv, [Next]_vars PROVE LiveInv'
  OBVIOUS
<1>1. ASSUME pc' \notin {"sync", "save", "put", "idle"}
      PROVE  LiveInv'
  BY <1>1 DEF LiveInv, LiveMatchesTable
<1>2. ASSUME pc' = "idle", reply' # "ok"
      PROVE  LiveInv'
  BY <1>2 DEF LiveInv, LiveMatchesTable
<1>3. ASSUME UNCHANGED <<data, pc, reply>>
      PROVE  LiveInv'
  BY <1>3 DEF LiveInv, LiveMatchesTable, data
<1>4. CASE Mutation
  BY <1>1, <1>3, <1>4, MutationControl
<1>5. CASE Stage
  BY <1>1, <1>2, <1>5 DEF Stage, Goto, GotoWith, ApplyFails, Finish
<1>6. CASE Merge
  BY <1>2, <1>6 DEF Merge, Goto, GotoWith, ApplyFails, Finish, LiveInv,
                    LiveMatchesTable
<1>7. CASE Sync
  BY <1>2, <1>7 DEF Sync, AfterApply, Goto, GotoWith, ApplyFails, Finish,
                    LiveInv, LiveMatchesTable
<1>8. CASE Save
  BY <1>8 DEF Save, Goto, GotoWith, Finish, LiveInv, LiveMatchesTable, data
<1>9. CASE Put
  BY <1>2, <1>9 DEF Put, Finish, LiveInv, LiveMatchesTable
<1>10. CASE LoadFails \/ LoadAnswers
  BY <1>1, <1>2, <1>10 DEF LoadFails, LoadAnswers, Goto, GotoWith, Finish
<1>11. CASE HealStore
  BY <1>2, <1>11 DEF HealStore, BootSaveFails, Finish
<1>12. CASE ColdSave
  BY <1>1, <1>2, <1>12 DEF ColdSave, BootSaveFails, GotoWith, Finish
<1>13. CASE SeedTable
  BY <1>1, <1>2, <1>13 DEF SeedTable, Goto, GotoWith, Finish
<1>14. CASE ReplaceAll
  BY <1>1, <1>2, <1>14 DEF ReplaceAll, GotoWith, Finish
<1>15. CASE Start
  BY <1>1, <1>15 DEF Start
<1>16. CASE RecheckStore \/ StoreToggles \/ UNCHANGED vars
  BY <1>3, <1>16 DEF RecheckStore, StoreToggles, vars, control
<1>17. CASE Crash \/ HostReboot \/ Rebuild
  BY <1>1, <1>17 DEF Crash, HostReboot, Rebuild, ProcessGone
<1> QED  BY <1>4, <1>5, <1>6, <1>7, <1>8, <1>9, <1>10, <1>11, <1>12, <1>13,
            <1>14, <1>15, <1>16, <1>17
         DEF Next, Step, Environment

\* An operation that reports success has left wg0.conf and the interface with
\* exactly the enabled rows, and they stay so until the next operation.
THEOREM LiveMatches == Spec => []LiveMatchesTable
<1>1. Init => LiveInv
  BY DEF Init, LiveInv, LiveMatchesTable
<1>2. LiveInv => LiveMatchesTable
  BY DEF LiveInv
<1> QED  BY <1>1, <1>2, LiveStep, PTL DEF Spec

-----------------------------------------------------------------------------
(* The store is written only after it has been read. *)

\* Why WrittenOnlyAfterRead holds: the latch storeReady is TRUE before the
\* boot reconcile only, and from then on only in a process the store has
\* answered; every write is behind the latch or behind the boot's own Load.
LatchInv ==
    /\ pc \in {"load", "replace", "heal", "coldsave", "put"} => Cloud
    /\ pc \in {"replace", "heal", "coldsave", "put"} => seen
    /\ cont = "cold" => seen
    /\ Cloud /\ storeReady /\ pc \notin {"down", "load"} => seen

LEMMA LatchStep == TypeOK /\ LatchInv /\ [Next]_vars => LatchInv'
<1> SUFFICES ASSUME TypeOK, LatchInv, [Next]_vars PROVE LatchInv'
  OBVIOUS
<1> USE DEF LatchInv
<1>1. storeReady \in BOOLEAN /\ storeUp \in BOOLEAN /\ seen \in BOOLEAN
  BY DEF TypeOK
<1>2. CASE Mutation
  BY <1>1, <1>2, MutationControl
<1>3. CASE Stage
  BY <1>1, <1>3 DEF Stage, Goto, GotoWith, ApplyFails, Finish
<1>4. CASE Merge
  BY <1>1, <1>4 DEF Merge, Goto, GotoWith, ApplyFails, Finish
<1>5. CASE Sync
  BY <1>1, <1>5 DEF Sync, AfterApply, Goto, GotoWith, ApplyFails, Finish
<1>6. CASE Save
  BY <1>1, <1>6 DEF Save, HealProbe, Goto, GotoWith, Finish
<1>7. CASE Put
  BY <1>1, <1>7 DEF Put, Finish
<1>8. CASE LoadFails
  BY <1>8 DEF LoadFails, GotoWith, Finish
<1>9. CASE LoadAnswers
  BY <1>9 DEF LoadAnswers, Goto, GotoWith
<1>10. CASE HealStore \/ ColdSave
  BY <1>10 DEF HealStore, ColdSave, BootSaveFails, GotoWith, Finish
<1>11. CASE SeedTable
  BY <1>1, <1>11 DEF SeedTable, Goto, GotoWith, Finish
<1>12. CASE ReplaceAll
  BY <1>12 DEF ReplaceAll, GotoWith, Finish
<1>13. CASE Start
  BY <1>13, ModeAssumption DEF Start, history
<1>14. CASE RecheckStore
  BY <1>1, <1>14 DEF RecheckStore, HealProbe
<1>15. CASE Environment
  BY <1>15 DEF Environment, Crash, HostReboot, Rebuild, ProcessGone,
               StoreToggles, history
<1>16. CASE UNCHANGED vars
  BY <1>16 DEF vars, control, history
<1> QED  BY <1>2, <1>3, <1>4, <1>5, <1>6, <1>7, <1>8, <1>9, <1>10, <1>11,
            <1>12, <1>13, <1>14, <1>15, <1>16
         DEF Next, Step

\* A process that the store has not answered since it started never writes
\* the S3 object.
THEOREM StoreReadFirst == Spec => WrittenOnlyAfterRead
<1>1. Init => LatchInv
  BY DEF Init, LatchInv
<1>2. LatchInv /\ [Next]_vars => [s3' # s3 => seen']_vars
  <2> SUFFICES ASSUME LatchInv, Next, s3' # s3 PROVE seen'
    OBVIOUS
  <2>1. CASE Put
    BY <2>1 DEF Put, LatchInv
  <2>2. CASE HealStore
    BY <2>2 DEF HealStore, LatchInv
  <2>3. CASE ColdSave
    BY <2>3 DEF ColdSave, LatchInv
  <2> QED
    BY <2>1, <2>2, <2>3
    DEF Next, Step, Mutation, Environment, Add, Update, DeleteCheck, Delete,
        Stage, Merge, Sync, Save, LoadFails, LoadAnswers, SeedTable,
        ReplaceAll, Start, RecheckStore, Crash, HostReboot, Rebuild,
        StoreToggles, data
<1> QED  BY <1>1, <1>2, TypeInit, TypeStep, LatchStep, PTL
         DEF Spec, WrittenOnlyAfterRead

-----------------------------------------------------------------------------
(* Acknowledged clients, in local mode. *)

\* Why AckedSurvives holds without a store: the table loses a row only in a
\* mutation that removes its key, and a mutation's own additions are in the
\* table before they are acknowledged.
AckInv ==
    /\ ~Cloud
    /\ wanted \subseteq Keys(db)
    /\ op.add \subseteq Keys(db)

LEMMA AckStep ==
    TypeOK /\ LatchInv /\ AckInv /\ [Next]_vars => AckInv'
<1> SUFFICES ASSUME TypeOK, LatchInv, AckInv, [Next]_vars PROVE AckInv'
  OBVIOUS
<1>0. ~Cloud /\ wanted \subseteq Keys(db) /\ op.add \subseteq Keys(db)
  BY DEF AckInv
<1>1. ASSUME UNCHANGED db, NEW result, Finish(result)
      PROVE  AckInv'
  BY <1>0, <1>1 DEF AckInv, Finish, NoOp
<1>2. ASSUME UNCHANGED <<db, op, wanted>>
      PROVE  AckInv'
  BY <1>0, <1>2 DEF AckInv
<1>3. ASSUME NEW n \in Name, NEW k \in Key, NEW a \in Subnet,
             NEW auto \in BOOLEAN, Add(n, k, a, auto)
      PROVE  AckInv'
  BY <1>0, <1>3 DEF Add, Commit, AckInv, Keys, NoOp
<1>4. ASSUME NEW from \in db, NEW to \in Row, NEW canonical \in BOOLEAN,
             Update(from, to, canonical)
      PROVE  AckInv'
  <2>1. Keys(db) \ ({from.key} \ {to.key}) \subseteq Keys(db')
    BY <1>4 DEF Update, Keys
  <2>2. to.key \in Keys(db')
    BY <1>4 DEF Update, Keys
  <2> QED  BY <1>0, <1>4, <2>1, <2>2 DEF Update, Commit, AckInv
<1>5. ASSUME NEW n \in Name, Delete(n)
      PROVE  AckInv'
  <2>1. Keys(db) \ Keys({r \in db : r.name = n}) \subseteq Keys(db')
    BY <1>5 DEF Delete, Keys
  <2> QED  BY <1>0, <1>5, <2>1 DEF Delete, Commit, AckInv, NoOp
<1>6. CASE Stage \/ Merge \/ Sync \/ Save \/ Put
  BY <1>1, <1>2, <1>6 DEF Stage, Merge, Sync, Save, Put, ApplyFails,
                          AfterApply, Goto, GotoWith, data
<1>7. CASE SeedTable
  <2>1. CASE db = {}
    <3>1. wanted = {} /\ op.add = {}
      BY <1>0, <2>1 DEF Keys
    <3>2. wanted' = {} /\ op'.add = {}
      BY <1>7, <3>1 DEF SeedTable, Goto, GotoWith, Finish, NoOp
    <3> QED  BY <1>0, <3>2 DEF AckInv
  <2>2. CASE db # {}
    BY <1>1, <1>2, <1>7, <2>2 DEF SeedTable, Seeded, Goto, GotoWith
  <2> QED  BY <2>1, <2>2
<1>8. CASE LoadFails \/ LoadAnswers \/ HealStore \/ ColdSave \/ ReplaceAll
           \/ Rebuild
  BY <1>0, <1>8 DEF LatchInv, LoadFails, LoadAnswers, HealStore, ColdSave,
                    ReplaceAll, Rebuild
<1>9. CASE Crash \/ HostReboot
  BY <1>0, <1>9 DEF Crash, HostReboot, ProcessGone, NoOp, AckInv, data
<1>10. CASE \/ Start \/ RecheckStore \/ StoreToggles \/ UNCHANGED vars
            \/ \E n \in Name : DeleteCheck(n)
  BY <1>2, <1>10 DEF Start, RecheckStore, StoreToggles, DeleteCheck, vars,
                     data, control, history
<1> QED  BY <1>3, <1>4, <1>5, <1>6, <1>7, <1>8, <1>9, <1>10
         DEF Next, Step, Mutation, Environment

\* In local mode a client acknowledged to the operator is in the table until
\* the operator removes it, through failed applies, crashes and reboots.
THEOREM AckedSurvivesLocally == ~Cloud /\ Spec => []AckedSurvives
<1>1. ~Cloud /\ Init => AckInv
  BY DEF Init, AckInv, NoOp, Keys
<1>2. Init => LatchInv
  BY DEF Init, LatchInv
<1>3. AckInv => AckedSurvives
  BY DEF AckInv, AckedSurvives
<1> QED  BY <1>1, <1>2, <1>3, TypeInit, TypeStep, LatchStep, AckStep, PTL
         DEF Spec

-----------------------------------------------------------------------------
(* Revoked clients. *)

\* The store, where there is one, answers every call.
StoreDependable == Cloud => {"outage", "cancel"} \cap Faults = {}

\* No revoked key is among these, the manifest's apart.
FreeOf(keys, revokedKeys) == (revokedKeys \ SeedKeys) \cap keys = {}

\* Why RevokedStaysOut holds: a removal is acknowledged when the table, the
\* file, the interface and the backup are all free of the key, and each of
\* them is only ever filled from another one or from the manifest.
OutInv ==
    /\ StoreDependable
    /\ Cloud => storeUp
    /\ pc \notin {"stage", "merge", "sync", "save", "put"} =>
          cont \notin {"save", "toggle"}
    /\ cont # "save" => op.del = {}
    /\ FreeOf(Keys(db), op.del)
    /\ FreeOf(Keys(db), revoked)
    /\ FreeOf(Keys(conf), revoked)
    /\ FreeOf(Keys(kernel), revoked)
    /\ Cloud => FreeOf(Keys(s3), revoked)

\* The keys of projections, and of what the manifest fills.
LEMMA ProjectedKeys ==
    /\ \A rows : Keys(Peers(rows)) \subseteq Keys(rows)
    /\ \A rows : Keys(Entries(rows)) \subseteq Keys(rows)
    /\ \A entries : Keys(EnabledRows(entries)) \subseteq Keys(entries)
    /\ Keys(Peers(EnabledRows(SeedEntries(Seed)))) \subseteq SeedKeys
<1>1. \A rows : Keys(Peers(rows)) \subseteq Keys(rows)
  BY DEF Keys, Peers, PeerOf
<1>2. \A rows : Keys(Entries(rows)) \subseteq Keys(rows)
  BY DEF Keys, Entries, EntryOf
<1>3. \A entries : Keys(EnabledRows(entries)) \subseteq Keys(entries)
  BY DEF Keys, EnabledRows, EnabledRow
<1> QED  BY <1>1, <1>2, <1>3 DEF SeedKeys

\* A loaded manifest has the keys of the manifest, and so has a prefix of it.
LEMMA LoadedKeys ==
    ASSUME seed \in {Seed, << >>}
    PROVE  /\ Keys(SeedEntries(seed)) \subseteq SeedKeys
           /\ \A n \in 0 .. Len(seed) : Keys(SeededRows(n)) \subseteq SeedKeys
<1>1. seed \in Seq(Entry)
  BY SeedTypes
<1>2. Keys(SeedEntries(seed)) \subseteq SeedKeys
  BY DEF SeedKeys, SeedEntries, Keys
<1>3. ASSUME NEW n \in 0 .. Len(seed)
      PROVE  Keys(SeededRows(n)) \subseteq SeedKeys
  <2>1. {seed[i] : i \in 1 .. n} \subseteq SeedEntries(seed)
    BY <1>1 DEF SeedEntries
  <2>2. Keys({seed[i] : i \in 1 .. n}) \subseteq Keys(SeedEntries(seed))
    BY <2>1 DEF Keys
  <2> QED  BY <1>2, <2>2, ProjectedKeys DEF SeededRows
<1> QED  BY <1>2, <1>3

\* Mutations: what is added is revoked no more, what is removed is out of
\* the table.
LEMMA OutMutation ==
    ASSUME TypeOK, AddressSafety, OutInv, Mutation
    PROVE  OutInv'
<1>0. UniqueTable(db)
  BY DEF AddressSafety
<1>1. ASSUME NEW effect, NEW next \in {"save", "toggle"},
             Commit(effect, next),
             UNCHANGED <<conf, kernel, s3, storeUp>>,
             next = "toggle" => effect.del = {},
             FreeOf(Keys(db'), effect.del),
             Keys(db') \subseteq Keys(db) \cup effect.add
      PROVE  OutInv'
  BY <1>1 DEF Commit, OutInv, FreeOf
<1>2. ASSUME NEW n \in Name, NEW k \in Key, NEW a \in Subnet,
             NEW auto \in BOOLEAN, Add(n, k, a, auto)
      PROVE  OutInv'
  <2>1. Keys(db') \subseteq Keys(db) \cup {k}
    BY <1>2 DEF Add, Keys
  <2>2. FreeOf(Keys(db'), {})
    BY DEF FreeOf
  <2> DEFINE effect == [NoOp EXCEPT !.add = {k}, !.on = {k}]
  <2>3. effect.add = {k} /\ effect.del = {}
    BY DEF NoOp
  <2>4. Commit(effect, "save") /\ UNCHANGED <<conf, kernel, s3, storeUp>>
    BY <1>2 DEF Add
  <2> HIDE DEF effect
  <2> QED  BY <1>1, <2>1, <2>2, <2>3, <2>4
<1>3. ASSUME NEW from \in db, NEW to \in Row, NEW canonical \in BOOLEAN,
             Update(from, to, canonical)
      PROVE  OutInv'
  <2> DEFINE added == IF canonical THEN {to.key} ELSE {}
             removed == {from.key} \ {to.key}
             next == IF canonical THEN "save" ELSE "toggle"
             effect == [add |-> added, del |-> removed,
                        on  |-> IF to.enabled THEN {to.key} ELSE {},
                        off |-> IF to.enabled THEN {} ELSE {to.key}]
  <2>1. db' = (db \ {from}) \cup {to}
    BY <1>3 DEF Update
  <2>2. ~canonical => to.key = from.key
    BY <1>3 DEF Update, EntryOf
  <2>3. \A r \in db \ {from} : r.key # from.key
    BY <1>0 DEF UniqueTable, Disjoint
  <2>4. from.key # to.key => from.key \notin Keys(db')
    BY <2>1, <2>3 DEF Keys
  <2>5. FreeOf(Keys(db'), removed)
    BY <2>4 DEF FreeOf
  <2>6. Keys(db') \subseteq Keys(db) \cup {to.key}
    BY <2>1 DEF Keys
  <2>7. from.key \in Keys(db)
    BY DEF Keys
  <2>8. Keys(db') \subseteq Keys(db) \cup added
    BY <2>2, <2>6, <2>7
  <2>9. /\ Commit(effect, next) /\ next \in {"save", "toggle"}
        /\ next = "toggle" => removed = {}
        /\ UNCHANGED <<conf, kernel, s3, storeUp>>
        /\ effect.add = added /\ effect.del = removed
    BY <1>3, <2>2 DEF Update
  <2> HIDE DEF effect, added, removed, next
  <2> QED  BY <1>1, <2>5, <2>8, <2>9
<1>4. ASSUME NEW n \in Name, Delete(n)
      PROVE  OutInv'
  <2> DEFINE removed == Keys({r \in db : r.name = n})
             effect == [NoOp EXCEPT !.del = removed]
  <2>1. db' = {r \in db : r.name # n}
    BY <1>4 DEF Delete
  <2>2. Keys(db') \cap removed = {}
    BY <1>0, <2>1 DEF Keys, UniqueTable, Disjoint
  <2>3. FreeOf(Keys(db'), removed)
    BY <2>2 DEF FreeOf
  <2>4. Keys(db') \subseteq Keys(db) \cup {}
    BY <2>1 DEF Keys
  <2>5. /\ Commit(effect, "save") /\ UNCHANGED <<conf, kernel, s3, storeUp>>
        /\ effect.add = {} /\ effect.del = removed
    BY <1>4 DEF Delete, NoOp
  <2> HIDE DEF effect, removed
  <2> QED  BY <1>1, <2>3, <2>4, <2>5
<1>5. ASSUME NEW n \in Name, DeleteCheck(n)
      PROVE  OutInv'
  BY <1>5 DEF DeleteCheck, OutInv, data, history
<1> QED  BY <1>2, <1>3, <1>4, <1>5 DEF Mutation

\* applyLocked and saveStoreLocked: each copy is made from the table, and the
\* removal is acknowledged after the last.
LEMMA OutApply ==
    ASSUME TypeOK, LiveInv, LatchInv, OutInv,
           Stage \/ Merge \/ Sync \/ Save \/ Put
    PROVE  OutInv'
<1>1. ASSUME UNCHANGED <<data, storeUp>>, NEW result \in {"healed", "error"},
             Finish(result)
      PROVE  OutInv'
  BY <1>1 DEF Finish, OutInv, FreeOf, NoOp, data
<1>2. ASSUME UNCHANGED <<data, storeUp>>, Goto(pc'),
             pc' \in {"stage", "merge", "sync", "save", "put"}
      PROVE  OutInv'
  BY <1>2 DEF Goto, GotoWith, OutInv, data
<1>3. CASE Stage
  BY <1>1, <1>2, <1>3 DEF Stage, ApplyFails, Goto, GotoWith
<1>4. CASE Merge
  <2>1. CASE conf' = Peers(db) /\ Goto("sync")
    <3>1. Keys(conf') \subseteq Keys(db)
      BY <2>1, ProjectedKeys
    <3> QED  BY <1>4, <2>1, <3>1 DEF Merge, Goto, GotoWith, OutInv, FreeOf
  <2>2. CASE ApplyFails /\ UNCHANGED conf
    BY <1>1, <1>4, <2>2 DEF Merge, ApplyFails, data
  <2> QED  BY <1>4, <2>1, <2>2 DEF Merge
<1>5. CASE Sync
  <2>1. CASE kernel' = conf /\ AfterApply
    <3>1. CASE cont \in {"save", "replace"} /\ Goto("save")
      BY <1>5, <2>1, <3>1 DEF Sync, Goto, GotoWith, OutInv
    <3>2. CASE op.del = {} /\ \E result \in {"ok", "error"} : Finish(result)
      BY <1>5, <2>1, <3>2 DEF Sync, Finish, OutInv, FreeOf, NoOp
    <3>3. cont # "save" => op.del = {}
      BY DEF OutInv
    <3> QED  BY <2>1, <3>1, <3>2, <3>3 DEF AfterApply
  <2>2. CASE ApplyFails /\ UNCHANGED kernel
    BY <1>1, <1>5, <2>2 DEF Sync, ApplyFails, data
  <2>3. CASE ApplyFails /\ kernel' = conf
    BY <1>5, <2>3 DEF Sync, ApplyFails, Finish, OutInv, FreeOf, NoOp
  <2> QED  BY <1>5, <2>1, <2>2, <2>3 DEF Sync
<1>6. CASE Save
  <2>1. UNCHANGED <<data, storeUp>>
    BY <1>6 DEF Save
  <2>2. CASE Goto("put")
    BY <1>2, <2>1, <2>2 DEF Goto, GotoWith
  <2>3. CASE ~Cloud /\ Finish("ok")
    <3>1. Keys(conf) \subseteq Keys(db) /\ Keys(kernel) \subseteq Keys(db)
      BY <1>6, ProjectedKeys DEF Save, LiveInv
    <3> QED  BY <2>1, <2>3, <3>1 DEF Finish, OutInv, FreeOf, NoOp, data
  <2>4. Cloud => storeUp /\ "cancel" \notin Faults
    BY DEF OutInv, StoreDependable
  <2> QED  BY <1>6, <2>2, <2>3, <2>4 DEF Save, HealProbe
<1>7. CASE Put
  <2>1. Cloud /\ storeUp /\ "cancel" \notin Faults
    BY <1>7 DEF Put, LatchInv, OutInv, StoreDependable
  <2>2. s3' = Entries(db) /\ Finish("ok") /\ UNCHANGED <<db, conf, kernel, storeUp>>
    BY <1>7, <2>1 DEF Put
  <2>3. /\ Keys(conf) \subseteq Keys(db) /\ Keys(kernel) \subseteq Keys(db)
        /\ Keys(s3') \subseteq Keys(db)
    BY <1>7, <2>2, ProjectedKeys DEF Put, LiveInv
  <2> QED  BY <2>2, <2>3 DEF Finish, OutInv, FreeOf, NoOp
<1> QED  BY <1>3, <1>4, <1>5, <1>6, <1>7

\* The boot: the table and the store are filled from each other or from the
\* manifest, and nothing is acknowledged.
LEMMA OutBoot ==
    ASSUME TypeOK, LatchInv, OutInv,
           \/ LoadFails \/ LoadAnswers \/ HealStore \/ ColdSave
           \/ SeedTable \/ ReplaceAll \/ Start
    PROVE  OutInv'
<1>0. /\ pc \notin {"stage", "merge", "sync", "save", "put"}
      /\ cont \notin {"save", "toggle"}
      /\ op.del = {}
  BY DEF LoadFails, LoadAnswers, HealStore, ColdSave, SeedTable, ReplaceAll,
         Start, OutInv
<1>1. /\ revoked' = revoked
      /\ cont' \notin {"save", "toggle"}
      /\ op'.del = {}
  BY <1>0 DEF LoadFails, LoadAnswers, HealStore, ColdSave, SeedTable, ReplaceAll,
         Start, BootSaveFails, Goto, GotoWith, Finish, NoOp, history
<1>2. UNCHANGED <<conf, kernel, storeUp>>
  BY DEF LoadFails, LoadAnswers, HealStore, ColdSave, SeedTable, ReplaceAll,
         Start, data
<1>3. SUFFICES /\ FreeOf(Keys(db'), revoked)
               /\ Cloud => FreeOf(Keys(s3'), revoked)
  BY <1>1, <1>2, <1>3 DEF OutInv, FreeOf
<1>4. CASE LoadFails \/ LoadAnswers \/ Start
  BY <1>4 DEF LoadFails, LoadAnswers, Start, data, OutInv
<1>5. CASE HealStore
  <2>1. db' = db /\ (s3' = Entries(db) \/ s3' = s3)
    BY <1>5 DEF HealStore, BootSaveFails
  <2> QED  BY <2>1, ProjectedKeys DEF OutInv, FreeOf
<1>6. CASE ColdSave
  <2>1. db' = db /\ (s3' = SeedEntries(seed) \/ s3' = s3)
    BY <1>6 DEF ColdSave, BootSaveFails
  <2>2. Keys(SeedEntries(seed)) \subseteq SeedKeys
    BY LoadedKeys DEF TypeOK
  <2> QED  BY <2>1, <2>2 DEF OutInv, FreeOf
<1>7. CASE SeedTable
  <2>1. PICK n \in 0 .. Len(seed) : db' = Seeded(n)
    BY <1>7 DEF SeedTable
  <2>2. Keys(db') \subseteq SeedKeys \/ db' = db
    BY <2>1, LoadedKeys DEF Seeded, TypeOK
  <2>3. s3' = s3
    BY <1>7 DEF SeedTable
  <2> QED  BY <2>2, <2>3 DEF OutInv, FreeOf
<1>8. CASE ReplaceAll
  <2>1. s3' = s3 /\ (db' = EnabledRows(s3) \/ db' = db)
    BY <1>8 DEF ReplaceAll
  <2>2. Cloud
    BY <1>8 DEF ReplaceAll, LatchInv
  <2> QED  BY <2>1, <2>2, ProjectedKeys DEF OutInv, FreeOf
<1> QED  BY <1>4, <1>5, <1>6, <1>7, <1>8

\* What happens to the process, the host and the store.
LEMMA OutEnvironment ==
    ASSUME TypeOK, OutInv,
           Environment \/ RecheckStore \/ UNCHANGED vars
    PROVE  OutInv'
<1>0. ASSUME NEW c \in Torn PROVE FreeOf(Keys(c), revoked)
  <2>1. Keys(c) \subseteq Keys(conf) \cup Keys(Peers(db))
    BY DEF Torn, Keys
  <2> QED  BY <2>1, ProjectedKeys DEF OutInv, FreeOf
<1>1. CASE Crash
  BY <1>0, <1>1 DEF Crash, ProcessGone, OutInv, FreeOf, NoOp
<1>2. CASE HostReboot
  BY <1>0, <1>2 DEF HostReboot, ProcessGone, OutInv, FreeOf, NoOp
<1>3. CASE Rebuild
  <2>1. Keys(db') = {} /\ Keys(conf') \subseteq SeedKeys /\ kernel' = conf'
    BY <1>3, ProjectedKeys DEF Rebuild, Keys
  <2> QED  BY <1>3, <2>1 DEF Rebuild, ProcessGone, OutInv, FreeOf, NoOp
<1>4. CASE StoreToggles
  BY <1>4 DEF StoreToggles, StoreDependable, OutInv, data, history
<1>5. CASE RecheckStore \/ UNCHANGED vars
  BY <1>5 DEF RecheckStore, OutInv, vars, data, control, history
<1> QED  BY <1>1, <1>2, <1>3, <1>4, <1>5 DEF Environment

\* A client whose removal was acknowledged stays out of the table, wg0.conf
\* and the interface until it is added again, through failed applies,
\* crashes, reboots and replaced instances, as long as the store answers.
THEOREM RevokedOut == StoreDependable /\ Spec => []RevokedStaysOut
<1>1. Init => LiveInv /\ LatchInv
  BY DEF Init, LiveInv, LiveMatchesTable, LatchInv
<1>2. StoreDependable /\ Init => OutInv
  BY DEF Init, OutInv, FreeOf, NoOp
<1>3. TypeOK /\ AddressSafety /\ LiveInv /\ LatchInv /\ OutInv
         /\ [Next]_vars => OutInv'
  BY OutMutation, OutApply, OutBoot, OutEnvironment DEF Next, Step, OutInv
<1>4. OutInv => RevokedStaysOut
  BY DEF OutInv, FreeOf, RevokedStaysOut
<1> QED  BY <1>1, <1>2, <1>3, <1>4, TypeInit, TypeStep, AddressInit, AddressStep,
            LiveStep, LatchStep, PTL
         DEF Spec

-----------------------------------------------------------------------------
(* Disabled clients, in local mode. *)

\* Why DisabledStaysOut holds without a store: the row of a disabled client
\* stays in the table with its flag down, so that neither an apply renders it
\* nor a boot finds the table empty and seeds it again; and the disabling is
\* acknowledged only after an apply.
DisabledInv ==
    /\ ~Cloud
    /\ disabled \cup op.off \subseteq Keys(db)
    /\ \A r \in db : r.key \in disabled \cup op.off => ~r.enabled
    /\ DisabledStaysOut

\* No peer is rendered for a client that is, or is being, disabled.
LEMMA DisabledNotRendered ==
    ASSUME DisabledInv
    PROVE  (disabled \cup op.off) \cap Keys(Peers(db)) = {}
  BY DEF DisabledInv, Keys, Peers, PeerOf

\* Mutations: the flag of a row goes up only by the operator's own update.
LEMMA DisabledMutation ==
    ASSUME AddressSafety', DisabledInv, Mutation
    PROVE  DisabledInv'
<1>0. UniqueTable(db')
  BY DEF AddressSafety
<1>1. ASSUME NEW effect, NEW next, Commit(effect, next), UNCHANGED <<conf, kernel>>,
             effect.off \cup (disabled \ (effect.on \cup effect.del)) \subseteq Keys(db'),
             \A r \in db' :
                r.key \in effect.off \cup (disabled \ (effect.on \cup effect.del))
                   => ~r.enabled
      PROVE  DisabledInv'
  BY <1>1 DEF Commit, DisabledInv, DisabledStaysOut
<1>2. ASSUME NEW n \in Name, NEW k \in Key, NEW a \in Subnet,
             NEW auto \in BOOLEAN, Add(n, k, a, auto)
      PROVE  DisabledInv'
  <2> DEFINE row == [name |-> n, key |-> k, addr |-> a, enabled |-> TRUE]
             effect == [NoOp EXCEPT !.add = {k}, !.on = {k}]
  <2>1. db' = db \cup {row} /\ row.key = k
    BY <1>2 DEF Add
  <2>2. effect.on = {k} /\ effect.off = {} /\ effect.del = {}
    BY DEF NoOp
  <2>3. Commit(effect, "save") /\ UNCHANGED <<conf, kernel>>
    BY <1>2 DEF Add
  <2> HIDE DEF row, effect
  <2>4. Keys(db) \subseteq Keys(db')
    BY <2>1 DEF Keys
  <2> QED  BY <1>1, <2>1, <2>2, <2>3, <2>4 DEF DisabledInv
<1>3. ASSUME NEW from \in db, NEW to \in Row, NEW canonical \in BOOLEAN,
             Update(from, to, canonical)
      PROVE  DisabledInv'
  <2> DEFINE effect == [add |-> IF canonical THEN {to.key} ELSE {},
                        del |-> {from.key} \ {to.key},
                        on  |-> IF to.enabled THEN {to.key} ELSE {},
                        off |-> IF to.enabled THEN {} ELSE {to.key}]
             next == IF canonical THEN "save" ELSE "toggle"
  <2>1. /\ Commit(effect, next) /\ UNCHANGED <<conf, kernel>>
        /\ db' = (db \ {from}) \cup {to}
    BY <1>3 DEF Update
  <2>2. /\ effect.del = {from.key} \ {to.key}
        /\ effect.on = IF to.enabled THEN {to.key} ELSE {}
        /\ effect.off = IF to.enabled THEN {} ELSE {to.key}
    OBVIOUS
  <2> HIDE DEF effect, next
  <2>3. to.key \in Keys(db') /\ Keys(db) \ ({from.key} \ {to.key}) \subseteq Keys(db')
    BY <2>1 DEF Keys
  <2>4. \A r \in db' : r.key = to.key => r = to
    BY <1>0, <2>1 DEF UniqueTable, Disjoint
  <2>5. \A r \in db' : r # to => r \in db
    BY <2>1
  <2>6. to.enabled \in BOOLEAN
    BY DEF Row
  <2>7. ASSUME NEW r \in db',
               r.key \in effect.off \cup (disabled \ (effect.on \cup effect.del))
        PROVE  ~r.enabled
    <3>1. CASE r = to
      BY <2>2, <2>7, <3>1
    <3>2. CASE r # to
      BY <2>2, <2>4, <2>5, <2>7, <3>2 DEF DisabledInv
    <3> QED  BY <3>1, <3>2
  <2>8. effect.off \cup (disabled \ (effect.on \cup effect.del)) \subseteq Keys(db')
    BY <2>2, <2>3 DEF DisabledInv
  <2> QED  BY <1>1, <2>1, <2>7, <2>8
<1>4. ASSUME NEW n \in Name, Delete(n)
      PROVE  DisabledInv'
  <2> DEFINE removed == Keys({r \in db : r.name = n})
             effect == [NoOp EXCEPT !.del = removed]
  <2>1. db' = {r \in db : r.name # n}
    BY <1>4 DEF Delete
  <2>2. Keys(db) \ removed \subseteq Keys(db') /\ db' \subseteq db
    BY <2>1 DEF Keys
  <2>3. /\ Commit(effect, "save") /\ UNCHANGED <<conf, kernel>>
        /\ effect.on = {} /\ effect.off = {} /\ effect.del = removed
    BY <1>4 DEF Delete, NoOp
  <2> HIDE DEF effect, removed
  <2> QED  BY <1>1, <2>2, <2>3 DEF DisabledInv
<1>5. ASSUME NEW n \in Name, DeleteCheck(n)
      PROVE  DisabledInv'
  BY <1>5 DEF DeleteCheck, DisabledInv, DisabledStaysOut, data, history
<1> QED  BY <1>2, <1>3, <1>4, <1>5 DEF Mutation

LEMMA DisabledStep ==
    LiveInv /\ LatchInv /\ AddressSafety' /\ DisabledInv /\ [Next]_vars
       => DisabledInv'
<1> SUFFICES ASSUME LiveInv, LatchInv, AddressSafety', DisabledInv, [Next]_vars
             PROVE  DisabledInv'
  OBVIOUS
<1>0. /\ ~Cloud /\ disabled \cup op.off \subseteq Keys(db) /\ DisabledStaysOut
      /\ \A r \in db : r.key \in disabled \cup op.off => ~r.enabled
      /\ (disabled \cup op.off) \cap Keys(Peers(db)) = {}
  BY DisabledNotRendered DEF DisabledInv
<1>1. ASSUME UNCHANGED <<db, op, disabled>>,
             conf' \in {conf, Peers(db)}, kernel' \in {kernel, conf}
      PROVE  DisabledInv'
  BY <1>0, <1>1 DEF DisabledInv, DisabledStaysOut
<1>2. ASSUME UNCHANGED <<db, conf>>, kernel' \in {kernel, conf}, Finish("error")
      PROVE  DisabledInv'
  BY <1>0, <1>2 DEF Finish, NoOp, DisabledInv, DisabledStaysOut
<1>3. ASSUME UNCHANGED <<db, conf>>, conf = Peers(db), kernel' = conf, Finish("ok")
      PROVE  DisabledInv'
  BY <1>0, <1>3 DEF Finish, NoOp, DisabledInv, DisabledStaysOut
<1>4. CASE Mutation
  BY <1>4, DisabledMutation
<1>5. CASE Stage
  BY <1>1, <1>2, <1>5 DEF Stage, ApplyFails, Goto, GotoWith, data
<1>6. CASE Merge
  BY <1>1, <1>2, <1>6 DEF Merge, ApplyFails, Goto, GotoWith
<1>7. CASE Sync
  <2>1. conf = Peers(db) /\ UNCHANGED <<db, conf>>
    BY <1>7 DEF Sync, LiveInv
  <2> QED  BY <1>1, <1>2, <1>3, <1>7, <2>1
           DEF Sync, AfterApply, ApplyFails, Goto, GotoWith
<1>8. CASE Save
  BY <1>0, <1>3, <1>8 DEF Save, LiveInv, data
<1>9. CASE Put \/ LoadFails \/ LoadAnswers \/ HealStore \/ ColdSave \/ ReplaceAll
           \/ Rebuild
  BY <1>0, <1>9 DEF LatchInv, Put, LoadFails, LoadAnswers, HealStore, ColdSave,
                    ReplaceAll, Rebuild
<1>10. CASE SeedTable
  <2>1. CASE db # {}
    BY <1>1, <1>2, <1>10, <2>1 DEF SeedTable, Seeded, Goto, GotoWith
  <2>2. CASE db = {}
    <3>1. disabled = {} /\ op.off = {}
      BY <1>0, <2>2 DEF Keys
    <3>2. disabled' = {} /\ op'.off = {}
      BY <1>10, <3>1 DEF SeedTable, Goto, GotoWith, Finish, NoOp
    <3> QED  BY <1>0, <3>2 DEF DisabledInv, DisabledStaysOut
  <2> QED  BY <2>1, <2>2
<1>11. CASE Crash \/ HostReboot
  <2>1. \A c \in Torn : Keys(c) \subseteq Keys(conf) \cup Keys(Peers(db))
    BY DEF Torn, Keys
  <2>2. /\ conf' \in Torn /\ kernel' \in {kernel, conf'}
        /\ UNCHANGED <<db, disabled>> /\ op'.off = {}
    BY <1>11 DEF Crash, HostReboot, ProcessGone, NoOp
  <2> QED  BY <1>0, <2>1, <2>2 DEF DisabledInv, DisabledStaysOut
<1>12. CASE Start \/ RecheckStore \/ StoreToggles \/ UNCHANGED vars
  BY <1>1, <1>12 DEF Start, RecheckStore, StoreToggles, vars, data, control,
                     history
<1> QED  BY <1>4, <1>5, <1>6, <1>7, <1>8, <1>9, <1>10, <1>11, <1>12
         DEF Next, Step, Environment

\* In local mode a client whose disabling was acknowledged has no peer in
\* wg0.conf or on the interface until the operator enables, re-adds or removes
\* it, through failed applies, torn files, crashes, reboots and seeding.
THEOREM DisabledOutLocally == ~Cloud /\ Spec => []DisabledStaysOut
<1>1. Init => LiveInv /\ LatchInv
  BY DEF Init, LiveInv, LiveMatchesTable, LatchInv
<1>2. ~Cloud /\ Init => DisabledInv
  BY DEF Init, DisabledInv, DisabledStaysOut, NoOp
<1>3. DisabledInv => DisabledStaysOut
  BY DEF DisabledInv
<1> QED  BY <1>1, <1>2, <1>3, TypeInit, TypeStep, AddressInit, AddressStep,
            LiveStep, LatchStep, DisabledStep, PTL
         DEF Spec

-----------------------------------------------------------------------------
(* Acknowledged clients and the backup, in cloud mode. *)

\* The store answers every call, and the manifest is read and seeded without
\* a failure of the database.
BackupDependable == Cloud /\ {"outage", "lost", "cancel", "db"} \cap Faults = {}

Mutating == {"stage", "merge", "sync", "save", "put"}

\* The table has every acknowledged client, and every peer of the backup that
\* was not removed.
Covers == wanted \subseteq Keys(db) /\ Keys(s3) \subseteq Keys(db) \cup gone

\* Why nothing acknowledged is lost: the backup has every acknowledged client
\* too, and the table covers the backup except on a replaced instance, whose
\* table is empty until it is restored.
CloudInv ==
    /\ BackupDependable
    /\ storeUp
    /\ wanted \subseteq Keys(s3)
    /\ cont # "save" => op.add = {}
    /\ pc \notin Mutating => cont # "save"
    /\ op.add \subseteq Keys(db)
    /\ pc \in {"heal", "coldsave"} => s3 = {}
    /\ pc = "coldsave" => db = {}
    /\ pc = "seed" => db = {} /\ cont = "cold" /\ s3 = SeedEntries(seed)
    /\ pc \in {"down", "load", "replace"} => db = {} \/ Covers
    /\ pc \in Mutating \cup {"idle"} => Covers

\* A table and its backup have the same keys, and so have a backup and the
\* table restored from it.
LEMMA SameKeys ==
    /\ \A rows : Keys(Entries(rows)) = Keys(rows)
    /\ \A entries : Keys(EnabledRows(entries)) = Keys(entries)
<1>1. \A r : EntryOf(r).key = r.key /\ EnabledRow(r).key = r.key
  BY DEF EntryOf, EnabledRow
<1>2. ASSUME NEW rows PROVE Keys(Entries(rows)) = Keys(rows)
  BY <1>1 DEF Keys, Entries
<1>3. ASSUME NEW entries PROVE Keys(EnabledRows(entries)) = Keys(entries)
  BY <1>1 DEF Keys, EnabledRows
<1> QED  BY <1>2, <1>3

\* A restore into an empty table is never refused.
LEMMA RestoreCommits ==
    ASSUME TypeOK, AddressSafety, NEW want, NEW order
    PROVE  ValidSet(s3) /\ ReplaceCommits({}, want, order)
<1>1. ValidSet(s3)
  BY DEF ValidSet, TypeOK, Entry, AddressSafety
<1>2. Stale({}, want) = {}
  BY DEF Stale
<1>3. Cardinality(Stale({}, want)) = 0
  BY <1>2, FS_EmptySet
<1>4. ReplaceCommits({}, want, order)
  BY <1>3 DEF ReplaceCommits
<1> QED  BY <1>1, <1>4

\* Mutations: what leaves the table is neither wanted any more nor missed.
LEMMA CloudMutation ==
    ASSUME TypeOK, CloudInv, Mutation
    PROVE  CloudInv'
<1>0. /\ BackupDependable /\ storeUp /\ wanted \subseteq Keys(s3)
  BY DEF CloudInv
<1>1. ASSUME NEW effect, NEW next \in {"save", "toggle"},
             pc = "idle", Commit(effect, next),
             UNCHANGED <<s3, storeUp>>,
             next = "toggle" => effect.add = {},
             effect.add \subseteq Keys(db'),
             Keys(db) \ effect.del \subseteq Keys(db'),
             effect.add \cap effect.del = {}
      PROVE  CloudInv'
  <2>1. Covers
    BY <1>1 DEF CloudInv
  <2>2. Covers'
    BY <1>1, <2>1 DEF Covers, Commit
  <2>3. /\ pc' = "stage" /\ cont' = next /\ op'.add = effect.add
        /\ wanted' \subseteq Keys(s3')
    BY <1>0, <1>1 DEF Commit
  <2> QED  BY <1>0, <1>1, <2>2, <2>3 DEF CloudInv, Mutating
<1>2. ASSUME NEW n \in Name, NEW k \in Key, NEW a \in Subnet,
             NEW auto \in BOOLEAN, Add(n, k, a, auto)
      PROVE  CloudInv'
  <2> DEFINE row == [name |-> n, key |-> k, addr |-> a, enabled |-> TRUE]
  <2>0. db' = db \cup {row} /\ row.key = k
    BY <1>2 DEF Add
  <2> HIDE DEF row
  <2>1. {k} \subseteq Keys(db') /\ Keys(db) \ {} \subseteq Keys(db')
    BY <2>0 DEF Keys
  <2> DEFINE effect == [NoOp EXCEPT !.add = {k}, !.on = {k}]
  <2>2. /\ pc = "idle" /\ Commit(effect, "save") /\ UNCHANGED <<s3, storeUp>>
        /\ effect.add = {k} /\ effect.del = {}
    BY <1>2 DEF Add, NoOp
  <2> HIDE DEF effect
  <2> QED  BY <1>1, <2>1, <2>2
<1>3. ASSUME NEW from \in db, NEW to \in Row, NEW canonical \in BOOLEAN,
             Update(from, to, canonical)
      PROVE  CloudInv'
  <2> DEFINE added == IF canonical THEN {to.key} ELSE {}
             removed == {from.key} \ {to.key}
             next == IF canonical THEN "save" ELSE "toggle"
             effect == [add |-> added, del |-> removed,
                        on  |-> IF to.enabled THEN {to.key} ELSE {},
                        off |-> IF to.enabled THEN {} ELSE {to.key}]
  <2>1. db' = (db \ {from}) \cup {to}
    BY <1>3 DEF Update
  <2>2. to.key \in Keys(db') /\ Keys(db) \ removed \subseteq Keys(db')
    BY <2>1 DEF Keys
  <2>3. added \subseteq Keys(db') /\ added \cap removed = {}
    BY <2>2
  <2>4. /\ Commit(effect, next) /\ next \in {"save", "toggle"}
        /\ next = "toggle" => added = {}
        /\ pc = "idle" /\ UNCHANGED <<s3, storeUp>>
        /\ effect.add = added /\ effect.del = removed
    BY <1>3 DEF Update
  <2> HIDE DEF effect, added, removed, next
  <2> QED  BY <1>1, <2>2, <2>3, <2>4
<1>4. ASSUME NEW n \in Name, Delete(n)
      PROVE  CloudInv'
  <2> DEFINE removed == Keys({r \in db : r.name = n})
             effect == [NoOp EXCEPT !.del = removed]
  <2>1. db' = {r \in db : r.name # n}
    BY <1>4 DEF Delete
  <2>2. Keys(db) \ removed \subseteq Keys(db')
    BY <2>1 DEF Keys
  <2>3. /\ pc = "idle" /\ Commit(effect, "save") /\ UNCHANGED <<s3, storeUp>>
        /\ effect.add = {} /\ effect.del = removed
    BY <1>4 DEF Delete, NoOp
  <2> HIDE DEF effect, removed
  <2> QED  BY <1>1, <2>2, <2>3
<1>5. ASSUME NEW n \in Name, DeleteCheck(n)
      PROVE  CloudInv'
  BY <1>5 DEF DeleteCheck, CloudInv, Covers, data, history
<1> QED  BY <1>2, <1>3, <1>4, <1>5 DEF Mutation

\* applyLocked and saveStoreLocked: a client is acknowledged once the backup
\* has it.
LEMMA CloudApply ==
    ASSUME TypeOK, CloudInv, Stage \/ Merge \/ Sync \/ Save \/ Put
    PROVE  CloudInv'
<1>0. /\ Cloud /\ storeUp /\ "cancel" \notin Faults /\ BackupDependable
      /\ wanted \subseteq Keys(s3) /\ op.add \subseteq Keys(db)
      /\ cont # "save" => op.add = {}
      /\ Covers
  BY DEF CloudInv, BackupDependable, Mutating, Stage, Merge, Sync, Save, Put
<1>1. UNCHANGED <<db, storeUp>>
  BY DEF Stage, Merge, Sync, Save, Put, data
<1>2. ASSUME UNCHANGED s3, NEW result, Finish(result),
             result = "ok" => op.add = {}
      PROVE  CloudInv'
  <2>1. wanted' = wanted /\ gone' = gone
    BY <1>2 DEF Finish
  <2>2. Covers'
    BY <1>0, <1>1, <1>2, <2>1 DEF Covers
  <2>3. pc' = "idle" /\ cont' = "none" /\ op'.add = {}
    BY <1>2 DEF Finish, NoOp
  <2> QED  BY <1>0, <1>1, <1>2, <2>1, <2>2, <2>3 DEF CloudInv, Mutating
<1>3. ASSUME UNCHANGED s3, Goto(pc'), pc' \in Mutating
      PROVE  CloudInv'
  <2>1. UNCHANGED <<cont, op, wanted, gone>>
    BY <1>3 DEF Goto, GotoWith
  <2>2. Covers'
    BY <1>0, <1>1, <1>3, <2>1 DEF Covers
  <2> QED  BY <1>0, <1>1, <1>3, <2>1, <2>2 DEF CloudInv, Mutating
<1>4. CASE Stage
  BY <1>2, <1>3, <1>4 DEF Stage, ApplyFails, Goto, GotoWith, Mutating, data
<1>5. CASE Merge
  BY <1>2, <1>3, <1>5 DEF Merge, ApplyFails, Goto, GotoWith, Mutating
<1>6. CASE Sync
  <2>1. UNCHANGED s3
    BY <1>6 DEF Sync
  <2>2. ASSUME AfterApply PROVE CloudInv'
    <3>1. CASE cont \in {"save", "replace"} /\ Goto("save")
      BY <1>3, <2>1, <3>1 DEF Goto, GotoWith, Mutating
    <3>2. CASE cont \in {"toggle", "local", "cold", "hard"}
      BY <1>0, <1>2, <2>1, <2>2, <3>2 DEF AfterApply
    <3> QED  BY <2>2, <3>1, <3>2 DEF AfterApply
  <2> QED  BY <1>2, <1>6, <2>1, <2>2 DEF Sync, ApplyFails
<1>7. CASE Save
  <2>1. UNCHANGED s3 /\ Goto("put")
    BY <1>0, <1>7 DEF Save, HealProbe, data
  <2> QED  BY <1>3, <2>1 DEF Goto, GotoWith, Mutating
<1>8. CASE Put
  <2>1. s3' = Entries(db) /\ Finish("ok")
    BY <1>0, <1>8 DEF Put
  <2>2. Keys(s3') = Keys(db)
    BY <2>1, SameKeys
  <2>3. wanted' = wanted \cup op.add /\ gone' = gone
        /\ pc' = "idle" /\ cont' = "none" /\ op'.add = {}
    BY <2>1 DEF Finish, NoOp
  <2>4. wanted' \subseteq Keys(db)
    BY <1>0, <2>3 DEF Covers
  <2>5. Covers' /\ wanted' \subseteq Keys(s3')
    BY <1>1, <2>2, <2>3, <2>4 DEF Covers
  <2> QED  BY <1>0, <1>1, <2>3, <2>5 DEF CloudInv, Mutating
<1> QED  BY <1>4, <1>5, <1>6, <1>7, <1>8

\* The boot: an empty store is filled from the table or the manifest, and a
\* table that does not cover the store is empty and is restored from it.
LEMMA CloudBoot ==
    ASSUME TypeOK, AddressSafety, CloudInv,
           \/ LoadFails \/ LoadAnswers \/ HealStore \/ ColdSave
           \/ SeedTable \/ ReplaceAll \/ Start
    PROVE  CloudInv'
<1>0. /\ Cloud /\ storeUp /\ "db" \notin Faults /\ "lost" \notin Faults
      /\ BackupDependable
      /\ wanted \subseteq Keys(s3) /\ op.add = {} /\ cont # "save"
  BY DEF CloudInv, BackupDependable, Mutating, LoadFails, LoadAnswers, HealStore,
         ColdSave, SeedTable, ReplaceAll, Start
<1>1. Keys({}) = {}
  BY DEF Keys
<1>2. CASE LoadFails
  BY <1>0, <1>2 DEF LoadFails
<1>3. CASE LoadAnswers
  <2>1. /\ pc = "load" /\ UNCHANGED <<db, s3, storeUp, cont, op, wanted, gone>>
        /\ pc' = IF s3 # {} THEN "replace" ELSE IF db # {} THEN "heal" ELSE "coldsave"
    BY <1>3 DEF LoadAnswers, Goto, GotoWith, data
  <2>2. db' = {} \/ Covers'
    BY <2>1 DEF CloudInv, Covers
  <2> QED  BY <1>0, <2>1, <2>2 DEF CloudInv, Mutating
<1>4. CASE HealStore
  <2>1. /\ s3 = {} /\ s3' = Entries(db) /\ UNCHANGED <<db, storeUp>>
        /\ Finish("healed")
    BY <1>0, <1>4 DEF HealStore, BootSaveFails, CloudInv
  <2>2. wanted' = {} /\ pc' = "idle" /\ cont' = "none" /\ op'.add = {}
    BY <1>0, <1>1, <2>1 DEF Finish, NoOp
  <2>3. Keys(s3') = Keys(db)
    BY <2>1, SameKeys
  <2> QED  BY <1>0, <2>1, <2>2, <2>3 DEF CloudInv, Covers, Mutating
<1>5. CASE ColdSave
  <2>1. /\ s3 = {} /\ db = {} /\ s3' = SeedEntries(seed)
        /\ UNCHANGED <<db, storeUp, op, seed, wanted, gone>>
        /\ pc' = "seed" /\ cont' = "cold"
    BY <1>0, <1>5 DEF ColdSave, BootSaveFails, CloudInv, GotoWith
  <2>2. wanted' = {}
    BY <1>0, <1>1, <2>1
  <2> QED  BY <1>0, <1>1, <2>1, <2>2 DEF CloudInv, Mutating
<1>6. CASE SeedTable
  <2>1. db = {} /\ cont = "cold" /\ s3 = SeedEntries(seed)
    BY <1>6 DEF SeedTable, CloudInv
  <2>2. seed \in Seq(Entry)
    BY SeedTypes DEF TypeOK
  <2>3. /\ db' = SeededRows(Len(seed)) /\ Goto("stage")
        /\ UNCHANGED <<s3, storeUp>>
    BY <1>0, <1>6, <2>1, <2>2 DEF SeedTable, Seeded
  <2>4. SeededRows(Len(seed)) = EnabledRows(s3)
    <3>1. DOMAIN seed = 1 .. Len(seed)
      BY <2>2
    <3> QED  BY <2>1, <3>1, Zenon DEF SeededRows, SeedEntries
  <2>5. Keys(db') = Keys(s3)
    BY <2>3, <2>4, SameKeys
  <2>6. pc' = "stage" /\ UNCHANGED <<cont, op, wanted, gone>>
    BY <2>3 DEF Goto, GotoWith
  <2> QED  BY <1>0, <2>3, <2>5, <2>6 DEF CloudInv, Covers, Mutating
<1>7. CASE ReplaceAll
  <2>0. pc = "replace" /\ UNCHANGED <<s3, storeUp>>
    BY <1>7 DEF ReplaceAll
  <2> DEFINE want == EnabledRows(s3)
  <2>1. PICK order \in UpdateOrders(db, want) :
          \/ /\ ValidSet(s3) /\ ReplaceCommits(db, want, order)
             /\ db' = want
             /\ GotoWith("stage", "replace")
          \/ /\ ~(ValidSet(s3) /\ ReplaceCommits(db, want, order))
             /\ Finish("error")
             /\ UNCHANGED db
    BY <1>0, <1>7 DEF ReplaceAll
  <2>2. CASE db' = want /\ GotoWith("stage", "replace")
    <3>1. Keys(db') = Keys(s3)
      BY <2>2, SameKeys
    <3>2. pc' = "stage" /\ cont' = "replace" /\ UNCHANGED <<op, wanted, gone>>
      BY <2>2 DEF GotoWith
    <3> QED  BY <1>0, <2>0, <3>1, <3>2 DEF CloudInv, Covers, Mutating
  <2>3. CASE /\ ~(ValidSet(s3) /\ ReplaceCommits(db, want, order))
             /\ Finish("error") /\ UNCHANGED db
    <3>1. db # {}
      BY <2>3, RestoreCommits
    <3>2. Covers
      BY <2>0, <3>1 DEF CloudInv
    <3>3. pc' = "idle" /\ cont' = "none" /\ op'.add = {} /\ UNCHANGED <<wanted, gone>>
      BY <2>3 DEF Finish, NoOp
    <3>4. Covers'
      BY <2>0, <2>3, <3>2, <3>3 DEF Covers
    <3> QED  BY <1>0, <2>0, <3>3, <3>4 DEF CloudInv, Mutating
  <2> QED  BY <2>1, <2>2, <2>3
<1>8. CASE Start
  <2>1. /\ pc = "down" /\ pc' = "load" /\ cont' = "none"
        /\ UNCHANGED <<db, s3, storeUp, op, wanted, gone>>
    BY <1>0, <1>8 DEF Start, data, history
  <2>2. db' = {} \/ Covers'
    BY <2>1 DEF CloudInv, Covers
  <2> QED  BY <1>0, <2>1, <2>2 DEF CloudInv, Mutating
<1> QED  BY <1>2, <1>3, <1>4, <1>5, <1>6, <1>7, <1>8

\* Wherever it is stopped, a process leaves a covering table or an empty one.
LEMMA CloudEnvironment ==
    ASSUME TypeOK, CloudInv, Environment \/ RecheckStore \/ UNCHANGED vars
    PROVE  CloudInv'
<1>0. /\ storeUp /\ BackupDependable /\ wanted \subseteq Keys(s3) /\ "outage" \notin Faults
  BY DEF CloudInv, BackupDependable
<1>1. db = {} \/ Covers
  <2>1. CASE pc = "heal"
    <3>1. s3 = {}
      BY <2>1 DEF CloudInv
    <3>2. Keys(s3) = {}
      BY <3>1 DEF Keys
    <3> QED  BY <1>0, <3>2 DEF Covers
  <2>2. CASE pc # "heal"
    BY <2>2 DEF CloudInv, TypeOK, Steps, Mutating
  <2> QED  BY <2>1, <2>2
<1>2. ASSUME ProcessGone, UNCHANGED <<s3, storeUp, wanted, gone>>, db' = db \/ db' = {}
      PROVE  CloudInv'
  <2>1. pc' = "down" /\ cont' = "none" /\ op'.add = {}
    BY <1>2 DEF ProcessGone, NoOp
  <2>2. db' = {} \/ Covers'
    BY <1>1, <1>2 DEF Covers
  <2> QED  BY <1>0, <1>2, <2>1, <2>2 DEF CloudInv, Mutating
<1>3. CASE Crash \/ HostReboot \/ Rebuild
  BY <1>2, <1>3 DEF Crash, HostReboot, Rebuild, data
<1>4. CASE StoreToggles
  BY <1>0, <1>4 DEF StoreToggles
<1>5. CASE RecheckStore \/ UNCHANGED vars
  <2>1. UNCHANGED <<db, s3, storeUp, pc, cont, op, seed, wanted, gone>>
    BY <1>5 DEF RecheckStore, vars, data, control, history
  <2>2. Covers' <=> Covers
    BY <2>1 DEF Covers
  <2> QED  BY <2>1, <2>2 DEF CloudInv
<1> QED  BY <1>3, <1>4, <1>5 DEF Environment

LEMMA CloudStep ==
    TypeOK /\ AddressSafety /\ CloudInv /\ [Next]_vars => CloudInv'
  BY CloudMutation, CloudApply, CloudBoot, CloudEnvironment DEF Next, Step

LEMMA CloudInit == BackupDependable /\ Init => CloudInv
  BY DEF Init, CloudInv, NoOp, Mutating, Keys

\* In cloud mode, too, a client acknowledged to the operator is in the table
\* of every serving process, on the same instance or on a replacement, as
\* long as the store answers.
THEOREM AckedSurvivesInCloud == BackupDependable /\ Spec => []AckedSurvives
<1>1. CloudInv => AckedSurvives
  BY DEF CloudInv, Covers, AckedSurvives, Mutating
<1> QED  BY <1>1, CloudInit, CloudStep, TypeInit, TypeStep, AddressInit, AddressStep,
            PTL
         DEF Spec

\* saveStoreLocked and the boot never drop a peer from the backup that the
\* operator did not remove, as long as the store answers.
THEOREM BackupLosesNothing == BackupDependable /\ Spec => BackupKeepsPeers
<1>1. CloudInv /\ CloudInv' /\ [Next]_vars
        => [Keys(s3) \ Keys(s3') \subseteq gone']_vars
  <2> SUFFICES ASSUME CloudInv, [Next]_vars
      PROVE  Keys(s3) \ Keys(s3') \subseteq gone'
    OBVIOUS
  <2>1. CASE Put
    <3>1. Cloud /\ storeUp /\ "cancel" \notin Faults /\ Covers
      BY <2>1 DEF Put, CloudInv, BackupDependable, Mutating
    <3>2. s3' = Entries(db) /\ gone' = gone
      BY <2>1, <3>1 DEF Put, Finish
    <3> QED  BY <3>1, <3>2, SameKeys DEF Covers
  <2>2. CASE HealStore \/ ColdSave
    <3>1. s3 = {}
      BY <2>2 DEF HealStore, ColdSave, CloudInv
    <3> QED  BY <3>1 DEF Keys
  <2>3. CASE UNCHANGED s3
    BY <2>3
  <2> QED
    BY <2>1, <2>2, <2>3
    DEF Next, Step, Mutation, Environment, Add, Update, DeleteCheck, Delete,
        Stage, Merge, Sync, Save, LoadFails, LoadAnswers, SeedTable,
        ReplaceAll, Start, RecheckStore, Crash, HostReboot, Rebuild,
        StoreToggles, data, vars
<1> QED  BY <1>1, CloudInit, CloudStep, TypeInit, TypeStep, AddressInit, AddressStep,
            PTL
         DEF Spec, BackupKeepsPeers
=============================================================================
