------------------------ MODULE DeleteTokensProofs -------------------------
(***************************************************************************)
(* What a delete token allows, for any names, keys, tokens, concurrent     *)
(* calls and lifetime.                                                     *)
(***************************************************************************)
EXTENDS DeleteTokens, TLAPS

-----------------------------------------------------------------------------
(* The inductive invariant.                                                *)

\* The peer a preview showed still has its name, or has lost it to nobody.
StillShown(n, k) == clients[n].key \in {k, None}

\* A preview between its GET and Issue.
IssueInv ==
    \A c \in Call : calls[c].stage = "issue" =>
        /\ calls[c].name \in Name /\ calls[c].key \in Key
        /\ c \notin stale => StillShown(calls[c].name, calls[c].key)

\* A removal under way holds a token of its own, redeemed in time for the
\* name it was minted for and not used yet.
RemoveInv ==
    \A c \in Call : calls[c].stage \in {"list", "remove"} =>
        /\ calls[c].name \in Name /\ calls[c].token \in Token
        /\ minted[calls[c].token].name = calls[c].name
        /\ minted[calls[c].token].at <= redeemed[calls[c].token]
        /\ redeemed[calls[c].token] <= minted[calls[c].token].at + TTL
        /\ \A r \in removals : r.token # calls[c].token
        /\ \A d \in Call : /\ calls[d].stage \in {"list", "remove"}
                           /\ calls[d].token = calls[c].token
                           => d = c

\* The store holds tokens that were minted for their name and not redeemed.
StoreInv ==
    \A n \in Name : tokens[n] # NoToken =>
        /\ tokens[n].token \in Token
        /\ minted[tokens[n].token].name = n
        /\ tokens[n].expires = minted[tokens[n].token].at + TTL
        /\ redeemed[tokens[n].token] = Never

\* A token shows a peer from the moment it is minted; before, it is unused.
MintInv ==
    \A t \in Token :
        /\ minted[t].at <= now
        /\ minted[t] = Unminted => redeemed[t] = Never /\ t \notin stale
        /\ minted[t] # Unminted =>
              /\ minted[t].name \in Name /\ minted[t].key \in Key
              /\ t \notin stale => StillShown(minted[t].name, minted[t].key)

TokenInv ==
    /\ TypeOK
    /\ IssueInv /\ RemoveInv /\ StoreInv /\ MintInv
    /\ ConsentedRemoval /\ OneRemovalPerPreview /\ ShownPeerRemoved
    /\ LatestPreviewWins

-----------------------------------------------------------------------------
(* Facts the operations share.                                             *)

\* A token that is not minted is not redeemed, and neither a removal nor a
\* call under way has it.
LEMMA UnmintedUnused ==
    ASSUME TokenInv, NEW t \in Token, minted[t] = Unminted
    PROVE  /\ minted[t].name = None
           /\ t \notin stale
           /\ \A r \in removals : r.token # t
           /\ \A c \in Call : calls[c].stage \in {"list", "remove"} =>
                                calls[c].token # t
           /\ \A n \in Name : tokens[n] # NoToken => tokens[n].token # t
<1>1. minted[t].name = None /\ t \notin stale
  BY DEF TokenInv, MintInv, Unminted
<1>2. \A r \in removals : r.token # t
  BY <1>1, NoneAssumption DEF TokenInv, TypeOK, ConsentedRemoval
<1>3. \A c \in Call : calls[c].stage \in {"list", "remove"} => calls[c].token # t
  BY <1>1, NoneAssumption DEF TokenInv, RemoveInv
<1>4. \A n \in Name : tokens[n] # NoToken => tokens[n].token # t
  BY <1>1, NoneAssumption DEF TokenInv, StoreInv
<1> QED  BY <1>1, <1>2, <1>3, <1>4

\* A token that matches is minted for the name, in time and unused.
LEMMA MatchingUnused ==
    ASSUME TokenInv, NEW n \in Name, NEW t \in Token, Matches(n, t)
    PROVE  /\ minted[t].name = n
           /\ minted[t].at <= now /\ now <= minted[t].at + TTL
           /\ minted[t] # Unminted
           /\ \A r \in removals : r.token # t
           /\ \A c \in Call : calls[c].stage \in {"list", "remove"} =>
                                calls[c].token # t
<1>1. tokens[n] # NoToken /\ tokens[n].token = t /\ now <= tokens[n].expires
  BY NoneAssumption DEF Matches, NoToken
<1>2. /\ minted[t].name = n /\ redeemed[t] = Never
      /\ minted[t].at <= now /\ now <= minted[t].at + TTL
  BY <1>1 DEF TokenInv, StoreInv, MintInv
<1>3. minted[t] # Unminted
  BY <1>2, NoneAssumption DEF Unminted
<1>4. minted[t].at \in Nat
  BY DEF TokenInv, TypeOK
<1>5. \A r \in removals : r.token # t
  BY <1>2, <1>4 DEF TokenInv, ConsentedRemoval, Never
<1>6. \A c \in Call : calls[c].stage \in {"list", "remove"} => calls[c].token # t
  BY <1>2, <1>4 DEF TokenInv, RemoveInv, Never
<1> QED  BY <1>2, <1>3, <1>5, <1>6

-----------------------------------------------------------------------------
(* One lemma per operation.                                                *)

\* Binding a name anew makes its previews stale, and disturbs no other.
LEMMA BindKeeps ==
    ASSUME TokenInv, NEW n \in Name, Bind(n, clients'),
           clients' \in [Name -> [key : Key \cup {None}, enabled : BOOLEAN]],
           \A m \in Name \ {n} : clients'[m].key \in {clients[m].key, None}
    PROVE  TokenInv'
<1> USE DEF TokenInv, TypeOK, Bind
<1>1. TypeOK'
  OBVIOUS
<1>2. IssueInv'
  BY DEF IssueInv, StillShown
<1>3. MintInv'
  <2> SUFFICES ASSUME NEW t \in Token
               PROVE  /\ minted[t] = Unminted => t \notin stale'
                      /\ minted[t] # Unminted /\ t \notin stale' =>
                            clients'[minted[t].name].key \in {minted[t].key, None}
    BY DEF MintInv, StillShown
  <2>1. minted[t] = Unminted => minted[t].name # n
    BY NoneAssumption DEF Unminted
  <2>2. minted[t] = Unminted => t \notin stale'
    BY <2>1, SortsAssumption DEF MintInv
  <2>3. ASSUME minted[t] # Unminted, t \notin stale'
        PROVE  clients'[minted[t].name].key \in {minted[t].key, None}
    <3>1. minted[t].name \in Name \ {n} /\ clients[minted[t].name].key \in {minted[t].key, None}
      BY <2>3 DEF MintInv, StillShown
    <3> QED  BY <3>1
  <2> QED  BY <2>2, <2>3
<1>4. RemoveInv' /\ StoreInv' /\ LatestPreviewWins'
  BY DEF RemoveInv, StoreInv, LatestPreviewWins
<1>5. ConsentedRemoval' /\ OneRemovalPerPreview' /\ ShownPeerRemoved'
  BY DEF ConsentedRemoval, OneRemovalPerPreview, ShownPeerRemoved
<1> QED  BY <1>1, <1>2, <1>3, <1>4, <1>5

\* add_client, edit_client, enable_client and disable_client.
LEMMA MutationKeeps ==
    ASSUME TokenInv, NEW n \in Name, Mutation(n)
    PROVE  TokenInv'
<1>0. TypeOK
  BY DEF TokenInv
<1>1. ASSUME NEW k \in Key, NEW confirm \in BOOLEAN, AddClient(n, k, confirm)
      PROVE  TokenInv'
  <2>1. /\ Bind(n, clients')
        /\ clients' = [clients EXCEPT ![n] = [key |-> k, enabled |-> TRUE]]
    BY <1>1 DEF AddClient, Bind
  <2> QED  BY <1>0, <2>1, BindKeeps DEF TypeOK
<1>2. ASSUME NEW k \in Key, NEW m \in Name, NEW confirm \in BOOLEAN,
             EditClient(n, m, k, confirm)
      PROVE  TokenInv'
  <2>1. /\ Bind(m, clients')
        /\ clients' = [clients EXCEPT
                          ![n] = Absent,
                          ![m] = [key |-> k, enabled |-> clients[n].enabled]]
    BY <1>2 DEF EditClient, Bind
  <2>2. clients' \in [Name -> [key : Key \cup {None}, enabled : BOOLEAN]]
    BY <1>0, <2>1 DEF TypeOK, Absent
  <2>3. \A x \in Name \ {m} : clients'[x].key \in {clients[x].key, None}
    BY <1>0, <2>1 DEF TypeOK, Absent
  <2> QED  BY <2>1, <2>2, <2>3, BindKeeps
<1>3. ASSUME NEW e \in BOOLEAN, NEW confirm \in BOOLEAN,
             toggleClient(n, e, confirm)
      PROVE  TokenInv'
  <2> USE <1>3 DEF TokenInv, TypeOK, toggleClient
  <2>1. TypeOK' /\ \A m \in Name : clients'[m].key = clients[m].key
    OBVIOUS
  <2>2. IssueInv' /\ MintInv'
    BY <2>1 DEF IssueInv, MintInv, StillShown
  <2>3. RemoveInv' /\ StoreInv' /\ LatestPreviewWins'
    BY DEF RemoveInv, StoreInv, LatestPreviewWins
  <2>4. ConsentedRemoval' /\ OneRemovalPerPreview' /\ ShownPeerRemoved'
    BY DEF ConsentedRemoval, OneRemovalPerPreview, ShownPeerRemoved
  <2> QED  BY <2>1, <2>2, <2>3, <2>4
<1> QED  BY <1>1, <1>2, <1>3 DEF Mutation

\* A removal on the web page takes a name from its key and gives it to none.
LEMMA RemoveElsewhereKeeps ==
    ASSUME TokenInv, NEW n \in Name, RemoveElsewhere(n)
    PROVE  TokenInv'
<1> USE DEF TokenInv, TypeOK, RemoveElsewhere, Absent
<1>1. TypeOK'
  OBVIOUS
<1>2. IssueInv' /\ MintInv'
  BY DEF IssueInv, MintInv, StillShown
<1>3. RemoveInv' /\ StoreInv' /\ LatestPreviewWins'
  BY DEF RemoveInv, StoreInv, LatestPreviewWins
<1>4. ConsentedRemoval' /\ OneRemovalPerPreview' /\ ShownPeerRemoved'
  BY DEF ConsentedRemoval, OneRemovalPerPreview, ShownPeerRemoved
<1> QED  BY <1>1, <1>2, <1>3, <1>4

\* The GET of a preview: what it shows is what the table holds.
LEMMA FetchKeeps ==
    ASSUME TokenInv, NEW c \in Call, NEW n \in Name, fetchClientRow(c, n)
    PROVE  TokenInv'
<1> USE SortsAssumption DEF TokenInv, TypeOK, fetchClientRow, Present
<1>1. TypeOK'
  OBVIOUS
<1>2. IssueInv'
  BY DEF IssueInv, StillShown
<1>3. RemoveInv'
  BY DEF RemoveInv
<1>4. MintInv' /\ ShownPeerRemoved'
  BY DEF MintInv, StillShown, ShownPeerRemoved
<1>5. StoreInv' /\ LatestPreviewWins' /\ ConsentedRemoval' /\ OneRemovalPerPreview'
  BY DEF StoreInv, LatestPreviewWins, ConsentedRemoval, OneRemovalPerPreview
<1> QED  BY <1>1, <1>2, <1>3, <1>4, <1>5

\* Store.Issue: the fresh token inherits what the preview saw, and is the
\* youngest of its name.
LEMMA IssueKeeps ==
    ASSUME TokenInv, NEW c \in Call, Issue(c)
    PROVE  TokenInv'
<1>0. PICK t \in Token :
          /\ minted[t] = Unminted
          /\ tokens' = Stored(calls[c].name, t)
          /\ minted' = [minted EXCEPT ![t] =
                 [name |-> calls[c].name, key |-> calls[c].key, at |-> now]]
          /\ stale' = (stale \ {c}) \cup {x \in {t} : c \in stale}
  BY DEF Issue
<1>1. /\ calls[c].name \in Name /\ calls[c].key \in Key
      /\ c \notin stale => StillShown(calls[c].name, calls[c].key)
  BY DEF TokenInv, IssueInv, Issue
<1>2. /\ t \notin stale /\ redeemed[t] = Never
      /\ \A r \in removals : r.token # t
      /\ \A d \in Call : calls[d].stage \in {"list", "remove"} =>
                           calls[d].token # t
      /\ \A n \in Name : tokens[n] # NoToken => tokens[n].token # t
  BY <1>0, UnmintedUnused DEF TokenInv, MintInv
<1>3. /\ calls' = [calls EXCEPT ![c] = Idle]
      /\ UNCHANGED <<clients, now, redeemed, removals>>
  BY DEF Issue
<1>4. \A u \in Token \ {t} : minted'[u] = minted[u] /\ (u \in stale' <=> u \in stale)
  BY <1>0, SortsAssumption DEF TokenInv, TypeOK
<1>5. minted'[t] = [name |-> calls[c].name, key |-> calls[c].key, at |-> now]
  BY <1>0 DEF TokenInv, TypeOK
<1>6. TypeOK'
  BY <1>0, <1>1, <1>3, ClockAssumption DEF TokenInv, TypeOK, Stored, Idle
<1>7. IssueInv'
  BY <1>0, <1>3, SortsAssumption DEF TokenInv, TypeOK, IssueInv, StillShown, Idle
<1>8. RemoveInv'
  <2> SUFFICES ASSUME NEW d \in Call, calls'[d].stage \in {"list", "remove"}
               PROVE  /\ calls'[d] = calls[d] /\ calls[d].token # t
    BY <1>3, <1>4 DEF TokenInv, TypeOK, RemoveInv
  <2> QED  BY <1>2, <1>3 DEF TokenInv, TypeOK, Idle
<1>9. StoreInv'
  BY <1>0, <1>1, <1>2, <1>3, <1>4, <1>5 DEF TokenInv, TypeOK, StoreInv, Stored
<1>10. MintInv'
  <2> SUFFICES ASSUME NEW u \in Token
               PROVE  /\ minted'[u].at <= now
                      /\ minted'[u] = Unminted => redeemed[u] = Never /\ u \notin stale'
                      /\ minted'[u] # Unminted =>
                            /\ minted'[u].name \in Name /\ minted'[u].key \in Key
                            /\ u \notin stale' =>
                                  StillShown(minted'[u].name, minted'[u].key)
    BY <1>3 DEF MintInv, StillShown
  <2>1. CASE u = t
    BY <1>0, <1>1, <1>2, <1>5, <2>1, NoneAssumption DEF TokenInv, TypeOK, Unminted
  <2>2. CASE u # t
    BY <1>4, <2>2 DEF TokenInv, MintInv
  <2> QED  BY <2>1, <2>2
<1>11. ConsentedRemoval' /\ OneRemovalPerPreview' /\ ShownPeerRemoved'
  BY <1>2, <1>3, <1>4 DEF TokenInv, TypeOK, ConsentedRemoval, OneRemovalPerPreview,
     ShownPeerRemoved
<1>12. LatestPreviewWins'
  <2> SUFFICES ASSUME NEW u \in Token, NEW n \in Name,
                      minted'[u].name = n, tokens'[n] # NoToken
               PROVE  minted'[u].at <= minted'[tokens'[n].token].at
    BY DEF LatestPreviewWins
  <2>1. CASE n = calls[c].name
    <3>1. tokens'[n].token = t
      BY <1>0, <2>1 DEF TokenInv, TypeOK, Stored
    <3> QED  BY <1>4, <1>5, <3>1 DEF TokenInv, TypeOK, MintInv
  <2>2. CASE n # calls[c].name
    <3>1. u # t /\ tokens'[n] = tokens[n]
      BY <1>0, <1>1, <1>5, <2>2 DEF TokenInv, TypeOK, Stored
    <3>2. tokens[n].token \in Token \ {t}
      BY <1>2, <3>1 DEF TokenInv, StoreInv
    <3> QED  BY <1>4, <3>1, <3>2 DEF TokenInv, LatestPreviewWins
  <2> QED  BY <2>1, <2>2
<1> QED
  BY <1>6, <1>7, <1>8, <1>9, <1>10, <1>11, <1>12 DEF TokenInv

\* Store.Verify: a match hands the token to one call and forgets it; an
\* expired entry is forgotten.
LEMMA VerifyKeeps ==
    ASSUME TokenInv, NEW c \in Call, NEW n \in Name, NEW t \in Token,
           Verify(c, n, t)
    PROVE  TokenInv'
<1>1. /\ calls[c] = Idle
      /\ tokens' = [tokens EXCEPT ![n] = NoToken]
      /\ UNCHANGED <<clients, now, minted, removals, stale>>
  BY DEF Verify
<1>2. LatestPreviewWins' /\ OneRemovalPerPreview' /\ ShownPeerRemoved'
  BY <1>1 DEF TokenInv, TypeOK, LatestPreviewWins, OneRemovalPerPreview,
     ShownPeerRemoved
<1>3. CASE Matches(n, t) /\ Redeem(c, n, t)
  <2>1. /\ minted[t].name = n
        /\ minted[t].at <= now /\ now <= minted[t].at + TTL
        /\ minted[t] # Unminted
        /\ \A r \in removals : r.token # t
        /\ \A d \in Call : calls[d].stage \in {"list", "remove"} =>
                             calls[d].token # t
    BY <1>3, MatchingUnused
  <2>2. /\ calls' = [calls EXCEPT ![c] = [stage |-> "list", name |-> n,
                                         key |-> None, token |-> t]]
        /\ redeemed' = [redeemed EXCEPT ![t] = now]
    BY <1>3 DEF Redeem
  <2>3. TypeOK'
    BY <1>1, <2>2 DEF TokenInv, TypeOK, NoToken
  <2>4. IssueInv'
    BY <1>1, <2>2 DEF TokenInv, TypeOK, IssueInv, StillShown
  <2>5. RemoveInv'
    BY <1>1, <2>1, <2>2 DEF TokenInv, TypeOK, RemoveInv
  <2>6. StoreInv'
    <3> SUFFICES ASSUME NEW m \in Name, tokens'[m] # NoToken
                 PROVE  m # n /\ tokens'[m] = tokens[m] /\ tokens[m].token # t
      BY <1>1, <2>2 DEF TokenInv, TypeOK, StoreInv
    <3>1. m # n /\ tokens'[m] = tokens[m]
      BY <1>1 DEF TokenInv, TypeOK
    <3>2. tokens[m].token # t
      BY <2>1, <3>1 DEF TokenInv, StoreInv
    <3> QED  BY <3>1, <3>2
  <2>7. MintInv'
    BY <1>1, <2>1, <2>2 DEF TokenInv, TypeOK, MintInv, StillShown
  <2>8. ConsentedRemoval'
    BY <1>1, <2>1, <2>2 DEF TokenInv, TypeOK, ConsentedRemoval
  <2> QED  BY <1>2, <2>3, <2>4, <2>5, <2>6, <2>7, <2>8 DEF TokenInv
<1>4. CASE UNCHANGED <<calls, redeemed>>
  <2>1. TypeOK'
    BY <1>1, <1>4 DEF TokenInv, TypeOK, NoToken
  <2>2. StoreInv'
    BY <1>1, <1>4 DEF TokenInv, TypeOK, StoreInv
  <2>3. IssueInv' /\ RemoveInv' /\ MintInv' /\ ConsentedRemoval'
    BY <1>1, <1>4 DEF TokenInv, IssueInv, RemoveInv, MintInv, StillShown,
       ConsentedRemoval
  <2> QED  BY <1>2, <2>1, <2>2, <2>3 DEF TokenInv
<1> QED  BY <1>3, <1>4 DEF Verify

\* The dashboard's look-up of the name, and a call that ends with an error:
\* a call goes on as it is or is over.
LEMMA CallGoesOn ==
    ASSUME TokenInv, NEW c \in Call, DeleteList(c) \/ CallFails(c)
    PROVE  TokenInv'
<1> USE DEF TokenInv, TypeOK, DeleteList, CallFails, Idle
<1>0. /\ \/ calls' = [calls EXCEPT ![c] = Idle]
         \/ /\ calls[c].stage = "list"
            /\ calls' = [calls EXCEPT ![c] = [calls[c] EXCEPT !.stage = "remove"]]
      /\ UNCHANGED <<clients, tokens, now, minted, redeemed, removals, stale>>
  OBVIOUS
<1>1. TypeOK'
  <2>1. CASE calls' = [calls EXCEPT ![c] = Idle]
    BY <1>0, <2>1
  <2>2. CASE calls' = [calls EXCEPT ![c] = [calls[c] EXCEPT !.stage = "remove"]]
    <3>1. calls[c] \in [stage : {"idle", "issue", "list", "remove"},
                       name : Name \cup {None}, key : Key \cup {None},
                       token : Token \cup {None}]
      OBVIOUS
    <3>2. [calls[c] EXCEPT !.stage = "remove"] \in
              [stage : {"idle", "issue", "list", "remove"},
               name : Name \cup {None}, key : Key \cup {None},
               token : Token \cup {None}]
      BY <3>1
    <3>3. calls' \in [Call -> [stage : {"idle", "issue", "list", "remove"},
                               name : Name \cup {None}, key : Key \cup {None},
                               token : Token \cup {None}]]
      BY <2>2, <3>2
    <3> QED  BY <1>0, <3>3
  <2> QED  BY <1>0, <2>1, <2>2
<1>2. IssueInv'
  BY SMTT(40) DEF IssueInv, StillShown
<1>3. RemoveInv'
  <2>1. ASSUME NEW d \in Call
        PROVE  calls'[d].stage \in {"list", "remove"} =>
                 /\ calls[d].stage \in {"list", "remove"}
                 /\ calls'[d].name = calls[d].name
                 /\ calls'[d].token = calls[d].token
    BY <1>0
  <2>2. RemoveInv
    OBVIOUS
  <2> HIDE DEF TokenInv, TypeOK, DeleteList, CallFails, Idle
  <2> QED  BY <1>0, <2>1, <2>2 DEF RemoveInv
<1>4. StoreInv' /\ MintInv' /\ LatestPreviewWins'
  BY ZenonT(60) DEF StoreInv, MintInv, StillShown, LatestPreviewWins
<1>5. ConsentedRemoval' /\ OneRemovalPerPreview' /\ ShownPeerRemoved'
  BY DEF ConsentedRemoval, OneRemovalPerPreview, ShownPeerRemoved
<1> QED  BY <1>1, <1>2, <1>3, <1>4, <1>5

\* The dashboard's delete: the row that goes is the first of its token, and
\* the one that was shown unless the preview is stale.
LEMMA DeleteKeeps ==
    ASSUME TokenInv, NEW c \in Call, DeleteRemove(c)
    PROVE  TokenInv'
<1> DEFINE t == calls[c].token
           n == calls[c].name
<1>1. /\ n \in Name /\ t \in Token
      /\ minted[t].name = n
      /\ minted[t].at <= redeemed[t] /\ redeemed[t] <= minted[t].at + TTL
      /\ \A r \in removals : r.token # t
      /\ \A d \in Call : calls[d].stage \in {"list", "remove"} /\ calls[d].token = t
                           => d = c
  BY DEF TokenInv, RemoveInv, DeleteRemove
<1>2. /\ removals' = removals \cup {[token |-> t, name |-> n, key |-> k]
                                       : k \in {clients[n].key} \ {None}}
      /\ clients' = [clients EXCEPT ![n] = Absent]
      /\ calls' = [calls EXCEPT ![c] = Idle]
      /\ UNCHANGED <<tokens, now, minted, redeemed, stale>>
  BY DEF DeleteRemove
<1>3. t \notin stale => clients[n].key \in {minted[t].key, None}
  BY <1>1, NoneAssumption DEF TokenInv, MintInv, StillShown, Unminted
<1> HIDE DEF t, n
<1>4. \A r \in removals' : \/ r \in removals
                            \/ /\ r = [token |-> t, name |-> n, key |-> clients[n].key]
                               /\ clients[n].key # None
  BY <1>2
<1>5. TypeOK'
  BY <1>1, <1>2 DEF TokenInv, TypeOK, Absent, Idle
<1>6. IssueInv' /\ MintInv'
  BY <1>1, <1>2 DEF TokenInv, TypeOK, IssueInv, MintInv, StillShown, Absent, Idle
<1>7. RemoveInv'
  <2> SUFFICES ASSUME NEW d \in Call, calls'[d].stage \in {"list", "remove"}
               PROVE  /\ calls'[d] = calls[d] /\ calls[d].token # t
    BY <1>2, <1>4 DEF TokenInv, TypeOK, RemoveInv, Idle
  <2>1. d # c /\ calls'[d] = calls[d]
    BY <1>2 DEF TokenInv, TypeOK, Idle
  <2> QED  BY <1>1, <2>1
<1>8. StoreInv' /\ LatestPreviewWins'
  BY <1>2 DEF TokenInv, StoreInv, LatestPreviewWins
<1>9. ConsentedRemoval'
  BY <1>1, <1>2, <1>4 DEF TokenInv, ConsentedRemoval
<1>10. OneRemovalPerPreview'
  BY <1>1, <1>4 DEF TokenInv, OneRemovalPerPreview
<1>11. ShownPeerRemoved'
  BY <1>2, <1>3, <1>4 DEF TokenInv, ShownPeerRemoved
<1> QED
  BY <1>5, <1>6, <1>7, <1>8, <1>9, <1>10, <1>11 DEF TokenInv

\* A new server process forgets the tokens and the previews under way.
LEMMA RestartKeeps ==
    ASSUME TokenInv, Restart
    PROVE  TokenInv'
<1> USE DEF TokenInv, TypeOK, Restart, Idle, NoToken
<1>1. TypeOK' /\ StoreInv' /\ LatestPreviewWins'
  BY DEF StoreInv, LatestPreviewWins
<1>2. IssueInv' /\ MintInv'
  BY DEF IssueInv, MintInv, StillShown
<1>3. RemoveInv'
  BY DEF RemoveInv
<1>4. ConsentedRemoval' /\ OneRemovalPerPreview' /\ ShownPeerRemoved'
  BY DEF ConsentedRemoval, OneRemovalPerPreview, ShownPeerRemoved
<1> QED  BY <1>1, <1>2, <1>3, <1>4

\* The clock moves on, past what was minted.
LEMMA TickKeeps ==
    ASSUME TokenInv, Tick
    PROVE  TokenInv'
<1> USE DEF TokenInv, TypeOK, Tick
<1>1. TypeOK' /\ MintInv'
  BY DEF MintInv, StillShown
<1>2. IssueInv' /\ RemoveInv' /\ StoreInv' /\ LatestPreviewWins'
  BY DEF IssueInv, StillShown, RemoveInv, StoreInv, LatestPreviewWins
<1>3. ConsentedRemoval' /\ OneRemovalPerPreview' /\ ShownPeerRemoved'
  BY DEF ConsentedRemoval, OneRemovalPerPreview, ShownPeerRemoved
<1> QED  BY <1>1, <1>2, <1>3

-----------------------------------------------------------------------------
(* The invariant, and what it says of the tools.                           *)

\* TokenInv is an invariant of the MCP server and of everything that happens
\* to the dashboard meanwhile.
LEMMA TokenInvariant == Spec => []TokenInv
<1>1. Init => TokenInv
  <2> SUFFICES ASSUME Init PROVE TokenInv
    OBVIOUS
  <2> USE DEF Init, NoToken, Unminted, Never, Idle
  <2>0. clients \in [Name -> [key : Key \cup {None}, enabled : BOOLEAN]]
    <3>1. [key : Key, enabled : {TRUE}] \subseteq [key : Key \cup {None}, enabled : BOOLEAN]
      BY Zenon
    <3>2. Absent \in [key : Key \cup {None}, enabled : BOOLEAN]
      BY DEF Absent
    <3> QED  BY <3>1, <3>2
  <2>1. TypeOK
    BY <2>0 DEF TypeOK
  <2>2. IssueInv /\ RemoveInv /\ StoreInv /\ LatestPreviewWins
    BY DEF IssueInv, RemoveInv, StoreInv, LatestPreviewWins
  <2>3. MintInv
    BY DEF MintInv
  <2>4. ConsentedRemoval /\ OneRemovalPerPreview /\ ShownPeerRemoved
    BY DEF ConsentedRemoval, OneRemovalPerPreview, ShownPeerRemoved
  <2> QED  BY <2>1, <2>2, <2>3, <2>4 DEF TokenInv
<1>2. ASSUME TokenInv, [Next]_vars
      PROVE  TokenInv'
  <2>1. CASE \E n \in Name : Mutation(n) \/ RemoveElsewhere(n)
    BY <1>2, <2>1, MutationKeeps, RemoveElsewhereKeeps
  <2>2. CASE \E c \in Call : ToolCall(c)
    BY <1>2, <2>2, FetchKeeps, IssueKeeps, VerifyKeeps, CallGoesOn, DeleteKeeps
       DEF ToolCall
  <2>3. CASE Restart \/ Tick
    BY <1>2, <2>3, RestartKeeps, TickKeeps
  <2>4. CASE UNCHANGED vars
    BY <1>2, <2>4 DEF vars, TokenInv, TypeOK, IssueInv, StillShown, RemoveInv,
       StoreInv, MintInv, ConsentedRemoval, OneRemovalPerPreview,
       ShownPeerRemoved, LatestPreviewWins
  <2> QED  BY <1>2, <2>1, <2>2, <2>3, <2>4 DEF Next
<1> QED  BY <1>1, <1>2, PTL DEF Spec

\* delete_client removes nothing that was not previewed under that name, and
\* only with a token redeemed within its lifetime.
THEOREM RemovalConsented == Spec => []ConsentedRemoval
<1>1. TokenInv => ConsentedRemoval
  BY DEF TokenInv
<1> QED  BY <1>1, TokenInvariant, PTL

\* A preview removes one row at most, whatever calls, failures and restarts.
THEOREM PreviewRemovesOnce == Spec => []OneRemovalPerPreview
<1>1. TokenInv => OneRemovalPerPreview
  BY DEF TokenInv
<1> QED  BY <1>1, TokenInvariant, PTL

\* What is removed is what was shown, unless the name went to another key.
THEOREM RemovesWhatWasShown == Spec => []ShownPeerRemoved
<1>1. TokenInv => ShownPeerRemoved
  BY DEF TokenInv
<1> QED  BY <1>1, TokenInvariant, PTL

\* A later preview of a name replaces the token of an earlier one.
THEOREM LatestTokenWins == Spec => []LatestPreviewWins
<1>1. TokenInv => LatestPreviewWins
  BY DEF TokenInv
<1> QED  BY <1>1, TokenInvariant, PTL
=============================================================================
