---------------------------- MODULE DeleteTokens ----------------------------
(***************************************************************************)
(* The mutating tools of the MCP server against a dashboard others use     *)
(* too.  delete_client is gated by a token that preview_delete_client      *)
(* hands out: bound to a name, valid for TTL, overwritten by a later       *)
(* preview, consumed when it is redeemed.  Tool calls run concurrently;    *)
(* the store's mutex makes Issue and Verify atomic, and nothing else.      *)
(***************************************************************************)
EXTENDS Integers

CONSTANTS
    Name,       \* peer names
    Key,        \* public keys
    Token,      \* 256-bit random strings: fresh whenever one is minted
    Call,       \* slots for tool calls running at the same time
    TTL,        \* tokenTTL
    MaxTime,    \* bound on the clock
    None        \* no name, key or token

ASSUME ClockAssumption == TTL \in Nat /\ MaxTime \in Nat

ASSUME NoneAssumption == None \notin Name \cup Key \cup Token

ASSUME SortsAssumption == Token \cap Call = {}

VARIABLES
    clients,    \* the dashboard's clients table: name -> key and enabled
    tokens,     \* Store.tokens: name -> token and expiry
    calls,      \* the tool calls in flight
    now,
    minted,     \* history: per token, what its preview showed and when
    redeemed,   \* history: per token, when it was redeemed
    removals,   \* history: the rows delete_client removed, and by which token
    stale       \* history: previews whose name got another key since

vars == <<clients, tokens, calls, now, minted, redeemed, removals, stale>>

\* A name without a client or without a token; a token not minted, not
\* redeemed; a slot without a call.
Absent == [key |-> None, enabled |-> FALSE]
NoToken == [token |-> None, expires |-> 0]
Unminted == [name |-> None, key |-> None, at |-> 0]
Never == -1
Idle == [stage |-> "idle", name |-> None, key |-> None, token |-> None]

TypeOK ==
    /\ clients \in [Name -> [key : Key \cup {None}, enabled : BOOLEAN]]
    /\ tokens \in [Name -> [token : Token \cup {None}, expires : Nat]]
    /\ calls \in [Call -> [stage : {"idle", "issue", "list", "remove"},
                           name : Name \cup {None},
                           key : Key \cup {None},
                           token : Token \cup {None}]]
    /\ now \in Nat
    /\ minted \in [Token -> [name : Name \cup {None},
                             key : Key \cup {None},
                             at : Nat]]
    /\ redeemed \in [Token -> Nat \cup {Never}]
    /\ removals \in SUBSET [token : Token, name : Name, key : Key]
    /\ stale \in SUBSET (Token \cup Call)

Init ==
    /\ clients \in [Name -> [key : Key, enabled : {TRUE}] \cup {Absent}]
    /\ \A n, m \in Name :
          clients[n].key = clients[m].key => n = m \/ clients[n] = Absent
    /\ tokens = [n \in Name |-> NoToken]
    /\ calls = [c \in Call |-> Idle]
    /\ now = 0
    /\ minted = [t \in Token |-> Unminted]
    /\ redeemed = [t \in Token |-> Never]
    /\ removals = {}
    /\ stale = {}

-----------------------------------------------------------------------------
(* Changes to the clients table, by the other tools and by the web page.   *)

Present(n) == clients[n].key # None

Unused(k) == \A n \in Name : clients[n].key # k

\* add_client, edit_client, enable_client and disable_client refuse before
\* any request unless the caller confirms; the web page asks for nothing.
requireConfirm(confirm) == confirm

\* The table becomes t, in which name n has another key: no preview of n
\* shows that peer any more.
Bind(n, t) ==
    /\ clients' = t
    /\ stale' = stale \cup {x \in Token : minted[x].name = n}
                      \cup {c \in Call : calls[c].stage = "issue"
                                         /\ calls[c].name = n}
    /\ UNCHANGED <<tokens, calls, now, minted, redeemed, removals>>

AddClient(n, k, confirm) ==
    /\ requireConfirm(confirm)
    /\ ~Present(n) /\ Unused(k)
    /\ Bind(n, [clients EXCEPT ![n] = [key |-> k, enabled |-> TRUE]])

\* A field left empty is left out of the PATCH body: m = n, or k the key the
\* client has, stand for that.
EditClient(n, m, k, confirm) ==
    /\ requireConfirm(confirm)
    /\ Present(n)
    /\ m = n \/ ~Present(m)
    /\ k = clients[n].key \/ Unused(k)
    /\ m # n \/ k # clients[n].key
    /\ Bind(m, [clients EXCEPT
                   ![n] = Absent,
                   ![m] = [key |-> k, enabled |-> clients[n].enabled]])

toggleClient(n, enabled, confirm) ==
    /\ requireConfirm(confirm)
    /\ Present(n)
    /\ clients' = [clients EXCEPT ![n].enabled = enabled]
    /\ UNCHANGED <<tokens, calls, now, minted, redeemed, removals, stale>>

\* A client removed on the web page.
RemoveElsewhere(n) ==
    /\ Present(n)
    /\ clients' = [clients EXCEPT ![n] = Absent]
    /\ UNCHANGED <<tokens, calls, now, minted, redeemed, removals, stale>>

-----------------------------------------------------------------------------
(* preview_delete_client: GET /api/clients, then Issue.                    *)

\* The row with the name is found; a failed GET or a missing row ends the
\* call with an error and no token.
fetchClientRow(c, n) ==
    /\ calls[c] = Idle
    /\ Present(n)
    /\ calls' = [calls EXCEPT ![c] = [stage |-> "issue", name |-> n,
                                      key |-> clients[n].key,
                                      token |-> None]]
    /\ stale' = stale \ {c}
    /\ UNCHANGED <<clients, tokens, now, minted, redeemed, removals>>

\* Mutant: a name that has a token keeps it, and the caller is handed one
\* the store does not know.
MutantStored(n, t) ==
    [tokens EXCEPT ![n] = IF @ = NoToken
                          THEN [token |-> t, expires |-> now + TTL] ELSE @]

\* The most recent token of a name replaces the one before.
Stored(n, t) ==
    [tokens EXCEPT ![n] = [token |-> t, expires |-> now + TTL]]

Issue(c) ==
    /\ calls[c].stage = "issue"
    /\ \E t \in Token :
          /\ minted[t] = Unminted
          /\ tokens' = Stored(calls[c].name, t)
          /\ minted' = [minted EXCEPT ![t] =
                 [name |-> calls[c].name, key |-> calls[c].key, at |-> now]]
          /\ stale' = (stale \ {c}) \cup {x \in {t} : c \in stale}
    /\ calls' = [calls EXCEPT ![c] = Idle]
    /\ UNCHANGED <<clients, now, redeemed, removals>>

-----------------------------------------------------------------------------
(* delete_client: Verify, then DELETE /api/clients/{name}.                 *)

\* Mutant: any token of the store is accepted for any name with a live one.
MutantMatches(n, t) ==
    /\ tokens[n] # NoToken /\ now <= tokens[n].expires
    /\ \E m \in Name : tokens[m].token = t

\* Mutant: the expiry is not looked at.
MutantNoExpiry(n, t) == tokens[n].token = t

Expired(n) == tokens[n] # NoToken /\ now > tokens[n].expires

Matches(n, t) == tokens[n].token = t /\ now <= tokens[n].expires

Redeem(c, n, t) ==
    /\ calls' = [calls EXCEPT ![c] = [stage |-> "list", name |-> n,
                                      key |-> None, token |-> t]]
    /\ redeemed' = [redeemed EXCEPT ![t] = now]

\* Mutant: a matching token stays in the store.
MutantVerify(c, n, t) ==
    /\ calls[c] = Idle /\ Matches(n, t) /\ Redeem(c, n, t)
    /\ UNCHANGED <<clients, tokens, now, minted, removals, stale>>

\* A match consumes the token and sends the request, an expired entry is
\* swept, anything else changes nothing.
Verify(c, n, t) ==
    /\ calls[c] = Idle
    /\ \/ Matches(n, t) /\ Redeem(c, n, t)
       \/ Expired(n) /\ UNCHANGED <<calls, redeemed>>
    /\ tokens' = [tokens EXCEPT ![n] = NoToken]
    /\ UNCHANGED <<clients, now, minted, removals, stale>>

\* The dashboard lists the clients first: no row with the name is a 404.
DeleteList(c) ==
    /\ calls[c].stage = "list"
    /\ calls' = [calls EXCEPT ![c] =
           IF Present(@.name) THEN [@ EXCEPT !.stage = "remove"] ELSE Idle]
    /\ UNCHANGED <<clients, tokens, now, minted, redeemed, removals, stale>>

\* Service.Delete removes whatever row has the name by now, if any.
DeleteRemove(c) ==
    /\ calls[c].stage = "remove"
    /\ LET n == calls[c].name
       IN  /\ removals' = removals \cup
                  {[token |-> calls[c].token, name |-> n, key |-> k]
                       : k \in {clients[n].key} \ {None}}
           /\ clients' = [clients EXCEPT ![n] = Absent]
    /\ calls' = [calls EXCEPT ![c] = Idle]
    /\ UNCHANGED <<tokens, now, minted, redeemed, stale>>

\* The answer to the GET, the request or the dashboard's list or delete
\* fails: the caller gets an error, and a consumed token stays consumed.  An
\* answer that is lost after DeleteRemove ends the call no differently.
CallFails(c) ==
    /\ calls[c].stage # "idle"
    /\ calls' = [calls EXCEPT ![c] = Idle]
    /\ UNCHANGED <<clients, tokens, now, minted, redeemed, removals, stale>>

\* The MCP host starts a new server process: no token survives.  A request
\* the dashboard is already working on goes on.
Restart ==
    /\ tokens' = [n \in Name |-> NoToken]
    /\ calls' = [c \in Call |-> IF calls[c].stage = "issue" THEN Idle
                                                            ELSE calls[c]]
    /\ UNCHANGED <<clients, now, minted, redeemed, removals, stale>>

Tick ==
    /\ now < MaxTime
    /\ now' = now + 1
    /\ UNCHANGED <<clients, tokens, calls, minted, redeemed, removals, stale>>

Mutation(n) ==
    \E confirm \in BOOLEAN :
       \/ \E k \in Key : AddClient(n, k, confirm)
       \/ \E k \in Key, m \in Name : EditClient(n, m, k, confirm)
       \/ \E e \in BOOLEAN : toggleClient(n, e, confirm)

ToolCall(c) ==
    \/ \E n \in Name : fetchClientRow(c, n)
    \/ Issue(c)
    \/ \E n \in Name, t \in Token : Verify(c, n, t)
    \/ DeleteList(c)
    \/ DeleteRemove(c)
    \/ CallFails(c)

Next ==
    \/ \E n \in Name : Mutation(n) \/ RemoveElsewhere(n)
    \/ \E c \in Call : ToolCall(c)
    \/ Restart
    \/ Tick

Spec == Init /\ [][Next]_vars

-----------------------------------------------------------------------------
\* Every row delete_client removes was previewed under that very name, and
\* its token was redeemed while it was alive (tokens.go: a token issued for
\* "alice" only ever redeems a delete of "alice", for five minutes).
ConsentedRemoval ==
    \A r \in removals :
       /\ minted[r.token].name = r.name
       /\ minted[r.token].at <= redeemed[r.token]
       /\ redeemed[r.token] <= minted[r.token].at + TTL

\* One preview removes at most one row, however many calls present its token
\* at the same time, whichever answers get lost and whenever the server
\* process is restarted.
OneRemovalPerPreview ==
    \A r, s \in removals : r.token = s.token => r = s

\* The peer that is removed is the peer the preview showed, unless somebody
\* gave its name to another key after the preview was fetched.
ShownPeerRemoved ==
    \A r \in removals :
       r.token \notin stale => r.key = minted[r.token].key

\* The token of the most recent preview of a name is the one that works: no
\* other token for the name was minted later than the one the store holds.
LatestPreviewWins ==
    \A t \in Token, n \in Name :
       minted[t].name = n /\ tokens[n] # NoToken =>
           minted[t].at <= minted[tokens[n].token].at
=============================================================================
