------------------------------- MODULE Stores -------------------------------
(***************************************************************************)
(* The two implementations of store.Store side by side: the tables of      *)
(* internal/store/postgres with their keys, unique indexes and references, *)
(* and the maps of internal/store/memory, which the tests of the service   *)
(* and of the alerts use instead.  Each call of the bot is made to both.   *)
(***************************************************************************)
EXTENDS Naturals

CONSTANTS
    User,      \* Telegram users, and admins
    Name,      \* usernames
    Server,
    Key,       \* public keys
    IP,        \* client addresses
    Limit,     \* config limits
    Message,   \* message ids
    MaxCalls,  \* bound: calls made
    NotFound   \* ErrNotFound

\* A username is never a number, which is what a lost one is replaced with.
ASSUME StoresAssumption ==
    /\ MaxCalls \in Nat
    /\ Name \cap User = {}

VARIABLES
    pg,      \* the tables: sets of rows
    mem,     \* the maps: functions on the keys present
    answer,  \* what the last call returned, of each store
    calls    \* calls made so far

vars == <<pg, mem, answer, calls>>

UserRow == [id : User, name : Name, enabled : BOOLEAN, limit : Limit]
PeerRow == [id : 1..MaxCalls, user : User, server : Server, key : Key, ip : IP,
            revoked : BOOLEAN]

\* A table has no two rows with the same values of a unique index.
Unique(table, index(_)) == \A r, s \in table : index(r) = index(s) => r = s
Active(table) == {p \in table : ~ p.revoked}

TypeOK ==
    /\ pg.users \subseteq UserRow /\ Unique(pg.users, LAMBDA r : r.id)
    /\ pg.access \subseteq User \X Server
    /\ pg.peers \subseteq PeerRow /\ Unique(pg.peers, LAMBDA r : r.id)
    /\ Unique(Active(pg.peers), LAMBDA r : <<r.server, r.key>>)
    /\ Unique(Active(pg.peers), LAMBDA r : <<r.server, r.ip>>)
    /\ {r[1] : r \in pg.access} \cup {r.user : r \in pg.peers}
           \subseteq {r.id : r \in pg.users}
    /\ Unique(pg.known, LAMBDA r : r[1]) /\ Unique(pg.known, LAMBDA r : r[2])
    /\ Unique(pg.invites, LAMBDA r : r[1]) /\ Unique(pg.cards, LAMBDA r : r[1])
    /\ DOMAIN mem.users \subseteq User /\ DOMAIN mem.known \subseteq User
    /\ \A i \in DOMAIN mem.peers : mem.peers[i] \in PeerRow
    /\ calls \in 0..MaxCalls

NoMap == [k \in {} |-> k]

Init ==
    /\ pg = [users |-> {}, access |-> {}, peers |-> {}, serial |-> 0,
             known |-> {}, invites |-> {}, cards |-> {}]
    /\ mem = [users |-> NoMap, access |-> NoMap, peers |-> NoMap, nextPeerID |-> 1,
              known |-> NoMap, invites |-> NoMap, cards |-> NoMap]
    /\ answer = <<"ok", "ok">>
    /\ calls = 0

\* map with key k set to v.
Put(map, k, v) == [x \in DOMAIN map \cup {k} |-> IF x = k THEN v ELSE map[x]]

\* INSERT ... ON CONFLICT (index) DO UPDATE.
Upsert(table, row, index(_)) == {r \in table : index(r) # index(row)} \cup {row}

\* The call is answered; a store that keeps its contents is left out by the caller.
Answered(a, b) == answer' = <<a, b>> /\ calls' = calls + 1

-----------------------------------------------------------------------------
(* Users and access                                                        *)

UpsertUser(row) ==
    /\ pg' = [pg EXCEPT !.users = Upsert(@, row, LAMBDA r : r.id)]
    /\ mem' = [mem EXCEPT !.users = Put(@, row.id, row)]
    /\ Answered("ok", "ok")

\* UPDATE users SET column = value WHERE telegram_id = u.
ExecUserUpdate(u, column, value) ==
    LET hit == {r \in pg.users : r.id = u}
        new == {[r EXCEPT ![column] = value] : r \in hit}
    IN
    /\ pg' = [pg EXCEPT !.users = (@ \ hit) \cup new]
    /\ mem' = IF u \in DOMAIN mem.users
              THEN [mem EXCEPT !.users[u][column] = value]
              ELSE mem
    /\ Answered(IF hit = {} THEN NotFound ELSE "ok",
                IF u \in DOMAIN mem.users THEN "ok" ELSE NotFound)

SetUserEnabled(u, enabled) == ExecUserUpdate(u, "enabled", enabled)
SetUserLimit(u, limit) == ExecUserUpdate(u, "limit", limit)
SetUsername(u, name) == ExecUserUpdate(u, "name", name)

\* AdminAddUser grants access once the account is there.
GrantAccess(u, s) ==
    /\ \E r \in pg.users : r.id = u
    /\ pg' = [pg EXCEPT !.access = @ \cup {<<u, s>>}]
    /\ mem' = [mem EXCEPT !.access =
                  Put(@, u, {s} \cup (IF u \in DOMAIN @ THEN @[u] ELSE {}))]
    /\ Answered("ok", "ok")

-----------------------------------------------------------------------------
(* Peers                                                                   *)

\* An insert that a constraint refuses has used up a number of the sequence.
Accepts(row) ==
    /\ \E r \in pg.users : r.id = row.user
    /\ \A p \in Active(pg.peers) :
           p.server = row.server => p.key # row.key /\ p.ip # row.ip

\* The service saves a peer of a user with access, with a key of its own and an
\* address that no active row has.
CreatePeer(u, s, k, i) ==
    LET row == [id |-> pg.serial + 1, user |-> u, server |-> s, key |-> k, ip |-> i,
                revoked |-> FALSE]
    IN
    /\ <<u, s>> \in pg.access
    /\ \A p \in pg.peers : p.key # k
    /\ \A p \in Active(pg.peers) : p.server = s => p.ip # i
    /\ pg' = [pg EXCEPT !.serial = @ + 1,
                        !.peers = IF Accepts(row) THEN @ \cup {row} ELSE @]
    /\ mem' = [mem EXCEPT !.nextPeerID = @ + 1,
                          !.peers = Put(@, mem.nextPeerID, [row EXCEPT !.id = mem.nextPeerID])]
    /\ Answered(IF Accepts(row) THEN row.id ELSE "error", mem.nextPeerID)

\* Mutant: the changed copy of the peer is not put back into the map.
RevokePeerCopy(id) ==
    LET hit == {p \in Active(pg.peers) : p.id = id} IN
    /\ hit # {}
    /\ pg' = [pg EXCEPT !.peers = (@ \ hit) \cup {[p EXCEPT !.revoked = TRUE] : p \in hit}]
    /\ UNCHANGED mem
    /\ Answered("ok", "ok")

\* One update loop revokes only what it has just found active; in memory a peer is
\* revoked again without an error.
RevokePeer(id) ==
    LET hit == {p \in Active(pg.peers) : p.id = id} IN
    /\ hit # {}
    /\ pg' = [pg EXCEPT !.peers = (@ \ hit) \cup {[p EXCEPT !.revoked = TRUE] : p \in hit}]
    /\ IF id \in DOMAIN mem.peers
       THEN mem' = [mem EXCEPT !.peers[id].revoked = TRUE] /\ Answered("ok", "ok")
       ELSE UNCHANGED mem /\ Answered("ok", NotFound)

-----------------------------------------------------------------------------
(* Cards, known users, invites                                             *)

SaveStatusMessage(s, a, m) ==
    /\ pg' = [pg EXCEPT !.cards = Upsert(@, <<<<s, a>>, m>>, LAMBDA r : r[1])]
    /\ mem' = [mem EXCEPT !.cards =
                  Put(@, s, Put(IF s \in DOMAIN @ THEN @[s] ELSE NoMap, a, m))]
    /\ Answered("ok", "ok")

\* Who loses a name is known by the own id, as text.
UpsertKnownUser(u, n) ==
    /\ pg' = [pg EXCEPT !.known =
                 Upsert({IF r[2] = n /\ r[1] # u THEN <<r[1], r[1]>> ELSE r : r \in @},
                        <<u, n>>, LAMBDA r : r[1])]
    /\ mem' = [mem EXCEPT !.known =
                  Put([v \in DOMAIN @ |-> IF @[v] = n /\ v # u THEN v ELSE @[v]], u, n)]
    /\ Answered("ok", "ok")

CreateInvite(n, limit) ==
    /\ pg' = [pg EXCEPT !.invites = Upsert(@, <<n, limit>>, LAMBDA r : r[1])]
    /\ mem' = [mem EXCEPT !.invites = Put(@, n, limit)]
    /\ Answered("ok", "ok")

TakeInvite(n) ==
    LET hit == {r \in pg.invites : r[1] = n} IN
    /\ pg' = [pg EXCEPT !.invites = @ \ hit]
    /\ mem' = [mem EXCEPT !.invites = [m \in DOMAIN @ \ {n} |-> @[m]]]
    /\ Answered(IF hit = {} THEN NotFound ELSE (CHOOSE r \in hit : TRUE)[2],
                IF n \in DOMAIN mem.invites THEN mem.invites[n] ELSE NotFound)

-----------------------------------------------------------------------------
Next ==
    /\ calls < MaxCalls
    /\ \/ \E row \in UserRow : UpsertUser(row)
       \/ \E u \in User : \/ \E b \in BOOLEAN : SetUserEnabled(u, b)
                          \/ \E l \in Limit : SetUserLimit(u, l)
                          \/ \E n \in Name : SetUsername(u, n) \/ UpsertKnownUser(u, n)
                          \/ \E s \in Server : GrantAccess(u, s)
                          \/ \E s \in Server, m \in Message : SaveStatusMessage(s, u, m)
       \/ \E u \in User, s \in Server, k \in Key, i \in IP : CreatePeer(u, s, k, i)
       \/ \E p \in pg.peers : RevokePeer(p.id)
       \/ \E n \in Name : TakeInvite(n) \/ \E l \in Limit : CreateInvite(n, l)

Spec == Init /\ [][Next]_vars

-----------------------------------------------------------------------------
(* The queries, and the property                                           *)

\* Every list is sorted by a unique key in both stores, so it is the set of its
\* entries; the active peers of a user, or of a server, are a part of all of them.
FilterPeers == {p \in {mem.peers[i] : i \in DOMAIN mem.peers} : ~ p.revoked}
ListPeers == Active(pg.peers)

GetActivePeer(i) ==
    {p \in Active(pg.peers) : p.id = i} =
        {p \in {mem.peers[j] : j \in DOMAIN mem.peers \cap {i}} : ~ p.revoked}

GetUser(u) ==
    {r \in pg.users : r.id = u} = {mem.users[v] : v \in DOMAIN mem.users \cap {u}}

HasAccess(u, s) ==
    <<u, s>> \in pg.access <=> u \in DOMAIN mem.access /\ s \in mem.access[u]

GetStatusMessage(s, a) ==
    {r[2] : r \in {r \in pg.cards : r[1] = <<s, a>>}} =
        IF s \in DOMAIN mem.cards /\ a \in DOMAIN mem.cards[s] THEN {mem.cards[s][a]} ELSE {}

FindKnownUser(n) ==
    {r[1] : r \in {r \in pg.known : r[2] = n}} = {u \in DOMAIN mem.known : mem.known[u] = n}

\* The entries of the list; their order is by the collation of the database, and by
\* bytes in the maps.
ListInvites == pg.invites = {<<n, mem.invites[n]>> : n \in DOMAIN mem.invites}

\* What the tests see of the memory store is what the bot would see of Postgres:
\* for the calls one update loop makes, in any order, the tables keep their
\* constraints, which the maps do not have, both stores give the same answers and
\* number the peers alike, and every query finds the same.
SameStores ==
    /\ TypeOK
    /\ answer[1] = answer[2]
    /\ \A u \in User :
        /\ GetUser(u)
        /\ \A s \in Server : HasAccess(u, s) /\ GetStatusMessage(s, u)
    /\ ListPeers = FilterPeers
    /\ \A i \in 1..MaxCalls : GetActivePeer(i)
    /\ \A n \in Name \cup User : FindKnownUser(n)
    /\ ListInvites
=============================================================================
