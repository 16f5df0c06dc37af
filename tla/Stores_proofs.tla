---------------------------- MODULE Stores_proofs ----------------------------
(***************************************************************************)
(* The tables and the maps agree after any number of calls, for any users, *)
(* servers, keys and names.                                                *)
(***************************************************************************)
EXTENDS Stores, TLAPS

Text == Name \cup User   \* what a known user may be known by

\* map sends some of the keys to values.
IsMap(map, keys, values) ==
    DOMAIN map \subseteq keys /\ map \in [DOMAIN map -> values]

Tables ==
    pg \in [users : SUBSET UserRow, access : SUBSET (User \X Server),
            peers : SUBSET PeerRow, serial : 0..MaxCalls,
            known : SUBSET (User \X Text), invites : SUBSET (Name \X Limit),
            cards : SUBSET ((Server \X User) \X Message)]

Maps ==
    /\ mem = [users |-> mem.users, access |-> mem.access, peers |-> mem.peers,
              nextPeerID |-> mem.nextPeerID, known |-> mem.known,
              invites |-> mem.invites, cards |-> mem.cards]
    /\ IsMap(mem.users, User, UserRow)
    /\ IsMap(mem.access, User, SUBSET Server)
    /\ IsMap(mem.peers, 1..MaxCalls, PeerRow)
    /\ IsMap(mem.known, User, Text)
    /\ IsMap(mem.invites, Name, Limit)
    /\ DOMAIN mem.cards \subseteq Server
    /\ \A s \in DOMAIN mem.cards : IsMap(mem.cards[s], User, Message)

\* The account of a user is one row, and the same in the map.
UsersAgree(table, map) ==
    /\ \A r \in UserRow : r \in table <=> r.id \in DOMAIN map /\ map[r.id] = r
    /\ \A u \in DOMAIN map : map[u].id = u

\* A grant is a row, and a server in the set of the user.
AccessAgree(table, map) ==
    \A u \in User, s \in Server :
        <<u, s>> \in table <=> u \in DOMAIN map /\ s \in map[u]

\* The peers are numbered alike, in the order they were created.
PeersAgree(table, map) ==
    /\ \A p \in PeerRow : p \in table <=> p.id \in DOMAIN map /\ map[p.id] = p
    /\ \A i \in DOMAIN map : map[i].id = i

\* The next peer gets the same number from both, one that no peer has.
NumbersAgree ==
    /\ pg.serial <= calls
    /\ mem.nextPeerID = pg.serial + 1
    /\ \A i \in DOMAIN mem.peers : i <= pg.serial

\* A known user has a name that nobody else has, or the own id.
KnownAgree(table, map) ==
    /\ \A u \in User, n \in Text : <<u, n>> \in table <=> u \in DOMAIN map /\ map[u] = n
    /\ \A u \in DOMAIN map : map[u] \in Name \cup {u}
    /\ \A u, v \in DOMAIN map : map[u] = map[v] => u = v

\* The invite of a name is one row, and the same in the map.
InvitesAgree(table, map) ==
    \A n \in Name, l \in Limit : <<n, l>> \in table <=> n \in DOMAIN map /\ map[n] = l

\* The message of a server and an admin is one row, and the same in the nested maps.
CardsAgree(table, map) ==
    \A s \in Server, a \in User, m \in Message :
        <<<<s, a>>, m>> \in table <=>
            s \in DOMAIN map /\ a \in DOMAIN map[s] /\ map[s][a] = m

\* What refers to an account refers to one that is there.
References ==
    /\ \A r \in pg.access : r[1] \in DOMAIN mem.users
    /\ \A p \in pg.peers : p.user \in DOMAIN mem.users

\* No two active peers of a server have a key or an address in common.
Distinct(peers) ==
    \A p, q \in peers :
        ~ p.revoked /\ ~ q.revoked /\ p.server = q.server /\ (p.key = q.key \/ p.ip = q.ip)
            => p = q

\* Everything a call relies on: each table and its map, the references between them,
\* and the numbers.
AgreeInv ==
    /\ calls \in 0..MaxCalls
    /\ Tables
    /\ Maps
    /\ UsersAgree(pg.users, mem.users)
    /\ AccessAgree(pg.access, mem.access)
    /\ PeersAgree(pg.peers, mem.peers)
    /\ NumbersAgree
    /\ KnownAgree(pg.known, mem.known)
    /\ InvitesAgree(pg.invites, mem.invites)
    /\ CardsAgree(pg.cards, mem.cards)
    /\ References
    /\ Distinct(pg.peers)
    /\ answer[1] = answer[2]

-----------------------------------------------------------------------------
(* Maps and tables                                                           *)

\* A map with one key set is a map, and differs in that key only.
LEMMA PutMap ==
    ASSUME NEW keys, NEW values, NEW map, IsMap(map, keys, values),
           NEW k \in keys, NEW v \in values
    PROVE  /\ IsMap(Put(map, k, v), keys, values)
           /\ DOMAIN Put(map, k, v) = DOMAIN map \cup {k}
           /\ \A x \in DOMAIN map \cup {k} : Put(map, k, v)[x] = IF x = k THEN v ELSE map[x]
BY DEF IsMap, Put

-----------------------------------------------------------------------------
(* A call changes one table and its map, or none.                            *)

\* The call is counted, and both stores give the same answer.
Answers == calls < MaxCalls /\ calls' = calls + 1 /\ answer'[1] = answer'[2]

\* The accounts: none may disappear.
LEMMA SetUsers ==
    ASSUME AgreeInv, Answers, NEW t, NEW m,
           pg' = [pg EXCEPT !.users = t], mem' = [mem EXCEPT !.users = m],
           t \subseteq UserRow, IsMap(m, User, UserRow), UsersAgree(t, m),
           DOMAIN mem.users \subseteq DOMAIN m
    PROVE  AgreeInv'
<1>1. /\ pg'.users = t /\ pg'.access = pg.access /\ pg'.peers = pg.peers
      /\ pg'.serial = pg.serial /\ pg'.known = pg.known
      /\ pg'.invites = pg.invites /\ pg'.cards = pg.cards
  BY DEF AgreeInv, Tables
<1>2. /\ mem'.users = m /\ mem'.access = mem.access /\ mem'.peers = mem.peers
      /\ mem'.nextPeerID = mem.nextPeerID /\ mem'.known = mem.known
      /\ mem'.invites = mem.invites /\ mem'.cards = mem.cards
  BY DEF AgreeInv, Maps
<1>3. calls' \in 0..MaxCalls /\ calls <= calls' /\ answer'[1] = answer'[2]
  BY StoresAssumption DEF AgreeInv, Answers
<1>4. Tables' /\ Maps'
  BY <1>1, <1>2 DEF AgreeInv, Tables, Maps
<1>5. NumbersAgree' /\ References'
  BY <1>1, <1>2, <1>3 DEF AgreeInv, Tables, NumbersAgree, References
<1> QED
  BY <1>1, <1>2, <1>3, <1>4, <1>5 DEF AgreeInv

\* The grants: those of accounts.
LEMMA SetAccess ==
    ASSUME AgreeInv, Answers, NEW t, NEW m,
           pg' = [pg EXCEPT !.access = t], mem' = [mem EXCEPT !.access = m],
           t \subseteq User \X Server, IsMap(m, User, SUBSET Server), AccessAgree(t, m),
           \A r \in t : r[1] \in DOMAIN mem.users
    PROVE  AgreeInv'
<1>1. /\ pg'.users = pg.users /\ pg'.access = t /\ pg'.peers = pg.peers
      /\ pg'.serial = pg.serial /\ pg'.known = pg.known
      /\ pg'.invites = pg.invites /\ pg'.cards = pg.cards
  BY DEF AgreeInv, Tables
<1>2. /\ mem'.users = mem.users /\ mem'.access = m /\ mem'.peers = mem.peers
      /\ mem'.nextPeerID = mem.nextPeerID /\ mem'.known = mem.known
      /\ mem'.invites = mem.invites /\ mem'.cards = mem.cards
  BY DEF AgreeInv, Maps
<1>3. calls' \in 0..MaxCalls /\ calls <= calls' /\ answer'[1] = answer'[2]
  BY StoresAssumption DEF AgreeInv, Answers
<1>4. Tables' /\ Maps'
  BY <1>1, <1>2 DEF AgreeInv, Tables, Maps
<1>5. NumbersAgree' /\ References'
  BY <1>1, <1>2, <1>3 DEF AgreeInv, Tables, NumbersAgree, References
<1> QED
  BY <1>1, <1>2, <1>3, <1>4, <1>5 DEF AgreeInv

\* The known users.
LEMMA SetKnown ==
    ASSUME AgreeInv, Answers, NEW t, NEW m,
           pg' = [pg EXCEPT !.known = t], mem' = [mem EXCEPT !.known = m],
           t \subseteq User \X Text, IsMap(m, User, Text), KnownAgree(t, m)
    PROVE  AgreeInv'
<1>1. /\ pg'.users = pg.users /\ pg'.access = pg.access /\ pg'.peers = pg.peers
      /\ pg'.serial = pg.serial /\ pg'.known = t
      /\ pg'.invites = pg.invites /\ pg'.cards = pg.cards
  BY DEF AgreeInv, Tables
<1>2. /\ mem'.users = mem.users /\ mem'.access = mem.access /\ mem'.peers = mem.peers
      /\ mem'.nextPeerID = mem.nextPeerID /\ mem'.known = m
      /\ mem'.invites = mem.invites /\ mem'.cards = mem.cards
  BY DEF AgreeInv, Maps
<1>3. calls' \in 0..MaxCalls /\ calls <= calls' /\ answer'[1] = answer'[2]
  BY StoresAssumption DEF AgreeInv, Answers
<1>4. Tables' /\ Maps'
  BY <1>1, <1>2 DEF AgreeInv, Tables, Maps
<1>5. NumbersAgree' /\ References'
  BY <1>1, <1>2, <1>3 DEF AgreeInv, Tables, NumbersAgree, References
<1> QED
  BY <1>1, <1>2, <1>3, <1>4, <1>5 DEF AgreeInv

\* The invites.
LEMMA SetInvites ==
    ASSUME AgreeInv, Answers, NEW t, NEW m,
           pg' = [pg EXCEPT !.invites = t], mem' = [mem EXCEPT !.invites = m],
           t \subseteq Name \X Limit, IsMap(m, Name, Limit), InvitesAgree(t, m)
    PROVE  AgreeInv'
<1>1. /\ pg'.users = pg.users /\ pg'.access = pg.access /\ pg'.peers = pg.peers
      /\ pg'.serial = pg.serial /\ pg'.known = pg.known
      /\ pg'.invites = t /\ pg'.cards = pg.cards
  BY DEF AgreeInv, Tables
<1>2. /\ mem'.users = mem.users /\ mem'.access = mem.access /\ mem'.peers = mem.peers
      /\ mem'.nextPeerID = mem.nextPeerID /\ mem'.known = mem.known
      /\ mem'.invites = m /\ mem'.cards = mem.cards
  BY DEF AgreeInv, Maps
<1>3. calls' \in 0..MaxCalls /\ calls <= calls' /\ answer'[1] = answer'[2]
  BY StoresAssumption DEF AgreeInv, Answers
<1>4. Tables' /\ Maps'
  BY <1>1, <1>2 DEF AgreeInv, Tables, Maps
<1>5. NumbersAgree' /\ References'
  BY <1>1, <1>2, <1>3 DEF AgreeInv, Tables, NumbersAgree, References
<1> QED
  BY <1>1, <1>2, <1>3, <1>4, <1>5 DEF AgreeInv

\* The messages of the cards.
LEMMA SetCards ==
    ASSUME AgreeInv, Answers, NEW t, NEW m,
           pg' = [pg EXCEPT !.cards = t], mem' = [mem EXCEPT !.cards = m],
           t \subseteq (Server \X User) \X Message, DOMAIN m \subseteq Server,
           \A s \in DOMAIN m : IsMap(m[s], User, Message), CardsAgree(t, m)
    PROVE  AgreeInv'
<1>1. /\ pg'.users = pg.users /\ pg'.access = pg.access /\ pg'.peers = pg.peers
      /\ pg'.serial = pg.serial /\ pg'.known = pg.known
      /\ pg'.invites = pg.invites /\ pg'.cards = t
  BY DEF AgreeInv, Tables
<1>2. /\ mem'.users = mem.users /\ mem'.access = mem.access /\ mem'.peers = mem.peers
      /\ mem'.nextPeerID = mem.nextPeerID /\ mem'.known = mem.known
      /\ mem'.invites = mem.invites /\ mem'.cards = m
  BY DEF AgreeInv, Maps
<1>3. calls' \in 0..MaxCalls /\ calls <= calls' /\ answer'[1] = answer'[2]
  BY StoresAssumption DEF AgreeInv, Answers
<1>4. Tables' /\ Maps'
  BY <1>1, <1>2 DEF AgreeInv, Tables, Maps
<1>5. NumbersAgree' /\ References'
  BY <1>1, <1>2, <1>3 DEF AgreeInv, Tables, NumbersAgree, References
<1> QED
  BY <1>1, <1>2, <1>3, <1>4, <1>5 DEF AgreeInv

-----------------------------------------------------------------------------
(* Users and access                                                          *)

\* One row is written, of an account that is there or of a new one.
LEMMA WriteUser ==
    ASSUME AgreeInv, Answers, NEW row \in UserRow,
           pg' = [pg EXCEPT !.users = {r \in @ : r.id # row.id} \cup {row}],
           mem' = [mem EXCEPT !.users = Put(@, row.id, row)]
    PROVE  AgreeInv'
<1> DEFINE t == {r \in pg.users : r.id # row.id} \cup {row}
           m == Put(mem.users, row.id, row)
<1>1. row.id \in User
  BY DEF UserRow
<1>2. IsMap(mem.users, User, UserRow)
  BY DEF AgreeInv, Maps
<1>3. /\ IsMap(m, User, UserRow)
      /\ DOMAIN m = DOMAIN mem.users \cup {row.id}
      /\ \A x \in DOMAIN mem.users \cup {row.id} : m[x] = IF x = row.id THEN row ELSE mem.users[x]
  BY <1>1, <1>2, PutMap
<1>4. pg' = [pg EXCEPT !.users = t] /\ mem' = [mem EXCEPT !.users = m]
  OBVIOUS
<1>5. t \subseteq UserRow
  BY DEF AgreeInv, Tables
<1>6. UsersAgree(pg.users, mem.users)
  BY DEF AgreeInv
<1> HIDE DEF m
<1>7. UsersAgree(t, m)
  BY <1>3, <1>6 DEF UsersAgree
<1> HIDE DEF t
<1> QED
  BY <1>3, <1>4, <1>5, <1>7, SetUsers

\* An account is created, or its row is replaced.
LEMMA UpsertUserStep ==
    ASSUME AgreeInv, calls < MaxCalls, NEW row \in UserRow, UpsertUser(row)
    PROVE  AgreeInv'
<1>1. Answers
  BY DEF UpsertUser, Answered, Answers
<1>2. /\ pg' = [pg EXCEPT !.users = {r \in @ : r.id # row.id} \cup {row}]
      /\ mem' = [mem EXCEPT !.users = Put(@, row.id, row)]
  BY DEF UpsertUser, Upsert
<1> QED
  BY <1>1, <1>2, WriteUser

\* A call that changes neither store.
LEMMA Nothing ==
    ASSUME AgreeInv, Answers, pg' = pg, mem' = mem
    PROVE  AgreeInv'
<1>1. calls' \in 0..MaxCalls /\ calls <= calls' /\ answer'[1] = answer'[2]
  BY StoresAssumption DEF AgreeInv, Answers
<1>2. NumbersAgree'
  BY <1>1 DEF AgreeInv, Tables, NumbersAgree
<1> QED
  BY <1>1, <1>2 DEF AgreeInv, Tables, Maps, References

\* One column of an account that is there, or ErrNotFound from both.
LEMMA ExecUserUpdateStep ==
    ASSUME AgreeInv, calls < MaxCalls, NEW u \in User, NEW column, NEW value,
           ExecUserUpdate(u, column, value),
           \A r \in UserRow : /\ [r EXCEPT ![column] = value] \in UserRow
                              /\ [r EXCEPT ![column] = value].id = r.id
    PROVE  AgreeInv'
<1> DEFINE hit == {r \in pg.users : r.id = u}
           old == mem.users[u]
           row == [old EXCEPT ![column] = value]
<1>1. UsersAgree(pg.users, mem.users) /\ IsMap(mem.users, User, UserRow)
  BY DEF AgreeInv, Maps
<1>2. pg.users \subseteq UserRow
  BY DEF AgreeInv, Tables
<1>3. CASE u \in DOMAIN mem.users
  <2>1. old \in UserRow /\ old.id = u /\ old \in pg.users
    BY <1>1, <1>3 DEF UsersAgree, IsMap
  <2>2. hit = {old}
    BY <1>1, <1>2, <2>1 DEF UsersAgree
  <2>3. row \in UserRow /\ row.id = u
    BY <2>1
  <2>4. /\ pg' = [pg EXCEPT !.users = (@ \ hit) \cup {[r EXCEPT ![column] = value] : r \in hit}]
        /\ mem' = [mem EXCEPT !.users[u] = [@ EXCEPT ![column] = value]]
        /\ Answered("ok", "ok")
    BY <1>3, <2>2 DEF ExecUserUpdate
  <2>5. {[r EXCEPT ![column] = value] : r \in hit} = {row}
    BY <2>2
  <2>6. pg.users \ hit = {r \in pg.users : r.id # row.id}
    BY <2>3
  <2>7. pg' = [pg EXCEPT !.users = {r \in @ : r.id # row.id} \cup {row}]
    BY <2>4, <2>5, <2>6
  <2>8. [mem.users EXCEPT ![u] = row] = Put(mem.users, row.id, row)
    BY <1>1, <1>3, <2>3 DEF Put, IsMap
  <2>9. mem' = [mem EXCEPT !.users = Put(@, row.id, row)]
    BY <2>4, <2>8
  <2>10. Answers
    BY <2>4 DEF Answered, Answers
  <2> HIDE DEF row
  <2> QED
    BY <2>3, <2>7, <2>9, <2>10, WriteUser
<1>4. CASE u \notin DOMAIN mem.users
  <2>1. hit = {}
    BY <1>1, <1>2, <1>4 DEF UsersAgree
  <2>2. /\ pg' = [pg EXCEPT !.users = (@ \ hit) \cup {[r EXCEPT ![column] = value] : r \in hit}]
        /\ mem' = mem
        /\ Answered(NotFound, NotFound)
    BY <1>4, <2>1 DEF ExecUserUpdate
  <2>3. (pg.users \ hit) \cup {[r EXCEPT ![column] = value] : r \in hit} = pg.users
    BY <2>1
  <2>4. pg' = pg
    BY <2>2, <2>3 DEF AgreeInv, Tables
  <2>5. Answers
    BY <2>2 DEF Answered, Answers
  <2> QED
    BY <2>2, <2>4, <2>5, Nothing
<1> QED
  BY <1>3, <1>4

\* The three updates of an account.
LEMMA UserUpdateSteps ==
    ASSUME AgreeInv, calls < MaxCalls, NEW u \in User,
           \/ \E b \in BOOLEAN : SetUserEnabled(u, b)
           \/ \E l \in Limit : SetUserLimit(u, l)
           \/ \E n \in Name : SetUsername(u, n)
    PROVE  AgreeInv'
<1>1. ASSUME NEW b \in BOOLEAN, SetUserEnabled(u, b) PROVE AgreeInv'
  <2>1. \A r \in UserRow : /\ [r EXCEPT !["enabled"] = b] \in UserRow
                           /\ [r EXCEPT !["enabled"] = b].id = r.id
    BY DEF UserRow
  <2> QED
    BY <1>1, <2>1, ExecUserUpdateStep DEF SetUserEnabled
<1>2. ASSUME NEW l \in Limit, SetUserLimit(u, l) PROVE AgreeInv'
  <2>1. \A r \in UserRow : /\ [r EXCEPT !["limit"] = l] \in UserRow
                           /\ [r EXCEPT !["limit"] = l].id = r.id
    BY DEF UserRow
  <2> QED
    BY <1>2, <2>1, ExecUserUpdateStep DEF SetUserLimit
<1>3. ASSUME NEW n \in Name, SetUsername(u, n) PROVE AgreeInv'
  <2>1. \A r \in UserRow : /\ [r EXCEPT !["name"] = n] \in UserRow
                           /\ [r EXCEPT !["name"] = n].id = r.id
    BY DEF UserRow
  <2> QED
    BY <1>3, <2>1, ExecUserUpdateStep DEF SetUsername
<1> QED
  BY <1>1, <1>2, <1>3

\* The grant is a row of the table and a member of the set in the map.
LEMMA GrantAccessStep ==
    ASSUME AgreeInv, calls < MaxCalls, NEW u \in User, NEW s \in Server, GrantAccess(u, s)
    PROVE  AgreeInv'
<1> DEFINE t == pg.access \cup {<<u, s>>}
           granted == {s} \cup (IF u \in DOMAIN mem.access THEN mem.access[u] ELSE {})
           m == Put(mem.access, u, granted)
<1>1. /\ IsMap(mem.access, User, SUBSET Server)
      /\ AccessAgree(pg.access, mem.access) /\ UsersAgree(pg.users, mem.users)
      /\ pg.access \subseteq User \X Server /\ pg.users \subseteq UserRow
      /\ \A r \in pg.access : r[1] \in DOMAIN mem.users
  BY DEF AgreeInv, Tables, Maps, References
<1>2. Answers /\ pg' = [pg EXCEPT !.access = t] /\ mem' = [mem EXCEPT !.access = m]
  BY DEF GrantAccess, Answered, Answers
<1>3. u \in DOMAIN mem.users
  BY <1>1 DEF GrantAccess, UsersAgree
<1>4. granted \in SUBSET Server
  BY <1>1 DEF IsMap
<1>5. /\ IsMap(m, User, SUBSET Server)
      /\ DOMAIN m = DOMAIN mem.access \cup {u}
      /\ \A x \in DOMAIN mem.access \cup {u} :
             m[x] = IF x = u THEN granted ELSE mem.access[x]
  <2> HIDE DEF granted
  <2> QED
    BY <1>1, <1>4 DEF IsMap, Put
<1> HIDE DEF m
<1>6. AccessAgree(t, m)
  <2> SUFFICES ASSUME NEW x \in User, NEW y \in Server
               PROVE  <<x, y>> \in t <=> x \in DOMAIN m /\ y \in m[x]
    BY DEF AccessAgree
  <2>1. <<x, y>> \in pg.access <=> x \in DOMAIN mem.access /\ y \in mem.access[x]
    BY <1>1 DEF AccessAgree
  <2>2. CASE x = u
    <3>1. y \in granted <=> y = s \/ (u \in DOMAIN mem.access /\ y \in mem.access[u])
      OBVIOUS
    <3>2. u \in DOMAIN m /\ m[u] = granted
      BY <1>5
    <3> HIDE DEF granted
    <3> QED
      BY <2>1, <2>2, <3>1, <3>2
  <2>3. CASE x # u
    BY <1>5, <2>1, <2>3
  <2> QED
    BY <2>2, <2>3
<1>7. t \subseteq User \X Server /\ (\A r \in t : r[1] \in DOMAIN mem.users)
  BY <1>1, <1>3
<1> HIDE DEF t
<1> QED
  BY <1>2, <1>5, <1>6, <1>7, SetAccess

-----------------------------------------------------------------------------
(* Known users, invites, cards                                               *)

\* Who had the name is known by the own id, in both stores.
LEMMA UpsertKnownUserStep ==
    ASSUME AgreeInv, calls < MaxCalls, NEW u \in User, NEW n \in Name, UpsertKnownUser(u, n)
    PROVE  AgreeInv'
<1> DEFINE lost == {IF r[2] = n /\ r[1] # u THEN <<r[1], r[1]>> ELSE r : r \in pg.known}
           t == {r \in lost : r[1] # u} \cup {<<u, n>>}
           old == mem.known
           left == [x \in DOMAIN old |-> IF old[x] = n /\ x # u THEN x ELSE old[x]]
           m == Put(left, u, n)
<1>1. pg.known \subseteq User \X Text /\ IsMap(old, User, Text) /\ KnownAgree(pg.known, old)
  BY DEF AgreeInv, Tables, Maps
<1>2. Answers /\ pg' = [pg EXCEPT !.known = t] /\ mem' = [mem EXCEPT !.known = m]
  BY DEF UpsertKnownUser, Upsert, Answered, Answers
<1>3. n \in Text /\ User \subseteq Text
  BY DEF Text
<1>4. IsMap(left, User, Text)
  BY <1>1, <1>3 DEF IsMap
<1>5. /\ IsMap(m, User, Text)
      /\ DOMAIN m = DOMAIN old \cup {u}
      /\ \A x \in DOMAIN old \cup {u} :
             m[x] = IF x = u THEN n ELSE IF old[x] = n THEN x ELSE old[x]
  BY <1>1, <1>3, <1>4 DEF IsMap, Put
<1> HIDE DEF m
<1>6. \A x \in User, k \in Text :
          <<x, k>> \in lost <=>
              \/ <<x, k>> \in pg.known /\ ~ (k = n /\ x # u)
              \/ k = x /\ x # u /\ <<x, n>> \in pg.known
  <2> SUFFICES ASSUME NEW x \in User, NEW k \in Text
               PROVE  <<x, k>> \in lost <=>
                          \/ <<x, k>> \in pg.known /\ ~ (k = n /\ x # u)
                          \/ k = x /\ x # u /\ <<x, n>> \in pg.known
    OBVIOUS
  <2>1. ASSUME <<x, k>> \in pg.known, ~ (k = n /\ x # u) PROVE <<x, k>> \in lost
    BY <2>1
  <2>2. ASSUME k = x, x # u, <<x, n>> \in pg.known PROVE <<x, k>> \in lost
    BY <2>2
  <2>3. ASSUME NEW r \in pg.known,
               <<x, k>> = IF r[2] = n /\ r[1] # u THEN <<r[1], r[1]>> ELSE r
        PROVE  \/ <<x, k>> \in pg.known /\ ~ (k = n /\ x # u)
               \/ k = x /\ x # u /\ <<x, n>> \in pg.known
    <3>1. r = <<r[1], r[2]>>
      BY <1>1
    <3>2. CASE r[2] = n /\ r[1] # u
      BY <2>3, <3>1, <3>2
    <3>3. CASE ~ (r[2] = n /\ r[1] # u)
      BY <2>3, <3>1, <3>3
    <3> QED
      BY <3>2, <3>3
  <2> QED
    BY <2>1, <2>2, <2>3
<1>7. t \subseteq User \X Text
  BY <1>1, <1>3
<1> HIDE DEF lost
<1>8. KnownAgree(t, m)
  <2>1. \A x \in User, k \in Text : <<x, k>> \in t <=> x \in DOMAIN m /\ m[x] = k
    <3> SUFFICES ASSUME NEW x \in User, NEW k \in Text
                 PROVE  <<x, k>> \in t <=> x \in DOMAIN m /\ m[x] = k
      OBVIOUS
    <3>1. CASE x = u
      BY <1>5, <3>1
    <3>2. CASE x # u
      <4>1. <<x, k>> \in t <=> <<x, k>> \in lost
        BY <3>2
      <4>2. <<x, k>> \in pg.known <=> x \in DOMAIN old /\ old[x] = k
        BY <1>1 DEF KnownAgree
      <4>3. <<x, n>> \in pg.known <=> x \in DOMAIN old /\ old[x] = n
        BY <1>1, <1>3 DEF KnownAgree
      <4> QED
        BY <1>5, <1>6, <3>2, <4>1, <4>2, <4>3
    <3> QED
      BY <3>1, <3>2
  <2>2. \A x \in DOMAIN m : m[x] \in Name \cup {x}
    BY <1>1, <1>5 DEF KnownAgree
  <2>3. \A x, y \in DOMAIN m : m[x] = m[y] => x = y
    BY <1>1, <1>5, StoresAssumption DEF KnownAgree, IsMap
  <2> QED
    BY <2>1, <2>2, <2>3 DEF KnownAgree
<1> HIDE DEF t
<1> QED
  BY <1>2, <1>5, <1>7, <1>8, SetKnown

\* An invite for a name replaces the one before.
LEMMA CreateInviteStep ==
    ASSUME AgreeInv, calls < MaxCalls, NEW n \in Name, NEW l \in Limit, CreateInvite(n, l)
    PROVE  AgreeInv'
<1> DEFINE t == {r \in pg.invites : r[1] # n} \cup {<<n, l>>}
           m == Put(mem.invites, n, l)
<1>1. /\ pg.invites \subseteq Name \X Limit /\ IsMap(mem.invites, Name, Limit)
      /\ InvitesAgree(pg.invites, mem.invites)
  BY DEF AgreeInv, Tables, Maps
<1>2. Answers /\ pg' = [pg EXCEPT !.invites = t] /\ mem' = [mem EXCEPT !.invites = m]
  BY DEF CreateInvite, Upsert, Answered, Answers
<1>3. /\ IsMap(m, Name, Limit)
      /\ DOMAIN m = DOMAIN mem.invites \cup {n}
      /\ \A x \in DOMAIN mem.invites \cup {n} : m[x] = IF x = n THEN l ELSE mem.invites[x]
  BY <1>1 DEF IsMap, Put
<1> HIDE DEF m
<1>4. InvitesAgree(t, m)
  BY <1>1, <1>3 DEF InvitesAgree
<1>5. t \subseteq Name \X Limit
  BY <1>1
<1> HIDE DEF t
<1> QED
  BY <1>2, <1>3, <1>4, <1>5, SetInvites

\* The invite that is deleted is the one that is returned, by both stores.
LEMMA TakeInviteStep ==
    ASSUME AgreeInv, calls < MaxCalls, NEW n \in Name, TakeInvite(n)
    PROVE  AgreeInv'
<1> DEFINE hit == {r \in pg.invites : r[1] = n}
           taken == CHOOSE r \in hit : TRUE
           t == pg.invites \ hit
           m == [x \in DOMAIN mem.invites \ {n} |-> mem.invites[x]]
<1>1. /\ pg.invites \subseteq Name \X Limit /\ IsMap(mem.invites, Name, Limit)
      /\ InvitesAgree(pg.invites, mem.invites)
  BY DEF AgreeInv, Tables, Maps
<1>2. /\ calls' = calls + 1
      /\ pg' = [pg EXCEPT !.invites = t] /\ mem' = [mem EXCEPT !.invites = m]
      /\ answer' = <<IF hit = {} THEN NotFound ELSE taken[2],
                     IF n \in DOMAIN mem.invites THEN mem.invites[n] ELSE NotFound>>
  BY DEF TakeInvite, Answered
<1>3. hit = IF n \in DOMAIN mem.invites THEN {<<n, mem.invites[n]>>} ELSE {}
  BY <1>1 DEF InvitesAgree, IsMap
<1>4. Answers
  <2> HIDE DEF hit
  <2>1. hit # {} => taken \in hit
    BY Zenon
  <2> HIDE DEF taken
  <2>2. CASE n \in DOMAIN mem.invites
    <3>1. taken = <<n, mem.invites[n]>> /\ hit # {}
      BY <1>3, <2>1, <2>2
    <3>2. answer' = <<taken[2], mem.invites[n]>> /\ taken[2] = mem.invites[n]
      BY <1>2, <2>2, <3>1
    <3> QED
      BY <1>2, <3>2 DEF Answers
  <2>3. CASE n \notin DOMAIN mem.invites
    BY <1>2, <1>3, <2>3 DEF Answers
  <2> QED
    BY <2>2, <2>3
<1>5. IsMap(m, Name, Limit)
  BY <1>1 DEF IsMap
<1>6. InvitesAgree(t, m)
  BY <1>1 DEF InvitesAgree
<1>7. t \subseteq Name \X Limit
  BY <1>1
<1> HIDE DEF t, m
<1> QED
  BY <1>2, <1>4, <1>5, <1>6, <1>7, SetInvites

\* The message of a server and an admin is replaced, in the map of the server.
LEMMA SaveStatusMessageStep ==
    ASSUME AgreeInv, calls < MaxCalls, NEW s \in Server, NEW a \in User, NEW msg \in Message,
           SaveStatusMessage(s, a, msg)
    PROVE  AgreeInv'
<1> DEFINE t == {r \in pg.cards : r[1] # <<s, a>>} \cup {<<<<s, a>>, msg>>}
           old == mem.cards
           ofServer == IF s \in DOMAIN old THEN old[s] ELSE NoMap
           new == Put(ofServer, a, msg)
           m == Put(old, s, new)
<1>1. /\ pg.cards \subseteq (Server \X User) \X Message
      /\ DOMAIN old \subseteq Server /\ (\A x \in DOMAIN old : IsMap(old[x], User, Message))
      /\ CardsAgree(pg.cards, old)
  BY DEF AgreeInv, Tables, Maps
<1>2. Answers /\ pg' = [pg EXCEPT !.cards = t] /\ mem' = [mem EXCEPT !.cards = m]
  BY DEF SaveStatusMessage, Upsert, Answered, Answers
<1>3. IsMap(ofServer, User, Message)
  BY <1>1 DEF IsMap, NoMap
<1>4. DOMAIN ofServer = IF s \in DOMAIN old THEN DOMAIN old[s] ELSE {}
  BY DEF NoMap
<1>5. s \in DOMAIN old => ofServer = old[s]
  OBVIOUS
<1> HIDE DEF ofServer
<1>6. /\ IsMap(new, User, Message)
      /\ DOMAIN new = DOMAIN ofServer \cup {a}
      /\ \A x \in DOMAIN ofServer \cup {a} : new[x] = IF x = a THEN msg ELSE ofServer[x]
  BY <1>3 DEF IsMap, Put
<1> HIDE DEF new
<1>7. /\ DOMAIN m = DOMAIN old \cup {s}
      /\ \A x \in DOMAIN old \cup {s} : m[x] = IF x = s THEN new ELSE old[x]
  BY DEF Put
<1> HIDE DEF m
<1>8. DOMAIN m \subseteq Server /\ (\A x \in DOMAIN m : IsMap(m[x], User, Message))
  BY <1>1, <1>6, <1>7
<1>9. t \subseteq (Server \X User) \X Message
  BY <1>1
<1>10. CardsAgree(t, m)
  <2> SUFFICES ASSUME NEW x \in Server, NEW b \in User, NEW k \in Message
               PROVE  <<<<x, b>>, k>> \in t <=> x \in DOMAIN m /\ b \in DOMAIN m[x] /\ m[x][b] = k
    BY DEF CardsAgree
  <2>1. <<<<x, b>>, k>> \in pg.cards <=> x \in DOMAIN old /\ b \in DOMAIN old[x] /\ old[x][b] = k
    BY <1>1 DEF CardsAgree
  <2>2. CASE x # s
    BY <1>7, <2>1, <2>2
  <2>3. CASE x = s /\ b # a
    <3>1. <<<<x, b>>, k>> \in t <=> <<<<x, b>>, k>> \in pg.cards
      BY <2>3
    <3> HIDE DEF t
    <3> QED
      BY <1>4, <1>5, <1>6, <1>7, <2>1, <2>3, <3>1
  <2>4. CASE x = s /\ b = a
    <3>1. <<<<x, b>>, k>> \in t <=> k = msg
      BY <2>4
    <3>2. x \in DOMAIN m /\ b \in DOMAIN m[x] /\ m[x][b] = msg
      BY <1>6, <1>7, <2>4
    <3> QED
      BY <3>1, <3>2
  <2> QED
    BY <2>2, <2>3, <2>4
<1> HIDE DEF t
<1> QED
  BY <1>2, <1>8, <1>9, <1>10, SetCards

-----------------------------------------------------------------------------
(* Peers                                                                     *)

\* The peers, and the number of the last one.
LEMMA SetPeers ==
    ASSUME AgreeInv, Answers, NEW t, NEW m, NEW last \in {pg.serial, pg.serial + 1},
           pg' = [pg EXCEPT !.serial = last, !.peers = t],
           mem' = [mem EXCEPT !.nextPeerID = last + 1, !.peers = m],
           t \subseteq PeerRow, IsMap(m, 1..MaxCalls, PeerRow), PeersAgree(t, m),
           \A i \in DOMAIN m : i <= last,
           \A p \in t : p.user \in DOMAIN mem.users,
           Distinct(t)
    PROVE  AgreeInv'
<1>1. /\ pg'.users = pg.users /\ pg'.access = pg.access /\ pg'.peers = t
      /\ pg'.serial = last /\ pg'.known = pg.known
      /\ pg'.invites = pg.invites /\ pg'.cards = pg.cards
  BY DEF AgreeInv, Tables
<1>2. /\ mem'.users = mem.users /\ mem'.access = mem.access /\ mem'.peers = m
      /\ mem'.nextPeerID = last + 1 /\ mem'.known = mem.known
      /\ mem'.invites = mem.invites /\ mem'.cards = mem.cards
  BY DEF AgreeInv, Maps
<1>3. calls' \in 0..MaxCalls /\ calls' = calls + 1 /\ answer'[1] = answer'[2]
  BY StoresAssumption DEF AgreeInv, Answers
<1>4. last \in 0..MaxCalls /\ last <= calls'
  BY <1>3, StoresAssumption DEF AgreeInv, Answers, Tables, NumbersAgree
<1>5. Tables' /\ Maps'
  BY <1>1, <1>2, <1>4 DEF AgreeInv, Tables, Maps
<1>6. NumbersAgree' /\ References'
  BY <1>1, <1>2, <1>4 DEF AgreeInv, NumbersAgree, References
<1> QED
  BY <1>1, <1>2, <1>3, <1>5, <1>6 DEF AgreeInv

\* The tables accept the peer, and both stores give it the same number.
LEMMA CreatePeerStep ==
    ASSUME AgreeInv, calls < MaxCalls, NEW u \in User, NEW s \in Server, NEW k \in Key,
           NEW i \in IP, CreatePeer(u, s, k, i)
    PROVE  AgreeInv'
<1> DEFINE last == pg.serial + 1
           row == [id |-> last, user |-> u, server |-> s, key |-> k, ip |-> i,
                   revoked |-> FALSE]
           t == pg.peers \cup {row}
           m == Put(mem.peers, last, row)
<1>1. /\ pg.peers \subseteq PeerRow /\ IsMap(mem.peers, 1..MaxCalls, PeerRow)
      /\ PeersAgree(pg.peers, mem.peers) /\ Distinct(pg.peers)
      /\ \A p \in pg.peers : p.user \in DOMAIN mem.users
  BY DEF AgreeInv, Tables, Maps, References
<1>2. /\ pg.serial \in Nat /\ last \in 1..MaxCalls /\ mem.nextPeerID = last
      /\ \A j \in DOMAIN mem.peers : j <= pg.serial
  BY StoresAssumption DEF AgreeInv, Tables, NumbersAgree
<1>3. row \in PeerRow
  BY <1>2 DEF PeerRow
<1>4. u \in DOMAIN mem.users
  BY DEF CreatePeer, AgreeInv, References
<1>5. /\ \A p \in pg.peers : p.key # k
      /\ \A p \in pg.peers : ~ p.revoked /\ p.server = s => p.ip # i
  BY DEF CreatePeer, Active
<1>6. Accepts(row)
  <2>1. mem.users[u] \in pg.users /\ mem.users[u].id = u
    BY <1>4 DEF AgreeInv, Maps, IsMap, UsersAgree
  <2> QED
    BY <1>5, <2>1 DEF Accepts, Active
<1>7. [row EXCEPT !.id = last] = row
  <2>1. row.id = last
    OBVIOUS
  <2> HIDE DEF row, last
  <2> QED
    BY <1>3, <2>1 DEF PeerRow
<1>8. /\ pg' = [pg EXCEPT !.serial = @ + 1, !.peers = IF Accepts(row) THEN @ \cup {row} ELSE @]
      /\ mem' = [mem EXCEPT !.nextPeerID = @ + 1,
                            !.peers = Put(@, last, [row EXCEPT !.id = last])]
      /\ Answered(IF Accepts(row) THEN row.id ELSE "error", last)
  BY <1>2 DEF CreatePeer
<1>9. row.id = last
  OBVIOUS
<1>10. Answers
  BY <1>6, <1>8, <1>9 DEF Answered, Answers
<1>11. pg' = [pg EXCEPT !.serial = last, !.peers = t]
  BY <1>6, <1>8
<1>12. mem' = [mem EXCEPT !.nextPeerID = last + 1, !.peers = m]
  BY <1>2, <1>7, <1>8
<1>13. t \subseteq PeerRow
  BY <1>1, <1>3
<1>14. Distinct(t)
  <2>1. row.server = s /\ row.key = k /\ row.ip = i
    OBVIOUS
  <2> HIDE DEF row
  <2> QED
    BY <1>1, <1>5, <2>1 DEF Distinct
<1>15. \A p \in t : p.user \in DOMAIN mem.users
  BY <1>1, <1>4
<1> HIDE DEF row
<1>16. /\ IsMap(m, 1..MaxCalls, PeerRow)
       /\ DOMAIN m = DOMAIN mem.peers \cup {last}
       /\ \A x \in DOMAIN mem.peers \cup {last} : m[x] = IF x = last THEN row ELSE mem.peers[x]
  BY <1>1, <1>2, <1>3 DEF IsMap, Put
<1> HIDE DEF m
<1>17. last \notin DOMAIN mem.peers
  BY <1>2
<1>18. PeersAgree(t, m)
  BY <1>1, <1>9, <1>16, <1>17 DEF PeersAgree
<1>19. \A x \in DOMAIN m : x <= last
  BY <1>1, <1>2, <1>16 DEF IsMap
<1> HIDE DEF t
<1>20. last \in {pg.serial, pg.serial + 1}
  OBVIOUS
<1> HIDE DEF last
<1> QED
  BY <1>10, <1>11, <1>12, <1>13, <1>14, <1>15, <1>16, <1>18, <1>19, <1>20, SetPeers

\* The row that is revoked is the one the map has under its number.
LEMMA RevokePeerStep ==
    ASSUME AgreeInv, calls < MaxCalls, NEW p \in pg.peers, RevokePeer(p.id)
    PROVE  AgreeInv'
<1> DEFINE hit == {r \in Active(pg.peers) : r.id = p.id}
           row == [p EXCEPT !.revoked = TRUE]
           t == (pg.peers \ {p}) \cup {row}
           m == [mem.peers EXCEPT ![p.id] = row]
<1>1. /\ pg.peers \subseteq PeerRow /\ IsMap(mem.peers, 1..MaxCalls, PeerRow)
      /\ PeersAgree(pg.peers, mem.peers) /\ Distinct(pg.peers)
      /\ \A q \in pg.peers : q.user \in DOMAIN mem.users
  BY DEF AgreeInv, Tables, Maps, References
<1>2. /\ pg.serial \in Nat /\ mem.nextPeerID = pg.serial + 1
      /\ \A j \in DOMAIN mem.peers : j <= pg.serial
  BY DEF AgreeInv, Tables, NumbersAgree
<1>3. p \in PeerRow /\ p.id \in DOMAIN mem.peers /\ mem.peers[p.id] = p
  BY <1>1 DEF PeersAgree
<1>4. hit # {}
  BY DEF RevokePeer
<1>5. hit = {p}
  BY <1>1, <1>3, <1>4 DEF PeersAgree, Active
<1>6. row \in PeerRow /\ row.id = p.id /\ row.user = p.user /\ row.revoked
  BY <1>3 DEF PeerRow
<1>7. {[r EXCEPT !.revoked = TRUE] : r \in hit} = {row}
  BY <1>5
<1>8. /\ pg' = [pg EXCEPT !.peers = (@ \ hit) \cup {[r EXCEPT !.revoked = TRUE] : r \in hit}]
      /\ mem' = [mem EXCEPT !.peers[p.id] = [@ EXCEPT !.revoked = TRUE]]
      /\ Answered("ok", "ok")
  BY <1>3 DEF RevokePeer
<1>9. Answers
  BY <1>8 DEF Answered, Answers
<1>10. pg' = [pg EXCEPT !.serial = pg.serial, !.peers = t]
  BY <1>5, <1>7, <1>8 DEF AgreeInv, Tables
<1>11. mem' = [mem EXCEPT !.nextPeerID = pg.serial + 1, !.peers = m]
  BY <1>2, <1>3, <1>8 DEF AgreeInv, Maps
<1> HIDE DEF row, hit
<1>12. t \subseteq PeerRow
  BY <1>1, <1>6
<1>13. Distinct(t)
  BY <1>1, <1>6 DEF Distinct
<1>14. \A q \in t : q.user \in DOMAIN mem.users
  BY <1>1, <1>6
<1>15. /\ IsMap(m, 1..MaxCalls, PeerRow)
       /\ DOMAIN m = DOMAIN mem.peers
       /\ \A x \in DOMAIN mem.peers : m[x] = IF x = p.id THEN row ELSE mem.peers[x]
  BY <1>1, <1>3, <1>6 DEF IsMap
<1> HIDE DEF m
<1>16. PeersAgree(t, m)
  BY <1>1, <1>3, <1>6, <1>15 DEF PeersAgree
<1>17. \A x \in DOMAIN m : x <= pg.serial
  BY <1>2, <1>15
<1> HIDE DEF t
<1> QED
  BY <1>9, <1>10, <1>11, <1>12, <1>13, <1>14, <1>15, <1>16, <1>17, SetPeers

-----------------------------------------------------------------------------
(* The theorem                                                               *)

\* Both stores are empty, and number from 1.
LEMMA InitAgree == Init => AgreeInv
<1> SUFFICES ASSUME Init PROVE AgreeInv
  OBVIOUS
<1>1. IsMap(NoMap, {}, {}) /\ DOMAIN NoMap = {}
  BY DEF IsMap, NoMap
<1>2. Tables /\ NumbersAgree
  BY <1>1, StoresAssumption DEF Init, Tables, NumbersAgree
<1>3. Maps
  BY <1>1 DEF Init, Maps, IsMap
<1>4. UsersAgree(pg.users, mem.users) /\ PeersAgree(pg.peers, mem.peers)
  BY <1>1 DEF Init, UsersAgree, PeersAgree
<1>5. /\ AccessAgree(pg.access, mem.access) /\ KnownAgree(pg.known, mem.known)
      /\ InvitesAgree(pg.invites, mem.invites) /\ CardsAgree(pg.cards, mem.cards)
  BY <1>1 DEF Init, AccessAgree, KnownAgree, InvitesAgree, CardsAgree
<1>6. References /\ Distinct(pg.peers) /\ answer[1] = answer[2] /\ calls \in 0..MaxCalls
  BY StoresAssumption DEF Init, References, Distinct
<1> QED
  BY <1>2, <1>3, <1>4, <1>5, <1>6 DEF AgreeInv

\* Whatever is called, both stores agree after it.
LEMMA NextAgree == AgreeInv /\ [Next]_vars => AgreeInv'
<1> SUFFICES ASSUME AgreeInv, [Next]_vars PROVE AgreeInv'
  OBVIOUS
<1>1. CASE UNCHANGED vars
  BY <1>1 DEF vars, AgreeInv, Tables, Maps, NumbersAgree, References
<1>2. CASE Next
  <2>1. calls < MaxCalls
    BY <1>2 DEF Next
  <2>2. ASSUME NEW row \in UserRow, UpsertUser(row) PROVE AgreeInv'
    BY <2>1, <2>2, UpsertUserStep
  <2>3. ASSUME NEW u \in User,
               \/ \E b \in BOOLEAN : SetUserEnabled(u, b)
               \/ \E l \in Limit : SetUserLimit(u, l)
               \/ \E n \in Name : SetUsername(u, n)
        PROVE  AgreeInv'
    BY <2>1, <2>3, UserUpdateSteps
  <2>4. ASSUME NEW u \in User, NEW n \in Name, UpsertKnownUser(u, n) PROVE AgreeInv'
    BY <2>1, <2>4, UpsertKnownUserStep
  <2>5. ASSUME NEW u \in User, NEW s \in Server, GrantAccess(u, s) PROVE AgreeInv'
    BY <2>1, <2>5, GrantAccessStep
  <2>6. ASSUME NEW u \in User, NEW s \in Server, NEW m \in Message, SaveStatusMessage(s, u, m)
        PROVE  AgreeInv'
    BY <2>1, <2>6, SaveStatusMessageStep
  <2>7. ASSUME NEW u \in User, NEW s \in Server, NEW k \in Key, NEW i \in IP,
               CreatePeer(u, s, k, i)
        PROVE  AgreeInv'
    BY <2>1, <2>7, CreatePeerStep
  <2>8. ASSUME NEW p \in pg.peers, RevokePeer(p.id) PROVE AgreeInv'
    BY <2>1, <2>8, RevokePeerStep
  <2>9. ASSUME NEW n \in Name, TakeInvite(n) PROVE AgreeInv'
    BY <2>1, <2>9, TakeInviteStep
  <2>10. ASSUME NEW n \in Name, NEW l \in Limit, CreateInvite(n, l) PROVE AgreeInv'
    BY <2>1, <2>10, CreateInviteStep
  <2> QED
    BY <1>2, <2>2, <2>3, <2>4, <2>5, <2>6, <2>7, <2>8, <2>9, <2>10 DEF Next
<1> QED
  BY <1>1, <1>2

\* The keys and indexes of the tables hold, and every query finds the same.
LEMMA AgreeSame == AgreeInv => SameStores
<1> SUFFICES ASSUME AgreeInv PROVE SameStores
  OBVIOUS
<1>1. TypeOK
  <2>1. /\ pg.users \subseteq UserRow /\ Unique(pg.users, LAMBDA r : r.id)
        /\ DOMAIN mem.users \subseteq User
    BY DEF AgreeInv, Tables, Maps, UsersAgree, Unique, IsMap
  <2>2. /\ pg.peers \subseteq PeerRow /\ Unique(pg.peers, LAMBDA r : r.id)
        /\ \A i \in DOMAIN mem.peers : mem.peers[i] \in PeerRow
    BY DEF AgreeInv, Tables, Maps, PeersAgree, Unique, IsMap
  <2>3. /\ Unique(Active(pg.peers), LAMBDA r : <<r.server, r.key>>)
        /\ Unique(Active(pg.peers), LAMBDA r : <<r.server, r.ip>>)
    BY DEF AgreeInv, Distinct, Unique, Active
  <2>4. pg.access \subseteq User \X Server
    BY DEF AgreeInv, Tables
  <2>5. {r[1] : r \in pg.access} \cup {r.user : r \in pg.peers} \subseteq {r.id : r \in pg.users}
    <3>1. \A u \in DOMAIN mem.users : mem.users[u] \in pg.users /\ mem.users[u].id = u
      BY DEF AgreeInv, Maps, UsersAgree, IsMap
    <3> QED
      BY <3>1 DEF AgreeInv, References
  <2>6. /\ Unique(pg.known, LAMBDA r : r[1]) /\ Unique(pg.known, LAMBDA r : r[2])
        /\ DOMAIN mem.known \subseteq User
    BY DEF AgreeInv, Tables, Maps, KnownAgree, Unique, IsMap
  <2>7. Unique(pg.invites, LAMBDA r : r[1])
    BY DEF AgreeInv, Tables, InvitesAgree, Unique
  <2>8. Unique(pg.cards, LAMBDA r : r[1])
    BY DEF AgreeInv, Tables, CardsAgree, Unique
  <2>9. calls \in 0..MaxCalls
    BY DEF AgreeInv
  <2> QED
    BY <2>1, <2>2, <2>3, <2>4, <2>5, <2>6, <2>7, <2>8, <2>9 DEF TypeOK
<1>2. answer[1] = answer[2]
  BY DEF AgreeInv
<1>3. ASSUME NEW u \in User PROVE GetUser(u)
  BY DEF AgreeInv, Tables, Maps, IsMap, UsersAgree, GetUser
<1>4. ASSUME NEW u \in User, NEW s \in Server PROVE HasAccess(u, s)
  BY DEF AgreeInv, AccessAgree, HasAccess
<1>5. ASSUME NEW u \in User, NEW s \in Server PROVE GetStatusMessage(s, u)
  <2> DEFINE of == {r \in pg.cards : r[1] = <<s, u>>}
             there == s \in DOMAIN mem.cards /\ u \in DOMAIN mem.cards[s]
  <2>1. /\ pg.cards \subseteq (Server \X User) \X Message
        /\ \A x \in DOMAIN mem.cards : IsMap(mem.cards[x], User, Message)
        /\ CardsAgree(pg.cards, mem.cards)
    BY DEF AgreeInv, Tables, Maps
  <2>2. ASSUME NEW r \in of PROVE there /\ r[2] = mem.cards[s][u]
    <3>1. r = <<<<s, u>>, r[2]>> /\ r[2] \in Message /\ r \in pg.cards
      BY <2>1
    <3> QED
      BY <2>1, <3>1 DEF CardsAgree
  <2>3. ASSUME there PROVE <<<<s, u>>, mem.cards[s][u]>> \in of
    BY <2>1, <2>3 DEF CardsAgree, IsMap
  <2>4. {r[2] : r \in of} = IF there THEN {mem.cards[s][u]} ELSE {}
    <3>1. CASE there
      <4>1. \E r \in of : r[2] = mem.cards[s][u]
        BY <2>3, <3>1
      <4> HIDE DEF of
      <4> QED
        BY <2>2, <3>1, <4>1
    <3>2. CASE ~ there
      BY <2>2, <3>2
    <3> QED
      BY <3>1, <3>2
  <2> QED
    BY <2>4 DEF GetStatusMessage
<1>6. ListPeers = FilterPeers
  BY DEF AgreeInv, Tables, Maps, IsMap, PeersAgree, ListPeers, FilterPeers, Active
<1>7. ASSUME NEW i \in 1..MaxCalls PROVE GetActivePeer(i)
  BY DEF AgreeInv, Tables, Maps, IsMap, PeersAgree, GetActivePeer, Active
<1>8. ASSUME NEW n \in Name \cup User PROVE FindKnownUser(n)
  <2> DEFINE named == {r \in pg.known : r[2] = n}
  <2>1. /\ pg.known \subseteq User \X Text /\ IsMap(mem.known, User, Text)
        /\ KnownAgree(pg.known, mem.known) /\ n \in Text
    BY DEF AgreeInv, Tables, Maps, Text
  <2>2. ASSUME NEW r \in named PROVE r[1] \in DOMAIN mem.known /\ mem.known[r[1]] = n
    <3>1. r = <<r[1], n>> /\ r[1] \in User /\ r \in pg.known
      BY <2>1
    <3> QED
      BY <2>1, <3>1 DEF KnownAgree
  <2>3. ASSUME NEW u \in DOMAIN mem.known, mem.known[u] = n PROVE \E r \in named : r[1] = u
    <3>1. <<u, n>> \in pg.known
      BY <2>1, <2>3 DEF KnownAgree, IsMap
    <3> QED
      BY <3>1
  <2> HIDE DEF named
  <2>4. {r[1] : r \in named} = {u \in DOMAIN mem.known : mem.known[u] = n}
    BY <2>2, <2>3
  <2> QED
    BY <2>4 DEF FindKnownUser, named
<1>9. ListInvites
  BY DEF AgreeInv, Tables, Maps, IsMap, InvitesAgree, ListInvites
<1> QED
  BY <1>1, <1>2, <1>3, <1>4, <1>5, <1>6, <1>7, <1>8, <1>9 DEF SameStores

\* After any calls one update loop can make, in any order, the tables keep their keys,
\* indexes and references, which the maps do not have; the maps have given the answers
\* of the tables; and every query finds the same in both: SameStores.
THEOREM StoresAgree == Spec => []SameStores
BY InitAgree, NextAgree, AgreeSame, PTL DEF Spec
=============================================================================
