# Verification of amnezia-manager-bot

TLA+ specifications of the bot in `src/`, configurations that check them with
TLC, and theorems about them checked by TLAPS. The bot gives Telegram users
WireGuard (AmneziaWG) configurations: it adds a peer to a VPN server over SSH,
remembers it in Postgres, removes it again, watches the servers, and tells the
administrators when one is down.

Every definition is translated from the code; `PROJECT.json` names the lines.

## 1. The system

| Part | Code | State | Operations |
|---|---|---|---|
| Application service | `internal/service` | none of its own | CreateConfig, DeleteConfig, AdminAddUser, AdminDisableUser, AdminSetLimit, RememberUser, CreateInvite, ServerForComplaint |
| Store | `internal/store/postgres`, `internal/db/migrations`; `internal/store/memory` for tests | users, accesses, peers, status messages, known users, invites | one SQL statement per method, except UpsertKnownUser (two) |
| SSH provider | `internal/vpn/sshprovider` | one connection per server, under a mutex | CreatePeer, RemovePeer, HealthCheck: one remote command each |
| Server scripts | `deploy/server` | the conf file, the running interface | awg-peer-add, awg-peer-remove, awg-health |
| Address allocation | `internal/netalloc` | none | Allocate |
| Telegram layer | `internal/tgbot` | dialog states, lost on a restart | messages, commands, buttons, confirmations |
| Monitor | `internal/monitor` | srvState of each server, lost on a restart | Run, CheckNow, Snapshot |
| Alerts | `internal/alerts` | downSince, lost on a restart; the cards are in the store | ServerDown, ServerUp, Complaint |
| Routes, patcher | `internal/routes`, `internal/patcher` | the last good list | Refresh, AllowedIPs, Patch, ValidateAndClean |
| Configuration, main | `internal/config`, `cmd/bot` | read once | start-up |

One goroutine handles the updates, one at a time (`tgbot.Bot.Run`); a second one
runs the monitor and, inside it, the alerts; a third one refreshes the routes. The
update loop and the monitor share the SSH connections; the update loop calls the
alerts (complaints) and reads the monitor's snapshot.

What is hard in it:

* **Two stores and no transaction.** A peer exists on the server and in the
  database; each call between the two can fail, be cut off, or be the last one
  before a crash. A command whose caller gave up may still run, later.
* **Checks calls before the use**: account, access, limit and address are read
  before the peer is made and the row is saved.
* **Retries by hand**: buttons stay under old messages, disabling is repeated.
* **Incidents known in two memories and shown in many chats**, with edits that
  are refused, sends that fail, and restarts.
* **Thresholds over flapping servers** and slow rounds of checks.
* **Dialogs** whose state is cleared, expires, or is forgotten.
* **Unsigned arithmetic** in the search for an address.
* **One connection for two goroutines**, closed by the one under the other, and a mutex
  held while a server is dialled that may never answer.
* **A file rewritten in place** by scripts that take no lock.
* **Names that change hands** between an invite, the message that redeems it, and the
  administrator who uses the name.

What makes each part correct is stated by the properties below;
`PROJECT.json` lists the hazards line by line.

## 2. Modules

| Module | Models | Composed with |
|---|---|---|
| `Directory` | abstract: issuing and revoking in one step | implemented by `PeerLifecycle` |
| `PeerLifecycle` | service, store, scripts and SSH failures around a peer | `Directory` |
| `ConfFile` | a conf file as a list of sections | used by `PeerTable`, `PeerConf` |
| `PeerTable` | abstract: a peer table that changes by one peer at a time | implemented by `PeerConf` |
| `PeerConf` | the two scripts, command by command | `PeerTable` |
| `SshPool` | the cache of connections, the update loop and the monitor | - |
| `Accounts` | accounts, grants, known names, invites, enabled servers | - |
| `Stores` | the Postgres tables and the maps of the memory store, side by side | - |
| `AddressSpace` | addresses as words of `Width` bits | used by `Netalloc`, `Routes` |
| `Netalloc` | the loop of Allocate | - |
| `Routes` | ValidateAndClean, and the refresh of the list | - |
| `Monitor` | the monitor's goroutine, the clock, the servers | `Incidents` |
| `Alerts` | cards and complaints, the chats, the stored messages | `Incidents` |
| `Incidents` | monitor and alerts together | - |
| `Dialog` | the states of the Telegram layer | - |
| `PeerLifecycle_proofs`, `SshPool_proofs`, `Accounts_proofs`, `Stores_proofs`, `Incidents_proofs`, `Dialog_proofs`, `PeerConf_proofs`, `Addresses_proofs` | theorems about the module of that name; those about `Monitor` are in `Incidents_proofs`, those about `Netalloc` and `Routes` in `Addresses_proofs` | - |
| `MC_...` | values and symmetry for TLC | - |

Definitions called a mutant (`CreateSkipsCleanUp`, `FullEarly`, ...) are plausible
mistakes in the definition that follows them. No specification uses them. Each
property of a passing run is violated when one of them takes the place of the
definition it belongs to, which shows that the property depends on the code.

### PeerLifecycle

A *worker* is an update loop. Each call it makes to the database or to the
server is one action, so everything else may happen between two calls. `job[w]`
is where worker `w` stands in its handler and what it holds in local variables
(the limit that CreateConfig read first, the list that revokeUserPeers walks).

* `account`, `limit`, `access`, `row` are the tables; `owner` and `addr` are the
  columns of a row, fixed when the key is generated.
* `line` is the place of a peer's block in the conf file, `live` and `route` are
  the peers and allowed addresses of the running interface. An address has one peer:
  the last `awg set` wins, and after a reboot the last block of the file.
* `late` holds the commands whose caller has given up: each may run once, at any
  later time, or never.
* Faults: `"db"` (a call fails, before or after its commit), `"ssh"` (a call fails
  and its command may run later), `"awg"` (the last line of a script fails),
  `"crash"` (of the bot, anywhere in a handler, with a command on its way),
  `"reboot"` (of the server).

Abstracted: keys never repeat; one server (CreateConfig uses DefaultServer only);
a script is one step (`PeerConf` has its commands); refused requests and failed calls that change nothing are left
out unless they end a handler that has gone on to another stage; the order in which
revokeUserPeers walks its list is free; the document is delivered when the row is saved.

`config` is the refinement mapping to `Directory`: a row that is there is a
configuration, with the user and the address fixed when its key was made. `IsDirectory`
says that CreateConfig, with its five database calls, a remote command and a clean-up,
amounts to one `Issue` at the moment its row is saved, and DeleteConfig and
AdminDisableUser to a `Revoke` for each row they mark. Everything else is a stutter.

### PeerConf

A process on the server runs a script: `check` (grep), `copy` (make the new text in a
temporary file), `open` (the shell empties the conf file), `write` (cat fills it), `awg`.
`conf` is the file as a list of sections, `live` the running interface. A second process
exists because a command whose connection broke goes on (`CutOff`). `Buffer` is what awk
gathers from a marker of the bot to the next one: blocks made by hand after it included;
`Outside` (`ConfFile`) is what it prints, the sections that are not in the buffer.
`intact` is history: it is lost when a script reads or writes in the middle of another's
copy, when the server stops within a write, and when a peer is made by hand below one of
the bot's. `IsPeerTable` is the refinement of `PeerTable`, with a file that is being
filled taken for full (`File`). `answer` is what the bot knows of a key.

### SshPool

A goroutine's call goes from `lock` (client takes the mutex) over `dial`, unless the map
has a connection, to `run`, and after an error over `evict` and `close`. The refusal of a
disabled server ends a call before that, and is counted as no failure. The mutex is
state only while it is held to dial; `evict` is a critical section of its own and one step. A connection may
break or fall silent; a handshake may stick, since only the TCP connection has a
timeout. Connections are numbered; a number is free again when nobody holds it.

### Accounts

One update loop, each statement an action which may fail before or after its commit
(`Statement`). UpsertKnownUser is two statements. `forgot` (whose message last took a
name from the others), `owed` (the names an administrator was told are invited) and
`added` (the servers enabled when the user was added) are history. `Reconfigure` starts
the bot with other servers enabled. What AdminDisableUser does to the peers is in
`PeerLifecycle`; a failure of its one update has no effect here and is left out.

### Stores

`pg` holds the tables as sets of rows with their keys and indexes, `mem` the maps. Every
call is made to both, for arguments one update loop can give (a grant for an account that
is there, a peer with a key of its own and a free address, a revocation of an active
row): the errors of constraints and of a second revocation are out of its reach. There
the two do differ: the maps know no constraint, and revoke a revoked peer without
ErrNotFound. Both sort every list by a unique key, so a list is compared as the set of its
entries; for ListInvites, which Postgres sorts by the collation of the database
(`postgres.go:253`) and the maps by bytes (`memory.go:242`), the order may differ. Who loses a name is known by the own number, as text,
and a username is never a number.

### Routes

Addresses have `Width` bits; an entry is a network or `Junk`. A list is the set of its
entries. A body over the limit is cut, and the last entry may lose a digit of its length
(`Stump`). `served` is what the URL has now, `offered` everything it has had.

### Netalloc

The loop, one step per iteration, on words of `Width` bits that wrap. The subnet
is any prefix, as `net.ParseCIDR` gives it, and any set of addresses is in use.

### Monitor

`downSince`, `upSince`, `lastCheck` and `alerted` are srvState. `call` is the call
to the alerts, made after the lock is given up; the next server is checked when it
returns. `tick` is the ticker, which keeps one tick for a late receiver. Servers go
down and come up at any moment. With `SlowChecks` time passes within a round too.
`log` is history: every check since the start of the process.

### Alerts

`incident` is `Manager.downSince`, reduced to its keys. `card` is the updateCards in
progress: read the row, edit, or send and store, for each admin in any order, each
a step that can fail. An edit that failed may have been applied. Edits of a message into its own text are refused, as Telegram
does. A message that failed to be sent may have arrived, a row that failed to be
saved may have been committed. `complaint` is a complaint on its way, sent by the
other goroutine. The text of a card is its colour.

### Incidents

Monitor, extended by an instance of Alerts (`A`): the monitor's `call` is
ServerDown or ServerUp of the alerts (`Call`), and returns when the cards are done
(`Return`). A restart stops both. `outages` counts outages of each server.

### Dialog

`states` is `states.m`. A button, command, confirmation or text is one step, since the
update loop handles it to its end. What the service does is one effect. `asked` is
history: the last question each user was asked. A handler that needs what the state
held reads it as the code does, after the state was cleared (`Target`). Private chats are assumed: the author
of a text is the reader of the answer. A call that fails ends a handler as an
answer with no effect does.

## 3. Runs

Bounds on faults, clock, keys, posts, outages and restarts are constants named
`Max...`, `Key` and `PoolSize`. Deadlock is checked except where a run ends by design:
Netalloc (the search is over), Incidents (the chat or the clock is full), PeerConf (every
key is used) and Stores (all calls are made).

| Run | Shows | Instance |
|---|---|---|
| `peers` | the handlers implement `Directory`; a fault costs server, database or admin one disagreement; nobody is revoked for another | 1 loop, 2 users, 3 keys, 2 addresses, 2 faults of any kind |
| `two_loops` | two bots of a rolling update: rows and blocks agree; repeated disabling finishes (liveness) | 2 loops, 1 user, 2 keys, 2 addresses, 2 faults of db, ssh, crash |
| `conf` | the scripts implement `PeerTable`; what the bot was told is so | 3 keys, 1 peer by hand, 2 scripts at once, 2 faults |
| `pool` | one fault leaks one connection and costs a goroutine one call, calls return (liveness) | 2 goroutines, 2 enabled servers and a disabled one, 2 faults |
| `accounts` | one fault loses one invite, names lead to their last writer, who was added may create | 2 users, 2 names, 2 servers, 2 faults, 1 reconfiguration |
| `stores` | both stores answer alike, for the calls of one update loop | 2 of everything, 6 calls |
| `netalloc` | the first free address, an end | every subnet and every set of 3-bit words |
| `routes` | no private network, whole lists, catching up (liveness) | 3-bit addresses, lists of up to 3 of 10 entries, a limit of 2, 1 change |
| `monitor` | alerted exactly when the threshold is reached; an honest status | 2 servers, slow checks, a restart |
| `incidents` | monitor and alerts agree; alerts come in time and stay in sight; recoveries show; no spam; complaints are safe | 1 server with 2 outages, 2 admins, 2 faults of any kind, a restart |
| `dialog` | answers go to their question, admins rule | an admin and a user, a TTL of 2, 5 readings of the clock |
| `dialog_limit` | a violation, see Findings | as `dialog` |

Why these are enough: a shared address needs two peers and a third to be issued
between them, hence three keys and two addresses; a peer that is lost and a retry that
fails need two faults, and so does a fault that would cost two rows or addresses. In `peers` both users pass for admins, so that a device button may
be pressed by a disabled user too. The monitor's properties concern one server at a time;
two are there for a round that checks one late. An interval of 2 puts a flap between two
checks. In `incidents` five readings of the clock hold an alerted outage, its recovery
and a second alerted outage. In `conf` a block of the bot between two others is needed to
see a cut that takes too much, hence three keys; with two scripts one can be anywhere
inside the other. In `pool` two faults let both goroutines fail on one connection and on
the next. Six calls to the stores are enough to add a user, grant access, create a peer,
revoke it, and create the next one on its address. The entries of `routes` hold a network
in a blocked one, one that contains it from its first address, one that begins before it,
one with host bits, and the whole space.

Where a fault does make server, database and bot disagree, a property bounds how often: one
fault makes one disagreement at most, in behaviours with all faults, retries and late
commands. While none of the faults it counts occurs, it says that there is no disagreement.

* `RevokedStaysOut`: a revoked peer is up for a failure of `awg` since the last reboot.
* `OneDownPerFault`: an issued configuration is down for an SSH call that was cut off, whose
  add runs late and takes an address, or for a crash with an add on its way.
* `OneOrphanPerFault`, `OneSharedPerFault`: a block without a row, or with the address of
  another, for an SSH call, an `awg set` or a bot that fails. A failed insert leaves neither.
* `OneMissedPerFault`: a row that is active although the admin was told otherwise, for a
  removal that failed. While no query fails (`Spared`): a list that cannot be read is passed
  over whole.
* `OneLeakPerFault`: a connection that is open and out of reach, for any fault.
* `OneLostPerFault`: an owed invite, for a failed statement or a crash.

Others hold only while faults of a kind stay away; their definitions say so:

* `AlertShown`: every message could be sent.
* `RecoveryShownWhileUp`: the same, no restart, and either every row could be saved or every
  row could be read and every card edited. The proof needed the last condition: when a red
  card cannot be edited, the green one sent instead is not stored, and the next red one is
  not stored either, the next recovery edits the old card, and the newest stays red. That
  takes three faults in two outages, more than the run has.
* `OneCardPerOutage`: nothing failed.
* `AnswersHold`: `intact`, and `awg` never failed. `IsPeerTable`: `intact`.
* `WholeOrNothing`, `CatchesUp`: for lists below the limit of a body.
* `AlertInTime`: checks are faster than the interval (`SlowChecks` is FALSE).
* `FirstFree`, `FullMeansFull`: the network address plus two is an address (`Fits`), which
  is false for 255.255.255.254/31 and the last two /32 only.

Fairness is stated by four specifications, each time for steps of the program alone:

* `two_loops` assumes that a worker finishes the handler it is in (weak fairness of
  `WorkerStep`): the loop runs whenever its call has returned. It assumes nothing of
  requests, faults or late commands; that the admin disables again and again is a
  premise of the property.
* `netalloc` assumes that the loop runs.
* `pool` assumes that a dial or a command ends, unless it sticks or its
  connection is silent (weak fairness), and that a goroutine which waits for the mutex
  gets it when it is free again and again (strong fairness of `Client` and `Evict`):
  sync.Mutex hands itself over to a goroutine that has waited too long. Nothing is
  assumed of a silent far end; `Returns` names those who wait for one.
* `routes` assumes that the ticker goes on and that a request ends: the HTTP client has a
  timeout of 30 seconds. The URL is free to be down; the bound on its changes is the premise
  that it settles.

Two update loops at once, as in a rolling update, are checked in `two_loops` for one user; the
theorems about them hold for any number of both. A limit, or an address that two loops
choose at once, is not safe there (`OneWorkerEntitles`).

### Findings

`dialog_limit` ends in a violation: the limit dialog never sets a limit, because its
state, which holds the target, is cleared before the handler reads it (`bot.go:117`).

### Disagreements seen, stated as conditions

In these places the code does less than its documents or comments say. No run is spent on
their counterexamples: a passing property says how far the promise does hold, and the
hazards in `PROJECT.json` give the lines.

* AdminDisableUser reports that the configurations are revoked although a peer was passed
  over: `OneMissedPerFault` bounds how many.
* `|| true` in awg-peer-remove hides a peer the kernel kept, and a retry does not find its
  block any more: `RevokedStaysOut` counts these failures.
* An abandoned add that runs late takes the address from a configuration issued since:
  `OneDownPerFault` allows one for each.
* A restart during an outage forgets it; its recovery is not shown, nor is one for a card
  that was replaced in the chat and not in the database: `RecoveryShownWhileUp`.
  A restart in an outage also sends a second message for it
  (`docs/amnezia-manager-bot_spec.md:122` wants one per incident).
* The author of a complaint is told that the administrators know, also when no message
  could be sent. No property: nothing is retried or kept.
* awk cuts peers made by hand below a block of the bot together with it, and the scripts
  take no lock: `IsPeerTable` needs `intact`.
* The patcher lets no private networks pass, its comment says (`patcher.go:44`); it looks
  up the first address only. `OnlyWiderBlocked` states what is left: a network that is
  wider than a private one and begins before it, such as 128.0.0.0/1, passes.
* When both goroutines have failed on one connection, the second evicts what the first
  has dialled since, and nobody closes it: `OneLeakPerFault` allows one for each fault.
* A server enabled later as the first one of the configuration shuts out everyone added
  before: `AddedMayCreate` needs it to have been enabled when the user was added.
* Complaints are messages of their own, where the specification's line 122 says they edit
  the card; a question repeated after a bad answer is not listened to any more, since its
  state is cleared (`bot.go:105`).

## 4. Theorems

`PeerLifecycle_proofs`, for any number of workers, users, keys and addresses, any
faults and any bound on them, from `ConstantsAssumption`:

* `TypeCorrect`: `Spec => []TypeOK`.
* `Invariance`: the inductive invariant `Inv`. Neither `RevokedOffServer` nor
  `ActiveInConf` is inductive: an add command still on its way could bring back the
  block of a revoked row, and a second worker could save a row for a key whose peer was
  removed. `Inv` excludes both: a key in the hands of CreateConfig is in the hands of one
  worker only, has no row and no add command pending; a key with a row is never added
  again; a row is revoked only when its block is gone.
* `RevokedStaysOff` and `ActiveStaysOn`: `RevokedOffServer` and `ActiveInConf`, from it.
* `OneWorkerEntitles`: `NewPeerIsEntitled` with a single update loop. What CreateConfig
  has checked stays true until it saves, because every other handler waits. With two
  loops it does not hold.
* `OneWorkerIsDirectory`: with a single update loop `Spec => IsDirectory`, the refinement
  of `Directory`, for any number of users, keys and addresses and any faults. The step
  simulation uses `Inv` (a key that is saved has no row yet) and `CheckedInv`: from each of
  CreateConfig's checks on, what it read of the account, the limit, the access, the
  user's rows and the lowest free address still holds, because every other handler waits
  and what happens meanwhile (late commands, reboots) does not touch the tables.
* `OnlyOwnersRevoke`: `RevokedForOwner`, by `OwnersInv`: GetActivePeer and the list of
  revokeUserPeers look at the owner once, and the key they leave in the hands of the
  handler keeps that owner, since an owner is written only for a key that has none.
* `RevokedAreOut`: `RevokedStaysOut`, by `OutInv`: a peer that is up has its block in the conf
  file, but for one for each failure of `awg` since the reboot, and a revoked one has none.
* `NothingOrphaned`: `OneOrphanPerFault`, by `OrphanInv`: a block without an active row, or an
  add that may still bring one, is with the worker that made it, or it is stray (`Stray`),
  and a step makes one more stray only with a fault that CreateConfig does not make good.
* `AddressesApart`: `OneSharedPerFault` with a single update loop, by `ApartInv`: the blocks that
  are not stray have rows, or are about to, and Allocate sees their addresses used.
* `IssuedIsUp`: `OneDownPerFault` with a single update loop, by `LinesInv`, `RowsApart` and
  `UpInv`. `UpInv` counts the adds that may still run and the peers one of them has put down
  together (`Owed`): a late add is one less of the ones and one more of the others. A peer
  that is due to be up is the last of those that claim its address in the file, which is the
  one a reboot gives it to; `LinesInv` makes the file an order of blocks.
* `ToldIsRevoked`: `OneMissedPerFault` with a single update loop, by `OffInv` and `MissedInv`: the
  peers still to be revoked are in the list of revokeUserPeers, or a failed removal has
  passed them over, and their user is off from its first call on.
* `RoundsFinish`: what `RepeatedDisableFinishes` rests on, with a single update loop and
  whatever fails. A user who is off gets no active row, by `CheckedInv`; every call of a round
  of revokeUserPeers leaves fewer of them (`RoundLeft`, a number); and as long as no call
  fails and the bot does not stop, the round passes over no active row, so that the user
  has none at its end.

`Addresses_proofs`, about Netalloc for words of any width, from `WidthAssumption`:

* `TypeCorrect`, and `AllocateFirstFree` (`FirstFree`) and `AllocateFull` (`FullMeansFull`), by
  the invariant that every usable address below the loop variable is in use.
* `SearchShrinks`: what is left of the search (`Left`) is a natural number, and smaller after
  every iteration: the loop cannot run for ever. What `Ends` adds is that it runs.

About Routes for any lists and limits, from `WidthAssumption` and `RoutesAssumption`:

* `ListIsWhole` (`WholeOrNothing`), since what was read is one of the lists offered unless
  one was cut.
* `BlockedStayOut` (`OnlyWiderBlocked`): every entry of the list was accepted (`CleanInv`), so
  its first address is in no blocked network; one that overlaps a blocked network all the
  same contains it. That takes the laws of 2^n, which the library has no theorem for but
  as the number of subsets of an interval (`FS_SUBSET`), and those of the quotient.
* `ListSettles`: what `CatchesUp` rests on. As long as the URL serves the same, the list in use
  is at most three steps of Run away from it (`Distance`), each request and update takes it
  nearer, and nothing takes it away again.

`SshPool_proofs`, for any number of servers, goroutines and faults, from
`PoolAssumption`:

* `FaultsPayForLeaks`: `OneLeakPerFault`. A connection that is forgotten was evicted for the
  failure of another. `DebtInv` counts the forgotten connections together with the doubtful
  ones, which are broken or have failed somebody and may still make a goroutine evict: a
  fault makes one connection doubtful, and who forgets one has done with a doubtful one.
  `OnceInv` says that nobody else is about to evict for the same: out of the map, a
  connection is with one goroutine at most that may still fail on it.
* `FaultsPayForFailures`: `OneFaultOneFailure`. Failures so far are not bounded by the faults
  inductively: one fault can spoil a connection that has not failed anybody yet. `PaidInv`
  counts, for each goroutine, its failures, the one it is about to have and the faulty
  connections still to fail it, and bounds their sum by the faults.
* `CallsMoveOn`: what `Returns` rests on. A call that waits for no far end has something to
  do, since the mutex is free or held by one that dials; and no step takes a call back to
  a stage it has left (`Rank`), since `run` never tries a command again.

`Accounts_proofs`, for any users, names and servers, from `AccountsAssumption`:

* `NamesLeadToLastWriter`: `NameOfLastWriter`. Between the two statements of the upsert the
  name belongs to nobody else; a failure there leaves it so, never with two owners.
* `AddedMay`: `AddedMayCreate`. A handler that is granting servers has those that are left
  in `todo`; the others are granted.
* `OwedIsKept`: `OneLostPerFault`. Only a fault loses a name, the one in hand (`LossStep`):
  while an invite is being taken its name is known of its owner alone, by `NameInv`, and the
  names of all other invites of nobody.

`Stores_proofs`, for any users, servers, keys, addresses, names and number of calls, from
`StoresAssumption`: `StoresAgree` (`SameStores`), by `AgreeInv`. Each table holds exactly the
entries of its map; both number the peers alike, from one above every number in use; every
row refers to an account that is there; no two active rows share a key or an address on
a server, although the maps do not look; and no two people are known by the same name,
because who loses one is known by a number instead, which nobody else has.

`Incidents_proofs`, about Monitor for any servers, threshold, interval and clock, from
`MonitorAssumption`: `AlertsAreJust` (`AlertedIffFailing`) and `SnapshotIsHonest`
(`SnapshotHonest`). The log grows for ever and srvState holds two times and a flag: the
invariant `MInv` says that these are the start of the run of equal results that ends the log.

About Monitor and Alerts together, for any servers, administrators, thresholds, faults and
restarts, from `MonitorAssumption` and `IncidentsAssumption`:

* `TypeCorrect`: `TypeOK`. `ComponentsKept`: every behaviour is one of Monitor and one of
  Alerts, so what is proved or checked of one alone stays true.
* `SameIncidentsHold`: `SameIncidents`, by `SameInv`: the two records differ only by the server
  of a call that has been made and not begun.
* `StoredMessageIsCard` (`StoredIsCard`) and `RedCardsAreNew` (`RedIsNew`), by `CardInv`: an
  update with a red card is forced to send, so that only a green card reads the stored
  message and edits it; a complaint stores nothing.
* `AlertedInTime` (`AlertInTime`), by `TimeInv`: while checks are fast a round is over at the
  time of its tick; a run of failures starts at the first check of an outage or before it,
  and is alerted at the check that makes it as long as the threshold.
* `AlertsAreShown` (`AlertShown`), by `StageInv` and `ShownInv`: once an administrator has been
  served, the newest card of an incident is red in that chat.
* `RecoveriesAreShown` (`RecoveryShownWhileUp`), by `GoneInv`: a stored card that is red is
  the newest, and so the one that the recovery edits. Where reading or editing may fail,
  the card that is sent instead is stored before the administrator has been served.
* `OutagesCostOneCard` (`OneCardPerOutage`), by `OneInv`: the cards in a chat, the one that is
  due and the outage that may still be alerted are together at most the outages so far.

`Dialog_proofs`, for any users, names and time to live, from `DialogAssumption`:
`AdminsOnly` (`OnlyAdminsRule`), `QuestionIsHeard` (`FirstQuestionHeard`) and
`AnswersLastQuestion` (`AnswersQuestion`). The invariant: the state the bot keeps of a user
agrees in kind and time with the last question asked, unless it was cleared, and a
question for administrators is kept for administrators only. `TypeCorrect` is `TypeOK`, by
`StateInv`: a state lives no longer than stateTTL and has a target only in the limit dialog.

`PeerConf_proofs`, for any number of keys, of peers made by hand and of scripts at once, and
any faults, from `ConfAssumption`:

* `OutsideKeeps`: what awg-peer-remove writes back is exactly the other sections, in the order
  they were in. `Outside` is a recursive function; the library's induction takes an operator
  as its parameter, but its theorem on minimal elements (`WFMin`) takes a set, and gives
  induction over the numbers up to a bound for a property that is a set (`UpTo`).
* `AnswersAreTrue` (`AnswersHold`) and `TableKept` (`IsPeerTable`, the refinement), by
  `PeerInv`. A script that adds is alone with its key and its answer is still out
  (`AnswerInv`). While the file is `intact` (`FileInv`), one script at most has it open, it is
  empty while that one writes, the text to be written is the one of the file as it is, and
  what was made by hand comes before the bot's peers, so that what awk gathers is one block.
  A peer that runs without a block has a script that has still to take it from the interface
  (`LiveInv`).

The six theorems about one update loop (`OneWorkerEntitles`, `OneWorkerIsDirectory`,
`AddressesApart`, `IssuedIsUp`, `ToldIsRevoked`, `RoundsFinish`) assume `Worker = {w}`, which is how the bot is
deployed; `AlertedInTime` assumes `SlowChecks = FALSE`, as its property says.

Only model-checked: liveness under fairness (`RepeatedDisableFinishes`, `Ends`, `Returns`,
`CatchesUp`), which is beyond the prover. `RoundsFinish`, `SearchShrinks`, `CallsMoveOn` and
`ListSettles` prove the half of it that speaks of single steps: a measure that every step of
the actor in question brings down. That these steps are taken is what fairness adds, and
TLC checks. What `Spared` excludes needs no theorem: there the properties are false, as the
disagreements above tell.

## 5. Not modelled, and the plan

Left to model: peers on several servers, and what disabling one of them in the
configuration does to deletions (`provider.go:48`).

Not modelled:

* Key generation and the text of configurations (`vpn/keys.go`, `vpn/provider.go`,
  `patcher.Patch`): their content matters, not their state.
* Wording and keyboards: no state.
* The connection to the database and its migration (`internal/db`), signals and the health
  endpoint (`cmd/bot`): start and end of the process, which `Crash` and `Restart` stand for.
* The loss of an update that was acknowledged but not handled: the same, to every module, as
  a user who did not write.
* The fields of the configuration other than the enabled servers: constants of the modules.
* The development stand-in for a server.
