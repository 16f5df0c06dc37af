------------------------ MODULE PeerLifecycle_proofs ------------------------
(***************************************************************************)
(* Proofs about PeerLifecycle, for any number of workers, users, keys and  *)
(* addresses and any faults.                                               *)
(***************************************************************************)
EXTENDS PeerLifecycle, FiniteSetTheorems, TLAPS

USE ConstantsAssumption

-----------------------------------------------------------------------------
(* Types                                                                   *)

\* The bot starts with an empty database and an empty conf file.
LEMMA InitType == Init => TypeOK
BY DEF Init, TypeOK, Job, Idle, Task, Stage, KeyStage

\* The type of the jobs, apart from the rest of the state.
JobsOK ==
    /\ job \in [Worker -> Job]
    /\ \A w \in Worker : /\ job[w].at # "idle" => job[w].user \in User
                         /\ job[w].at \in KeyStage => job[w].key \in Key

\* A worker that returns, or goes on with a user and, where its new stage needs
\* one, a key, keeps the jobs well-formed.
LEMMA TakeType ==
    ASSUME TypeOK, NEW w \in Worker, NEW stage \in Stage,
           NEW u \in User \cup {None}, NEW k \in Key \cup {None},
           NEW lim \in Nat, NEW todo \in SUBSET Key,
           stage # "idle" => u \in User,
           stage \in KeyStage => k \in Key,
           Take(w, Task(stage, u, k, lim, todo))
    PROVE  JobsOK'
<1>1. Task(stage, u, k, lim, todo) \in Job
  BY DEF Task, Job
<1> QED
  BY <1>1 DEF TypeOK, JobsOK, Take, Task

\* A worker that returns holds neither a user nor a key.
LEMMA ReturnType ==
    ASSUME TypeOK, NEW w \in Worker, Return(w)
    PROVE  JobsOK'
BY TakeType DEF Return, Idle, Stage, KeyStage

\* A worker that goes on within its task keeps its user and its key.
LEMMA GotoType ==
    ASSUME TypeOK, NEW w \in Worker, NEW stage \in Stage, Goto(w, stage),
           job[w].at # "idle",
           stage \in KeyStage => job[w].at \in KeyStage
    PROVE  JobsOK'
<1>1. JobsOK
  BY DEF TypeOK, JobsOK
<1> QED
  BY <1>1 DEF JobsOK, Goto, Job, Stage, KeyStage

\* A fault is added to those so far.
LEMMA FaultType ==
    ASSUME TypeOK, NEW kind, Fault(kind)
    PROVE  faults' \in Seq(Faults)
BY DEF TypeOK, Fault

\* Appending a block keeps the conf file well-formed.
LEMMA AppendType ==
    ASSUME TypeOK, NEW k \in Key, AppendBlock(k)
    PROVE  line' \in [Key -> Nat]
<1>1. IsFiniteSet(InConf)
  BY FS_Subset DEF InConf
<1>2. Cardinality(InConf) \in Nat
  BY <1>1, FS_CardinalityType
<1> QED
  BY <1>2 DEF TypeOK, AppendBlock

\* Cutting a block moves up only blocks that stand below it.
LEMMA CutType ==
    ASSUME TypeOK, NEW k \in Key, CutBlock(k)
    PROVE  line' \in [Key -> Nat]
BY DEF TypeOK, CutBlock

\* "awg set" writes the interface of an address that was drawn for the key.
LEMMA PeerAddType ==
    ASSUME TypeOK, NEW k \in Key, PeerAdd(k)
    PROVE  /\ line' \in [Key -> Nat]
           /\ live' \subseteq Key
           /\ route' \in [IP -> Key \cup {None}]
<1>1. line' \in [Key -> Nat]
  BY AppendType DEF PeerAdd
<1> QED
  BY <1>1 DEF TypeOK, PeerAdd, AwgSetPeer

\* "awg-peer-remove" keeps the types of the conf file and of the interface.
LEMMA PeerRemoveType ==
    ASSUME TypeOK, NEW k \in Key, PeerRemove(k)
    PROVE  /\ line' \in [Key -> Nat]
           /\ live' \subseteq Key
           /\ route' \in [IP -> Key \cup {None}]
<1>1. CASE line[k] = 0 /\ UNCHANGED serverVars
  BY <1>1 DEF TypeOK, serverVars
<1>2. CASE line[k] # 0 /\ CutBlock(k) /\ AwgRemovePeer(k)
  <2>1. line' \in [Key -> Nat]
    BY <1>2, CutType
  <2> QED
    BY <1>2, <2>1 DEF TypeOK, AwgRemovePeer
<1> QED
  BY <1>1, <1>2 DEF PeerRemove

\* RemovePeer, whatever it returns, keeps the types of all it touches.
LEMMA RemovePeerType ==
    ASSUME TypeOK, NEW k \in Key, RemovePeer(k) \/ RemovePeerFails(k)
    PROVE  /\ line' \in [Key -> Nat]
           /\ live' \subseteq Key
           /\ route' \in [IP -> Key \cup {None}]
           /\ late' \subseteq {"add", "remove"} \X Key
           /\ struck' \subseteq Key
           /\ faults' \in Seq(Faults)
<1>1. CASE RemovePeer(k) /\ PeerRemove(k) /\ UNCHANGED faults
  BY <1>1, PeerRemoveType DEF TypeOK, RemovePeer
<1>2. CASE RemovePeer(k) /\ PeerRemoveAwgFails(k)
  <2>1. line' \in [Key -> Nat]
    BY <1>2, CutType DEF PeerRemoveAwgFails
  <2>2. faults' \in Seq(Faults)
    BY <1>2, FaultType DEF PeerRemoveAwgFails
  <2> QED
    BY <1>2, <2>1, <2>2 DEF TypeOK, RemovePeer, PeerRemoveAwgFails
<1>3. CASE RemovePeerFails(k)
  <2>1. faults' \in Seq(Faults)
    BY <1>3, FaultType DEF RemovePeerFails
  <2> QED
    BY <1>3, <2>1 DEF TypeOK, RemovePeerFails, serverVars
<1> QED
  BY <1>1, <1>2, <1>3 DEF RemovePeer

\* Every step of CreateConfig keeps the types.
LEMMA CreateType ==
    ASSUME TypeOK, NEW w \in Worker,
           \/ \E u \in User : CreateGetUser(w, u)
           \/ CreateHasAccess(w) \/ CreateCheckLimit(w)
           \/ CreateAllocate(w) \/ CreateAllocateFails(w)
           \/ CreateAddPeer(w) \/ CreateAddPeerAwgFails(w) \/ CreateAddPeerFails(w)
           \/ CreateSave(w) \/ CreateSaveFails(w) \/ CreateCleanUp(w)
    PROVE  TypeOK'
<1>1. ASSUME NEW u \in User, CreateGetUser(w, u) PROVE TypeOK'
  <2>1. limit[u] \in Nat
    BY DEF TypeOK
  <2>2. JobsOK'
    BY <1>1, <2>1, TakeType DEF CreateGetUser, Stage, KeyStage
  <2> QED
    BY <1>1, <2>2 DEF CreateGetUser, TypeOK, JobsOK, dbVars, issueVars, serverVars
<1>2. CASE CreateHasAccess(w)
  <2>1. JobsOK'
    BY <1>2, ReturnType, GotoType DEF CreateHasAccess, At, Stage, KeyStage
  <2> QED
    BY <1>2, <2>1 DEF CreateHasAccess, TypeOK, JobsOK, dbVars, issueVars, serverVars
<1>3. CASE CreateCheckLimit(w)
  <2>1. JobsOK'
    BY <1>3, ReturnType, GotoType DEF CreateCheckLimit, At, Stage, KeyStage
  <2> QED
    BY <1>3, <2>1 DEF CreateCheckLimit, TypeOK, JobsOK, dbVars, issueVars, serverVars
<1>4. CASE CreateAllocate(w)
  <2>1. PICK k \in Key, i \in IP :
            /\ owner' = [owner EXCEPT ![k] = job[w].user]
            /\ addr' = [addr EXCEPT ![k] = i]
            /\ Take(w, Task("add", job[w].user, k, job[w].lim, {}))
    BY <1>4 DEF CreateAllocate
  <2>2. job[w].user \in User /\ job[w].lim \in Nat
    BY <1>4 DEF CreateAllocate, At, TypeOK, Job
  <2>3. JobsOK'
    BY <2>1, <2>2, TakeType DEF Stage, KeyStage
  <2>4. owner' \in [Key -> User \cup {None}] /\ addr' \in [Key -> IP \cup {0}]
    BY <2>1, <2>2 DEF TypeOK
  <2> QED
    BY <1>4, <2>3, <2>4 DEF CreateAllocate, TypeOK, JobsOK, dbVars, serverVars
<1>5. CASE CreateAllocateFails(w)
  BY <1>5, ReturnType DEF CreateAllocateFails, TypeOK, JobsOK, dbVars, issueVars, serverVars
<1>6. CASE CreateAddPeer(w)
  <2>1. job[w].key \in Key
    BY <1>6 DEF CreateAddPeer, At, TypeOK, KeyStage
  <2>2. JobsOK'
    BY <1>6, GotoType DEF CreateAddPeer, At, Stage, KeyStage
  <2> QED
    BY <1>6, <2>1, <2>2, PeerAddType
    DEF CreateAddPeer, TypeOK, JobsOK, dbVars, issueVars
<1>7. CASE CreateAddPeerAwgFails(w)
  <2>1. job[w].key \in Key
    BY <1>7 DEF CreateAddPeerAwgFails, At, TypeOK, KeyStage
  <2> QED
    BY <1>7, <2>1, AppendType, ReturnType, FaultType
    DEF CreateAddPeerAwgFails, TypeOK, JobsOK, dbVars, issueVars
<1>8. CASE CreateAddPeerFails(w)
  <2>1. job[w].key \in Key
    BY <1>8 DEF CreateAddPeerFails, At, TypeOK, KeyStage
  <2>2. JobsOK' /\ faults' \in Seq(Faults)
    BY <1>8, ReturnType, FaultType DEF CreateAddPeerFails
  <2>3. late' \subseteq {"add", "remove"} \X Key
    BY <1>8, <2>1 DEF CreateAddPeerFails, TypeOK
  <2> QED
    BY <1>8, <2>2, <2>3
    DEF CreateAddPeerFails, TypeOK, JobsOK, dbVars, issueVars, serverVars
<1>9. CASE CreateSave(w)
  BY <1>9, ReturnType DEF CreateSave, TypeOK, JobsOK, issueVars, serverVars
<1>10. CASE CreateSaveFails(w)
  <2>1. JobsOK'
    BY <1>10, GotoType DEF CreateSaveFails, At, Stage, KeyStage
  <2>2. faults' \in Seq(Faults)
    BY <1>10, FaultType DEF CreateSaveFails, TypeOK
  <2> QED
    BY <1>10, <2>1, <2>2 DEF CreateSaveFails, TypeOK, JobsOK, issueVars, serverVars
<1>11. CASE CreateCleanUp(w)
  <2>1. job[w].key \in Key
    BY <1>11 DEF CreateCleanUp, At, TypeOK, KeyStage
  <2> QED
    BY <1>11, <2>1, RemovePeerType, ReturnType
    DEF CreateCleanUp, TypeOK, JobsOK, dbVars, issueVars
<1> QED
  BY <1>1, <1>2, <1>3, <1>4, <1>5, <1>6, <1>7, <1>8, <1>9, <1>10, <1>11

\* Every step of DeleteConfig keeps the types.
LEMMA DeleteType ==
    ASSUME TypeOK, NEW w \in Worker,
           \/ \E u \in User, k \in Key : DeletePress(w, u, k)
           \/ DeleteGetPeer(w) \/ DeleteRemovePeer(w) \/ DeleteRevoke(w)
    PROVE  TypeOK'
<1>1. ASSUME NEW u \in User, NEW k \in Key, DeletePress(w, u, k) PROVE TypeOK'
  <2>1. JobsOK'
    BY <1>1, TakeType DEF DeletePress, Stage, KeyStage
  <2> QED
    BY <1>1, <2>1 DEF DeletePress, TypeOK, JobsOK, dbVars, issueVars, serverVars
<1>2. CASE DeleteGetPeer(w)
  <2>1. JobsOK'
    BY <1>2, ReturnType, GotoType DEF DeleteGetPeer, At, Stage, KeyStage
  <2> QED
    BY <1>2, <2>1 DEF DeleteGetPeer, TypeOK, JobsOK, dbVars, issueVars, serverVars
<1>3. CASE DeleteRemovePeer(w)
  <2>1. job[w].key \in Key
    BY <1>3 DEF DeleteRemovePeer, At, TypeOK, KeyStage
  <2>2. JobsOK'
    BY <1>3, ReturnType, GotoType DEF DeleteRemovePeer, At, Stage, KeyStage
  <2> QED
    BY <1>3, <2>1, <2>2, RemovePeerType
    DEF DeleteRemovePeer, TypeOK, JobsOK, dbVars, issueVars
<1>4. CASE DeleteRevoke(w)
  <2>1. faults' \in Seq(Faults)
    BY <1>4, FaultType DEF DeleteRevoke, RevokePeer, TypeOK
  <2>2. row' \in [Key -> {"none", "active", "revoked"}]
    BY <1>4 DEF DeleteRevoke, RevokePeer, TypeOK
  <2> QED
    BY <1>4, <2>1, <2>2, ReturnType DEF DeleteRevoke, TypeOK, JobsOK, issueVars, serverVars
<1> QED
  BY <1>1, <1>2, <1>3, <1>4

\* Every step of AdminDisableUser keeps the types.
LEMMA DisableType ==
    ASSUME TypeOK, NEW w \in Worker,
           \/ \E u \in User : DisableSet(w, u)
           \/ DisableList(w) \/ \E k \in Key : DisableRemovePeer(w, k)
           \/ DisableRevoke(w) \/ DisableDone(w)
    PROVE  TypeOK'
<1>1. ASSUME NEW u \in User, DisableSet(w, u) PROVE TypeOK'
  <2>1. JobsOK'
    <3>1. CASE Take(w, Task("list", u, None, 0, {}))
      BY <3>1, TakeType DEF Stage, KeyStage
    <3>2. CASE UNCHANGED job
      BY <3>2 DEF TypeOK, JobsOK
    <3> QED
      BY <1>1, <3>1, <3>2 DEF DisableSet
  <2>2. faults' \in Seq(Faults)
    BY <1>1, FaultType DEF DisableSet, TypeOK
  <2> QED
    BY <1>1, <2>1, <2>2 DEF DisableSet, TypeOK, JobsOK, issueVars, serverVars
<1>2. CASE DisableList(w)
  <2>1. job[w].at = "list" /\ job[w].user \in User
    BY <1>2 DEF DisableList, At, TypeOK
  <2>2. CASE Return(w)
    <3>1. JobsOK'
      BY <2>2, ReturnType
    <3>2. faults' \in Seq(Faults) /\ told' \subseteq User
      BY <1>2, <2>1, FaultType DEF DisableList, TypeOK
    <3> QED
      BY <1>2, <3>1, <3>2 DEF DisableList, TypeOK, JobsOK, dbVars, issueVars, serverVars
  <2>3. CASE /\ Take(w, Task("loop", job[w].user, None, 0,
                             ListActivePeers(job[w].user)))
             /\ UNCHANGED <<told, faults>>
    <3>1. ListActivePeers(job[w].user) \in SUBSET Key
      BY DEF ListActivePeers
    <3>2. JobsOK'
      BY <2>1, <2>3, <3>1, TakeType DEF Stage, KeyStage
    <3> QED
      BY <1>2, <2>3, <3>2 DEF DisableList, TypeOK, JobsOK, dbVars, issueVars, serverVars
  <2> QED
    BY <1>2, <2>2, <2>3 DEF DisableList
<1>3. ASSUME NEW k \in Key, DisableRemovePeer(w, k) PROVE TypeOK'
  <2>1. job[w].user \in User /\ job[w].todo \in SUBSET Key
    BY <1>3 DEF DisableRemovePeer, At, TypeOK, Job
  <2>2. JobsOK'
    BY <1>3, <2>1, TakeType DEF DisableRemovePeer, Stage, KeyStage
  <2> QED
    BY <1>3, <2>2, RemovePeerType
    DEF DisableRemovePeer, TypeOK, JobsOK, dbVars, issueVars
<1>4. CASE DisableRevoke(w)
  <2>1. job[w].user \in User /\ job[w].todo \in SUBSET Key
    BY <1>4 DEF DisableRevoke, At, TypeOK, Job
  <2>2. JobsOK'
    BY <1>4, <2>1, TakeType DEF DisableRevoke, Stage, KeyStage
  <2>3. faults' \in Seq(Faults)
    BY <1>4, FaultType DEF DisableRevoke, RevokePeer, TypeOK
  <2>4. row' \in [Key -> {"none", "active", "revoked"}]
    BY <1>4 DEF DisableRevoke, RevokePeer, TypeOK
  <2> QED
    BY <1>4, <2>2, <2>3, <2>4 DEF DisableRevoke, TypeOK, JobsOK, issueVars, serverVars
<1>5. CASE DisableDone(w)
  <2>1. job[w].user \in User
    BY <1>5 DEF DisableDone, At, TypeOK
  <2> QED
    BY <1>5, <2>1, ReturnType
    DEF DisableDone, TypeOK, JobsOK, dbVars, issueVars, serverVars
<1> QED
  BY <1>1, <1>2, <1>3, <1>4, <1>5

\* Every other step of a worker keeps the types.
LEMMA AdminType ==
    ASSUME TypeOK, NEW w \in Worker,
           \/ \E u \in User : AddUpsertUser(w, u)
           \/ \E u \in User, n \in Limit : SetLimit(w, u, n)
           \/ AddGrantAccess(w) \/ ReadFails(w) \/ Crash(w)
    PROVE  TypeOK'
<1>1. ASSUME NEW u \in User, AddUpsertUser(w, u) PROVE TypeOK'
  <2>1. JobsOK'
    <3>1. CASE Take(w, Task("grant", u, None, 0, {}))
      BY <3>1, TakeType DEF Stage, KeyStage
    <3>2. CASE UNCHANGED job
      BY <3>2 DEF TypeOK, JobsOK
    <3> QED
      BY <1>1, <3>1, <3>2 DEF AddUpsertUser
  <2>2. faults' \in Seq(Faults)
    BY <1>1, FaultType DEF AddUpsertUser, TypeOK
  <2> QED
    BY <1>1, <2>1, <2>2 DEF AddUpsertUser, TypeOK, JobsOK, issueVars, serverVars
<1>2. ASSUME NEW u \in User, NEW n \in Limit, SetLimit(w, u, n) PROVE TypeOK'
  BY <1>2 DEF SetLimit, TypeOK, issueVars, serverVars
<1>3. CASE AddGrantAccess(w)
  <2>1. job[w].user \in User
    BY <1>3 DEF AddGrantAccess, At, TypeOK
  <2>2. faults' \in Seq(Faults)
    BY <1>3, FaultType DEF AddGrantAccess, TypeOK
  <2> QED
    BY <1>3, <2>1, <2>2, ReturnType DEF AddGrantAccess, TypeOK, JobsOK, issueVars, serverVars
<1>4. CASE ReadFails(w)
  BY <1>4, ReturnType, FaultType
  DEF ReadFails, TypeOK, JobsOK, dbVars, issueVars, serverVars
<1>5. CASE Crash(w)
  <2>1. PICK sent \in {{}} \cup {{c} : c \in InFlight(w)} :
            /\ late' = late \cup sent
            /\ struck' = struck \cup {k \in Key : <<"remove", k>> \in sent}
    BY <1>5 DEF Crash
  <2>2. InFlight(w) \subseteq {"add", "remove"} \X Key
    BY DEF InFlight, At, TypeOK, Job, KeyStage
  <2>3. late' \subseteq {"add", "remove"} \X Key /\ struck' \subseteq Key
    BY <2>1, <2>2 DEF TypeOK
  <2>4. JobsOK' /\ faults' \in Seq(Faults)
    BY <1>5, ReturnType, FaultType DEF Crash
  <2> QED
    BY <1>5, <2>3, <2>4 DEF Crash, TypeOK, JobsOK, dbVars, issueVars, serverVars
<1> QED
  BY <1>1, <1>2, <1>3, <1>4, <1>5

\* So do the steps of the server.
LEMMA ServerType ==
    ASSUME TypeOK,
           \/ \E op \in {"add", "remove"}, k \in Key : LateCommand(op, k)
           \/ Reboot
    PROVE  TypeOK'
<1>1. ASSUME NEW op \in {"add", "remove"}, NEW k \in Key, LateCommand(op, k)
      PROVE  TypeOK'
  <2>1. /\ line' \in [Key -> Nat]
        /\ live' \subseteq Key
        /\ route' \in [IP -> Key \cup {None}]
    BY <1>1, PeerAddType, PeerRemoveType DEF LateCommand
  <2> QED
    BY <1>1, <2>1 DEF LateCommand, TypeOK, dbVars, issueVars
<1>2. CASE Reboot
  <2>1. route' \in [IP -> Key \cup {None}] /\ live' \subseteq Key
    BY <1>2 DEF Reboot, InConf
  <2>2. faults' \in Seq(Faults)
    BY <1>2, FaultType DEF Reboot
  <2> QED
    BY <1>2, <2>1, <2>2 DEF Reboot, TypeOK, dbVars, issueVars
<1> QED
  BY <1>1, <1>2

\* Every step of the system keeps the types.
LEMMA NextType == TypeOK /\ [Next]_vars => TypeOK'
<1> SUFFICES ASSUME TypeOK, [Next]_vars PROVE TypeOK'
  OBVIOUS
<1>1. ASSUME NEW w \in Worker, Request(w) PROVE TypeOK'
  BY <1>1, CreateType, DeleteType, DisableType, AdminType DEF Request
<1>2. ASSUME NEW w \in Worker, WorkerStep(w) PROVE TypeOK'
  BY <1>2, CreateType, DeleteType, DisableType, AdminType DEF WorkerStep
<1>3. ASSUME NEW w \in Worker, Crash(w) PROVE TypeOK'
  BY <1>3, AdminType
<1>4. CASE \/ \E op \in {"add", "remove"}, k \in Key : LateCommand(op, k)
           \/ Reboot
  BY <1>4, ServerType
<1>5. CASE UNCHANGED vars
  BY <1>5 DEF vars, dbVars, issueVars, serverVars, TypeOK
<1> QED
  BY <1>1, <1>2, <1>3, <1>4, <1>5 DEF Next

\* Every variable keeps its type, and a worker in the middle of a handler
\* always knows its user and, once there is one, its key.
THEOREM TypeCorrect == Spec => []TypeOK
<1>1. Init => TypeOK
  BY InitType
<1>2. TypeOK /\ [Next]_vars => TypeOK'
  BY NextType
<1> QED
  BY <1>1, <1>2, PTL DEF Spec

-----------------------------------------------------------------------------
(* The inductive invariant.  Removing before revoking is not enough: the   *)
(* block must not come back.  It cannot, because a key in the hands of     *)
(* CreateConfig has one worker, no row and no add command pending, and a   *)
(* key with a row is never added again.                                    *)

\* Worker w is making key k: it may still add its block, save its row or
\* clean it up.
Holds(w, k) == job[w].at \in {"add", "save", "clean"} /\ job[w].key = k

KeyInv(k) ==
    /\ owner[k] = None => row[k] = "none" /\ <<"add", k>> \notin late /\ k \notin struck
    /\ row[k] # "none" => <<"add", k>> \notin late
    /\ <<"remove", k>> \in late => k \in struck
    /\ row[k] = "revoked" => line[k] = 0
    /\ row[k] = "active" /\ k \notin struck => line[k] # 0

WorkerInv(w) ==
    /\ job[w].at \in {"add", "save", "clean"} => /\ owner[job[w].key] # None
                                                 /\ <<"add", job[w].key>> \notin late
    /\ job[w].at \in {"add", "save"} => row[job[w].key] = "none" /\ job[w].key \notin struck
    /\ job[w].at = "save" => line[job[w].key] # 0
    /\ job[w].at \in {"get", "remove", "revoke", "strike"} => row[job[w].key] # "none"
    /\ job[w].at \in {"revoke", "strike"} => line[job[w].key] = 0
    /\ \A k \in job[w].todo : row[k] # "none"

HeldOnce == \A v, w \in Worker, k \in Key : Holds(v, k) /\ Holds(w, k) => v = w

Inv ==
    /\ \A k \in Key : KeyInv(k)
    /\ \A w \in Worker : WorkerInv(w)
    /\ HeldOnce

-----------------------------------------------------------------------------
(* What the helpers do                                                     *)

\* What a worker holds after it took up a task.
LEMMA TakeEffect ==
    ASSUME TypeOK, NEW w \in Worker, NEW task, Take(w, task)
    PROVE  job'[w] = task /\ \A v \in Worker \ {w} : job'[v] = job[v]
BY DEF TypeOK, Take

\* A worker that returns is idle.
LEMMA ReturnEffect ==
    ASSUME TypeOK, NEW w \in Worker, Return(w)
    PROVE  /\ job'[w].at = "idle" /\ job'[w].todo = {}
           /\ \A v \in Worker \ {w} : job'[v] = job[v]
BY TakeEffect DEF Return, Idle, Task

\* A worker that goes on changes its stage and nothing else.
LEMMA GotoEffect ==
    ASSUME TypeOK, NEW w \in Worker, NEW stage, Goto(w, stage)
    PROVE  /\ job'[w].at = stage
           /\ job'[w].key = job[w].key
           /\ job'[w].todo = job[w].todo
           /\ \A v \in Worker \ {w} : job'[v] = job[v]
BY DEF TypeOK, Goto, Job

\* Appending a block puts its key into the file and moves no other.
LEMMA AppendEffect ==
    ASSUME TypeOK, NEW k \in Key, AppendBlock(k)
    PROVE  line'[k] # 0 /\ \A j \in Key \ {k} : line'[j] = line[j]
<1>1. Cardinality(InConf) \in Nat
  <2>1. IsFiniteSet(InConf)
    BY FS_Subset DEF InConf
  <2> QED
    BY <2>1, FS_CardinalityType
<1>2. line' = [line EXCEPT ![k] = Cardinality(InConf) + 1]
  BY DEF AppendBlock
<1>3. line'[k] = Cardinality(InConf) + 1
  BY <1>2 DEF TypeOK
<1> QED
  BY <1>1, <1>2, <1>3 DEF TypeOK

\* Cutting a block takes its key, and no other, out of the file.
LEMMA CutEffect ==
    ASSUME TypeOK, NEW k \in Key, line[k] # 0, CutBlock(k)
    PROVE  line'[k] = 0 /\ \A j \in Key \ {k} : line'[j] = 0 <=> line[j] = 0
BY DEF TypeOK, CutBlock

\* "awg-peer-remove" takes its own block out of the file and no other.
LEMMA PeerRemoveEffect ==
    ASSUME TypeOK, NEW k \in Key, PeerRemove(k)
    PROVE  line'[k] = 0 /\ \A j \in Key \ {k} : line'[j] = 0 <=> line[j] = 0
BY CutEffect DEF PeerRemove, serverVars

\* RemovePeer reports success only when the block is gone.
LEMMA RemovePeerEffect ==
    ASSUME TypeOK, NEW k \in Key, RemovePeer(k)
    PROVE  /\ line'[k] = 0
           /\ \A j \in Key \ {k} : line'[j] = 0 <=> line[j] = 0
           /\ struck' = struck \cup {k}
           /\ late' = late
BY PeerRemoveEffect, CutEffect DEF RemovePeer, PeerRemoveAwgFails

\* A removal that failed leaves the file alone and may still run.
LEMMA RemovePeerFailsEffect ==
    ASSUME NEW k \in Key, RemovePeerFails(k)
    PROVE  /\ line' = line
           /\ struck' = struck \cup {k}
           /\ late' = late \cup {<<"remove", k>>}
BY DEF RemovePeerFails, serverVars

\* A step that only moves worker w on, and gives it no key to make that it did
\* not have, needs nothing but the invariant of w.
LEMMA Frame ==
    ASSUME TypeOK, Inv, NEW w \in Worker,
           UNCHANGED <<owner, row, line, late, struck>>,
           \A v \in Worker \ {w} : job'[v] = job[v],
           \A k \in Key : Holds(w, k)' => Holds(w, k),
           WorkerInv(w)'
    PROVE  Inv'
<1>1. \A k \in Key : KeyInv(k)'
  BY DEF Inv, KeyInv
<1>2. \A v \in Worker : WorkerInv(v)'
  BY DEF Inv, WorkerInv
<1>3. HeldOnce'
  BY DEF Inv, HeldOnce, Holds
<1> QED
  BY <1>1, <1>2, <1>3 DEF Inv

\* A worker that returns without touching rows, blocks or commands keeps Inv.
LEMMA FrameReturn ==
    ASSUME TypeOK, Inv, NEW w \in Worker, Return(w),
           UNCHANGED <<owner, row, line, late, struck>>
    PROVE  Inv'
<1>1. WorkerInv(w)' /\ \A k \in Key : ~ Holds(w, k)'
  BY ReturnEffect DEF WorkerInv, Holds
<1> QED
  BY <1>1, ReturnEffect, Frame

-----------------------------------------------------------------------------
(* Every step keeps the invariant                                          *)

\* The empty system satisfies Inv.
LEMMA InitInv == Init => Inv
BY DEF Init, Inv, KeyInv, WorkerInv, HeldOnce, Holds, Idle, Task

\* The queries before the key is drawn.
LEMMA CreateQueriesInv ==
    ASSUME TypeOK, Inv, NEW w \in Worker,
           \/ \E u \in User : CreateGetUser(w, u)
           \/ CreateHasAccess(w) \/ CreateCheckLimit(w) \/ CreateAllocateFails(w)
    PROVE  Inv'
<1>1. UNCHANGED <<owner, row, line, late, struck>>
  BY DEF CreateGetUser, CreateHasAccess, CreateCheckLimit, CreateAllocateFails,
         dbVars, issueVars, serverVars
<1>2. ASSUME NEW u \in User, CreateGetUser(w, u) PROVE Inv'
  <2>1. job'[w] = Task("access", u, None, limit[u], {})
        /\ \A v \in Worker \ {w} : job'[v] = job[v]
    BY <1>2, TakeEffect DEF CreateGetUser
  <2>2. WorkerInv(w)' /\ \A k \in Key : ~ Holds(w, k)'
    BY <2>1 DEF WorkerInv, Holds, Task
  <2> QED
    BY <1>1, <2>1, <2>2, Frame
<1>3. CASE Return(w)
  BY <1>1, <1>3, FrameReturn
<1>4. CASE (At(w, "access") /\ Goto(w, "limit")) \/ (At(w, "limit") /\ Goto(w, "alloc"))
  <2>1. /\ job'[w].at \in {"limit", "alloc"}
        /\ job'[w].todo = job[w].todo
        /\ \A v \in Worker \ {w} : job'[v] = job[v]
    BY <1>4, GotoEffect
  <2>2. WorkerInv(w)' /\ \A k \in Key : ~ Holds(w, k)'
    BY <1>1, <2>1 DEF Inv, WorkerInv, Holds
  <2> QED
    BY <1>1, <2>1, <2>2, Frame
<1> QED
  BY <1>2, <1>3, <1>4 DEF CreateHasAccess, CreateCheckLimit, CreateAllocateFails

\* The key drawn is new, so nobody else is making it.
LEMMA CreateAllocateInv ==
    ASSUME TypeOK, Inv, NEW w \in Worker, CreateAllocate(w)
    PROVE  Inv'
<1>1. PICK k \in Key :
          /\ owner[k] = None
          /\ owner' = [owner EXCEPT ![k] = job[w].user]
          /\ Take(w, Task("add", job[w].user, k, job[w].lim, {}))
  BY DEF CreateAllocate
<1>2. UNCHANGED <<row, line, late, struck>>
  BY DEF CreateAllocate, dbVars, serverVars
<1>3. /\ job'[w].at = "add" /\ job'[w].key = k /\ job'[w].todo = {}
      /\ \A v \in Worker \ {w} : job'[v] = job[v]
  BY <1>1, TakeEffect DEF Task
<1>4. /\ owner'[k] # None
      /\ \A j \in Key \ {k} : owner'[j] = owner[j]
  <2>1. job[w].user \in User
    BY DEF CreateAllocate, At, TypeOK
  <2> QED
    BY <1>1, <2>1 DEF TypeOK
<1>5. /\ row[k] = "none" /\ <<"add", k>> \notin late /\ k \notin struck
      /\ \A v \in Worker : ~ Holds(v, k)
  BY <1>1 DEF Inv, KeyInv, WorkerInv, Holds
<1>6. \A j \in Key : KeyInv(j)'
  BY <1>2, <1>4, <1>5 DEF Inv, KeyInv
<1>7. WorkerInv(w)'
  BY <1>2, <1>3, <1>4, <1>5 DEF WorkerInv
<1>8. ASSUME NEW v \in Worker \ {w} PROVE WorkerInv(v)'
  <2>1. job[v].at \in {"add", "save", "clean"} => job[v].key \in Key \ {k}
    BY <1>5 DEF Holds, TypeOK, KeyStage
  <2> QED
    BY <1>2, <1>3, <1>4, <2>1 DEF Inv, WorkerInv
<1>9. HeldOnce'
  BY <1>3, <1>5 DEF Inv, HeldOnce, Holds
<1> QED
  BY <1>6, <1>7, <1>8, <1>9 DEF Inv

\* The two outcomes of awg-peer-add that write the block: only this worker
\* holds the key, and only a key without a row is added.
LEMMA CreateAddInv ==
    ASSUME TypeOK, Inv, NEW w \in Worker,
           CreateAddPeer(w) \/ CreateAddPeerAwgFails(w)
    PROVE  Inv'
<1> DEFINE k == job[w].key
<1>1. job[w].at = "add" /\ k \in Key
  BY DEF CreateAddPeer, CreateAddPeerAwgFails, At, TypeOK, KeyStage
<1>2. UNCHANGED <<owner, row, late, struck>>
  BY DEF CreateAddPeer, CreateAddPeerAwgFails, dbVars, issueVars
<1>3. line'[k] # 0 /\ \A j \in Key \ {k} : line'[j] = line[j]
  BY <1>1, AppendEffect DEF CreateAddPeer, CreateAddPeerAwgFails, PeerAdd
<1>4. /\ \/ job'[w].at = "save" /\ job'[w].key = k /\ job'[w].todo = job[w].todo
         \/ job'[w].at = "idle" /\ job'[w].todo = {}
      /\ \A v \in Worker \ {w} : job'[v] = job[v]
  BY GotoEffect, ReturnEffect DEF CreateAddPeer, CreateAddPeerAwgFails
<1>5. /\ owner[k] # None /\ row[k] = "none"
      /\ <<"add", k>> \notin late /\ k \notin struck
  BY <1>1 DEF Inv, WorkerInv
<1>6. \A j \in Key : KeyInv(j)'
  BY <1>2, <1>3, <1>5 DEF Inv, KeyInv
<1>7. WorkerInv(w)'
  BY <1>1, <1>2, <1>3, <1>4, <1>5 DEF Inv, WorkerInv
<1>8. ASSUME NEW v \in Worker \ {w} PROVE WorkerInv(v)'
  <2>1. job[v].at \in {"save", "get", "remove", "revoke", "strike"} =>
            job[v].key \in Key \ {k}
    BY <1>1, <1>5 DEF Inv, WorkerInv, HeldOnce, Holds, TypeOK, KeyStage
  <2> QED
    BY <1>2, <1>3, <1>4, <2>1 DEF Inv, WorkerInv
<1>9. HeldOnce'
  BY <1>1, <1>4 DEF Inv, HeldOnce, Holds
<1> QED
  BY <1>6, <1>7, <1>8, <1>9 DEF Inv

\* The command may still run, but its key is given up for good.
LEMMA CreateAddFailsInv ==
    ASSUME TypeOK, Inv, NEW w \in Worker, CreateAddPeerFails(w)
    PROVE  Inv'
<1> DEFINE k == job[w].key
<1>1. job[w].at = "add" /\ k \in Key
  BY DEF CreateAddPeerFails, At, TypeOK, KeyStage
<1>2. UNCHANGED <<owner, row, line, struck>> /\ late' = late \cup {<<"add", k>>}
  BY DEF CreateAddPeerFails, dbVars, issueVars, serverVars
<1>3. /\ job'[w].at = "idle" /\ job'[w].todo = {}
      /\ \A v \in Worker \ {w} : job'[v] = job[v]
  BY ReturnEffect DEF CreateAddPeerFails
<1>4. owner[k] # None /\ row[k] = "none"
  BY <1>1 DEF Inv, WorkerInv
<1>5. \A j \in Key : KeyInv(j)'
  BY <1>2, <1>4 DEF Inv, KeyInv
<1>6. WorkerInv(w)'
  BY <1>3 DEF WorkerInv
<1>7. ASSUME NEW v \in Worker \ {w} PROVE WorkerInv(v)'
  <2>1. job[v].at \in {"add", "save", "clean"} => job[v].key # k
    BY <1>1 DEF Inv, HeldOnce, Holds
  <2> QED
    BY <1>2, <1>3, <2>1 DEF Inv, WorkerInv
<1>8. HeldOnce'
  BY <1>3 DEF Inv, HeldOnce, Holds
<1> QED
  BY <1>5, <1>6, <1>7, <1>8 DEF Inv

\* A row is written for a key whose block is in the file and whose removal
\* nobody has tried.
LEMMA CreateSaveInv ==
    ASSUME TypeOK, Inv, NEW w \in Worker, CreateSave(w) \/ CreateSaveFails(w)
    PROVE  Inv'
<1> DEFINE k == job[w].key
<1>1. job[w].at = "save" /\ k \in Key
  BY DEF CreateSave, CreateSaveFails, At, TypeOK, KeyStage
<1>2. UNCHANGED <<owner, line, late, struck>>
  BY DEF CreateSave, CreateSaveFails, issueVars, serverVars
<1>3. row' = row \/ row' = [row EXCEPT ![k] = "active"]
  BY DEF CreateSave, CreateSaveFails
<1>4. \A j \in Key : row'[j] = row[j] \/ (j = k /\ row'[j] = "active")
  BY <1>3 DEF TypeOK
<1>5. /\ \/ job'[w].at = "clean" /\ job'[w].key = k /\ job'[w].todo = job[w].todo
         \/ job'[w].at = "idle" /\ job'[w].todo = {}
      /\ \A v \in Worker \ {w} : job'[v] = job[v]
  BY GotoEffect, ReturnEffect DEF CreateSave, CreateSaveFails
<1>6. /\ owner[k] # None /\ row[k] = "none" /\ <<"add", k>> \notin late
      /\ k \notin struck /\ line[k] # 0
  BY <1>1 DEF Inv, WorkerInv
<1>7. \A j \in Key : KeyInv(j)'
  BY <1>2, <1>4, <1>6 DEF Inv, KeyInv
<1>8. WorkerInv(w)'
  <2>1. \A j \in job[w].todo : row'[j] # "none"
    BY <1>4, <1>6 DEF Inv, WorkerInv, TypeOK, Job
  <2> QED
    BY <1>2, <1>5, <1>6, <2>1 DEF WorkerInv
<1>9. ASSUME NEW v \in Worker \ {w} PROVE WorkerInv(v)'
  <2>1. job[v].at \in {"add", "save"} => job[v].key \in Key \ {k}
    BY <1>1 DEF Inv, HeldOnce, Holds, TypeOK, KeyStage
  <2>2. \A j \in job[v].todo : row'[j] # "none"
    BY <1>4, <1>6 DEF Inv, WorkerInv, TypeOK, Job
  <2>3. job[v].at \in {"get", "remove", "revoke", "strike"} => row'[job[v].key] # "none"
    BY <1>4, <1>6 DEF Inv, WorkerInv, TypeOK, KeyStage
  <2>4. job[v].at \in {"add", "save"} => row'[job[v].key] = "none"
    BY <1>4, <2>1 DEF Inv, WorkerInv
  <2> QED
    BY <1>2, <1>5, <2>2, <2>3, <2>4 DEF Inv, WorkerInv
<1>10. HeldOnce'
  BY <1>1, <1>5 DEF Inv, HeldOnce, Holds
<1> QED
  BY <1>7, <1>8, <1>9, <1>10 DEF Inv

\* A removal of key k, successful or not, disturbs no other worker, unless that
\* worker has yet to add or save k.
LEMMA RemovalInv ==
    ASSUME TypeOK, Inv, NEW w \in Worker, NEW k \in Key,
           RemovePeer(k) \/ RemovePeerFails(k),
           owner[k] # None,
           \A v \in Worker \ {w} : job[v].at \in {"add", "save"} => job[v].key # k,
           \A v \in Worker \ {w} : job'[v] = job[v],
           UNCHANGED <<owner, row>>
    PROVE  /\ \A j \in Key : KeyInv(j)'
           /\ \A v \in Worker \ {w} : WorkerInv(v)'
<1>1. /\ \A j \in Key \ {k} : line'[j] = 0 <=> line[j] = 0
      /\ line[k] = 0 => line'[k] = 0
      /\ row[k] = "revoked" => line'[k] = 0
      /\ struck' = struck \cup {k}
      /\ late' = late \/ late' = late \cup {<<"remove", k>>}
  BY RemovePeerEffect, RemovePeerFailsEffect DEF Inv, KeyInv
<1>2. ASSUME NEW j \in Key PROVE KeyInv(j)'
  <2>1. /\ <<"add", j>> \in late' => <<"add", j>> \in late
        /\ <<"remove", j>> \in late' => <<"remove", j>> \in late \/ j = k
    BY <1>1
  <2>2. owner'[j] = owner[j] /\ row'[j] = row[j] /\ KeyInv(j)
    BY DEF Inv
  <2>3. CASE j = k
    BY <1>1, <2>1, <2>2, <2>3 DEF KeyInv
  <2>4. CASE j # k
    BY <1>1, <2>1, <2>2, <2>4 DEF KeyInv
  <2> QED
    BY <2>3, <2>4
<1>3. ASSUME NEW v \in Worker \ {w} PROVE WorkerInv(v)'
  <2>1. job[v].at \in {"add", "save"} => job[v].key \in Key \ {k}
    BY DEF TypeOK, KeyStage
  <2>2. job[v].at \in {"revoke", "strike"} => job[v].key \in Key
    BY DEF TypeOK, KeyStage
  <2> QED
    BY <1>1, <2>1, <2>2 DEF Inv, WorkerInv
<1> QED
  BY <1>2, <1>3

\* bestEffortRemove: the key it removes has been given up.
LEMMA CreateCleanUpInv ==
    ASSUME TypeOK, Inv, NEW w \in Worker, CreateCleanUp(w)
    PROVE  Inv'
<1> DEFINE k == job[w].key
<1>1. job[w].at = "clean" /\ k \in Key
  BY DEF CreateCleanUp, At, TypeOK, KeyStage
<1>2. /\ job'[w].at = "idle" /\ job'[w].todo = {}
      /\ \A v \in Worker \ {w} : job'[v] = job[v]
  BY ReturnEffect DEF CreateCleanUp
<1>3. /\ owner[k] # None
      /\ \A v \in Worker \ {w} : job[v].at \in {"add", "save"} => job[v].key # k
  BY <1>1 DEF Inv, WorkerInv, HeldOnce, Holds
<1>4. /\ \A j \in Key : KeyInv(j)'
      /\ \A v \in Worker \ {w} : WorkerInv(v)'
  BY <1>1, <1>2, <1>3, RemovalInv DEF CreateCleanUp, dbVars, issueVars
<1>5. WorkerInv(w)' /\ HeldOnce'
  BY <1>2 DEF Inv, WorkerInv, HeldOnce, Holds
<1> QED
  BY <1>4, <1>5 DEF Inv

\* The key of a row is in nobody's hands to be made, except for clean-up.
LEMMA RowKey ==
    ASSUME TypeOK, Inv, NEW k \in Key, row[k] # "none"
    PROVE  /\ owner[k] # None
           /\ \A v \in Worker : job[v].at \in {"add", "save"} => job[v].key # k
BY DEF Inv, KeyInv, WorkerInv

\* The two removals that precede a revocation.
LEMMA DeleteRemoveInv ==
    ASSUME TypeOK, Inv, NEW w \in Worker, DeleteRemovePeer(w)
    PROVE  Inv'
<1> DEFINE k == job[w].key
<1>1. job[w].at = "remove" /\ k \in Key /\ row[k] # "none"
  BY DEF DeleteRemovePeer, At, TypeOK, KeyStage, Inv, WorkerInv
<1>2. UNCHANGED <<owner, row>>
  BY DEF DeleteRemovePeer, dbVars, issueVars
<1>3. /\ \/ /\ job'[w].at = "revoke" /\ job'[w].key = k
            /\ job'[w].todo = job[w].todo /\ RemovePeer(k)
         \/ job'[w].at = "idle" /\ job'[w].todo = {}
      /\ \A v \in Worker \ {w} : job'[v] = job[v]
  BY GotoEffect, ReturnEffect DEF DeleteRemovePeer
<1>4. /\ \A j \in Key : KeyInv(j)'
      /\ \A v \in Worker \ {w} : WorkerInv(v)'
  BY <1>1, <1>2, <1>3, RowKey, RemovalInv DEF DeleteRemovePeer
<1>5. WorkerInv(w)'
  BY <1>1, <1>2, <1>3, RemovePeerEffect DEF Inv, WorkerInv
<1>6. HeldOnce'
  BY <1>3 DEF Inv, HeldOnce, Holds
<1> QED
  BY <1>4, <1>5, <1>6 DEF Inv

\* The removal in revokeUserPeers, whether it succeeds or is passed over.
LEMMA DisableRemoveInv ==
    ASSUME TypeOK, Inv, NEW w \in Worker, NEW k \in Key, DisableRemovePeer(w, k)
    PROVE  Inv'
<1>1. row[k] # "none"
  BY DEF DisableRemovePeer, Inv, WorkerInv
<1>2. UNCHANGED <<owner, row>>
  BY DEF DisableRemovePeer, dbVars, issueVars
<1>3. /\ \/ /\ job'[w].at = "strike" /\ job'[w].key = k
            /\ job'[w].todo = job[w].todo /\ RemovePeer(k)
         \/ job'[w].at = "loop" /\ job'[w].todo = job[w].todo \ {k}
      /\ \A v \in Worker \ {w} : job'[v] = job[v]
  BY TakeEffect DEF DisableRemovePeer, Task
<1>4. /\ \A j \in Key : KeyInv(j)'
      /\ \A v \in Worker \ {w} : WorkerInv(v)'
  BY <1>1, <1>2, <1>3, RowKey, RemovalInv DEF DisableRemovePeer
<1>5. WorkerInv(w)'
  <2>1. \A j \in job[w].todo : row'[j] # "none"
    BY <1>2 DEF Inv, WorkerInv
  <2>2. CASE job'[w].at = "strike" /\ job'[w].key = k /\ job'[w].todo = job[w].todo
             /\ RemovePeer(k)
    <3>1. line'[k] = 0
      BY <2>2, RemovePeerEffect
    <3> QED
      BY <1>1, <1>2, <2>1, <2>2, <3>1 DEF WorkerInv
  <2>3. CASE job'[w].at = "loop" /\ job'[w].todo = job[w].todo \ {k}
    BY <2>1, <2>3 DEF WorkerInv
  <2> QED
    BY <1>3, <2>2, <2>3
<1>6. HeldOnce'
  BY <1>3 DEF Inv, HeldOnce, Holds
<1> QED
  BY <1>4, <1>5, <1>6 DEF Inv

\* Both revocations: the block is known to be gone.
LEMMA RevokeInv ==
    ASSUME TypeOK, Inv, NEW w \in Worker, DeleteRevoke(w) \/ DisableRevoke(w)
    PROVE  Inv'
<1> DEFINE k == job[w].key
<1>1. job[w].at \in {"revoke", "strike"} /\ k \in Key
  BY DEF DeleteRevoke, DisableRevoke, At, TypeOK, KeyStage
<1>2. row[k] # "none" /\ line[k] = 0 /\ <<"add", k>> \notin late
  BY <1>1 DEF Inv, WorkerInv, KeyInv
<1>3. UNCHANGED <<owner, line, late, struck>>
  BY DEF DeleteRevoke, DisableRevoke, issueVars, serverVars
<1>4. \A j \in Key : row'[j] = row[j] \/ (j = k /\ row'[j] = "revoked")
  BY DEF DeleteRevoke, DisableRevoke, RevokePeer, TypeOK
<1>5. /\ job'[w].at \in {"idle", "loop"} /\ job'[w].todo \subseteq job[w].todo
      /\ \A v \in Worker \ {w} : job'[v] = job[v]
  <2>1. CASE DeleteRevoke(w)
    BY <2>1, ReturnEffect DEF DeleteRevoke
  <2>2. CASE DisableRevoke(w)
    BY <2>2, TakeEffect DEF DisableRevoke, Task
  <2> QED
    BY <2>1, <2>2
<1>6. \A j \in Key : (row'[j] = "none" <=> row[j] = "none")
  BY <1>2, <1>4
<1>7. \A j \in Key : KeyInv(j)'
  <2>1. owner[k] # None
    BY <1>1, <1>2, RowKey
  <2> QED
    BY <1>2, <1>3, <1>4, <2>1 DEF Inv, KeyInv
<1>8. WorkerInv(w)'
  BY <1>5, <1>6 DEF Inv, WorkerInv, TypeOK, Job
<1>9. ASSUME NEW v \in Worker \ {w} PROVE WorkerInv(v)'
  <2>1. \A j \in job[v].todo : row'[j] # "none"
    BY <1>6 DEF Inv, WorkerInv, TypeOK, Job
  <2>2. job[v].at \in KeyStage => (row'[job[v].key] = "none" <=> row[job[v].key] = "none")
    BY <1>6 DEF TypeOK
  <2> QED
    BY <1>3, <1>5, <2>1, <2>2 DEF Inv, WorkerInv, KeyStage
<1>10. HeldOnce'
  BY <1>5 DEF Inv, HeldOnce, Holds
<1> QED
  BY <1>7, <1>8, <1>9, <1>10 DEF Inv

\* Steps that move a worker on and touch no peer.
LEMMA OtherWorkerInv ==
    ASSUME TypeOK, Inv, NEW w \in Worker,
           \/ \E u \in User, k \in Key : DeletePress(w, u, k)
           \/ DeleteGetPeer(w)
           \/ \E u \in User : DisableSet(w, u) \/ AddUpsertUser(w, u)
           \/ DisableList(w) \/ DisableDone(w)
           \/ AddGrantAccess(w)
           \/ \E u \in User, n \in Limit : SetLimit(w, u, n)
           \/ ReadFails(w)
    PROVE  Inv'
<1>1. UNCHANGED <<owner, row, line, late, struck>>
  BY DEF DeletePress, DeleteGetPeer, DisableSet, AddUpsertUser, DisableList,
         DisableDone, AddGrantAccess, SetLimit, ReadFails,
         dbVars, issueVars, serverVars
<1>2. CASE Return(w)
  BY <1>1, <1>2, FrameReturn
<1>3. CASE UNCHANGED job
  BY <1>1, <1>3 DEF Inv, KeyInv, WorkerInv, HeldOnce, Holds
<1>4. ASSUME NEW u \in User, NEW k \in Key, DeletePress(w, u, k) PROVE Inv'
  <2>1. /\ job'[w] = Task("get", u, k, 0, {})
        /\ \A v \in Worker \ {w} : job'[v] = job[v]
        /\ row[k] # "none"
    BY <1>4, TakeEffect DEF DeletePress
  <2>2. WorkerInv(w)' /\ \A j \in Key : ~ Holds(w, j)'
    BY <1>1, <2>1 DEF WorkerInv, Holds, Task
  <2> QED
    BY <1>1, <2>1, <2>2, Frame
<1>5. CASE At(w, "get") /\ Goto(w, "remove")
  <2>1. /\ job'[w].at = "remove" /\ job'[w].key = job[w].key
        /\ job'[w].todo = job[w].todo
        /\ \A v \in Worker \ {w} : job'[v] = job[v]
    BY <1>5, GotoEffect
  <2>2. WorkerInv(w)' /\ \A j \in Key : ~ Holds(w, j)'
    BY <1>1, <1>5, <2>1 DEF Inv, WorkerInv, Holds, At
  <2> QED
    BY <1>1, <2>1, <2>2, Frame
<1>6. ASSUME NEW u \in User,
             Take(w, Task("list", u, None, 0, {})) \/ Take(w, Task("grant", u, None, 0, {}))
      PROVE  Inv'
  <2>1. /\ job'[w].at \in {"list", "grant"} /\ job'[w].todo = {}
        /\ \A v \in Worker \ {w} : job'[v] = job[v]
    BY <1>6, TakeEffect DEF Task
  <2>2. WorkerInv(w)' /\ \A j \in Key : ~ Holds(w, j)'
    BY <2>1 DEF WorkerInv, Holds
  <2> QED
    BY <1>1, <2>1, <2>2, Frame
<1>7. CASE Take(w, Task("loop", job[w].user, None, 0, ListActivePeers(job[w].user)))
  <2>1. /\ job'[w].at = "loop" /\ job'[w].todo = ListActivePeers(job[w].user)
        /\ \A v \in Worker \ {w} : job'[v] = job[v]
    BY <1>7, TakeEffect DEF Task
  <2>2. WorkerInv(w)' /\ \A j \in Key : ~ Holds(w, j)'
    BY <1>1, <2>1 DEF WorkerInv, Holds, ListActivePeers
  <2> QED
    BY <1>1, <2>1, <2>2, Frame
<1> QED
  BY <1>2, <1>3, <1>4, <1>5, <1>6, <1>7
  DEF DeleteGetPeer, DisableSet, AddUpsertUser, DisableList, DisableDone,
      AddGrantAccess, SetLimit, ReadFails

\* A command that may have been sent before a crash is either the add of a key
\* still in the making, given up with it, or a removal.
LEMMA CrashInv ==
    ASSUME TypeOK, Inv, NEW w \in Worker, Crash(w)
    PROVE  Inv'
<1>1. PICK sent \in {{}} \cup {{c} : c \in InFlight(w)} :
          /\ late' = late \cup sent
          /\ struck' = struck \cup {k \in Key : <<"remove", k>> \in sent}
  BY DEF Crash
<1>2. UNCHANGED <<owner, row, line>>
  BY DEF Crash, dbVars, issueVars, serverVars
<1>3. /\ job'[w].at = "idle" /\ job'[w].todo = {}
      /\ \A v \in Worker \ {w} : job'[v] = job[v]
  BY ReturnEffect DEF Crash
<1>4. \A k \in Key : <<"add", k>> \in sent => job[w].at = "add" /\ job[w].key = k
  BY <1>1 DEF InFlight, At
<1>5. \A k \in Key : <<"remove", k>> \in sent =>
          \/ job[w].at = "clean" /\ job[w].key = k
          \/ row[k] # "none"
  <2>1. ASSUME NEW k \in Key, <<"remove", k>> \in InFlight(w)
        PROVE  \/ job[w].at \in {"clean", "remove"} /\ job[w].key = k
               \/ k \in job[w].todo
    BY <2>1 DEF InFlight, At
  <2> QED
    BY <1>1, <2>1 DEF Inv, WorkerInv
<1>6. ASSUME NEW k \in Key, <<"add", k>> \in sent
      PROVE  /\ owner[k] # None /\ row[k] = "none"
             /\ \A v \in Worker \ {w} : ~ Holds(v, k)
  BY <1>4, <1>6 DEF Inv, WorkerInv, HeldOnce, Holds
<1>7. ASSUME NEW k \in Key, <<"remove", k>> \in sent
      PROVE  /\ owner[k] # None
             /\ \A v \in Worker \ {w} : job[v].at \in {"add", "save"} => job[v].key # k
  BY <1>5, <1>7, RowKey DEF Inv, WorkerInv, HeldOnce, Holds
<1>8. ASSUME NEW k \in Key PROVE KeyInv(k)'
  BY <1>1, <1>2, <1>6, <1>7 DEF Inv, KeyInv
<1>9. ASSUME NEW v \in Worker \ {w} PROVE WorkerInv(v)'
  <2>1. /\ job[v].at \in {"add", "save", "clean"} =>
              job[v].key \in Key /\ <<"add", job[v].key>> \notin sent
        /\ job[v].at \in {"add", "save"} => <<"remove", job[v].key>> \notin sent
    BY <1>6, <1>7 DEF Holds, TypeOK, KeyStage
  <2> QED
    BY <1>1, <1>2, <1>3, <2>1 DEF Inv, WorkerInv
<1>10. WorkerInv(w)' /\ HeldOnce'
  BY <1>3 DEF Inv, WorkerInv, HeldOnce, Holds
<1> QED
  BY <1>8, <1>9, <1>10 DEF Inv

\* An abandoned command finds its key without a row, or already given up.
LEMMA LateCommandInv ==
    ASSUME TypeOK, Inv, NEW op \in {"add", "remove"}, NEW k \in Key, LateCommand(op, k)
    PROVE  Inv'
<1>1. UNCHANGED <<owner, row, job, struck>> /\ late' \subseteq late /\ <<op, k>> \in late
  BY DEF LateCommand, dbVars, issueVars
<1>2. CASE op = "add"
  <2>1. line'[k] # 0 /\ \A j \in Key \ {k} : line'[j] = line[j]
    BY <1>2, AppendEffect DEF LateCommand, PeerAdd
  <2>2. row[k] = "none"
    BY <1>1, <1>2 DEF Inv, KeyInv
  <2>3. \A j \in Key : KeyInv(j)'
    BY <1>1, <2>1, <2>2 DEF Inv, KeyInv
  <2>4. ASSUME NEW v \in Worker PROVE WorkerInv(v)'
    <3>1. job[v].at \in {"save", "revoke", "strike"} => job[v].key \in Key
      BY DEF TypeOK, KeyStage
    <3> QED
      BY <1>1, <2>1, <2>2, <3>1 DEF Inv, WorkerInv
  <2> QED
    BY <1>1, <2>3, <2>4 DEF Inv, HeldOnce, Holds
<1>3. CASE op = "remove"
  <2>1. line'[k] = 0 /\ \A j \in Key \ {k} : line'[j] = 0 <=> line[j] = 0
    BY <1>3, PeerRemoveEffect DEF LateCommand
  <2>2. k \in struck
    BY <1>1, <1>3 DEF Inv, KeyInv
  <2>3. \A j \in Key : KeyInv(j)'
    BY <1>1, <2>1, <2>2 DEF Inv, KeyInv
  <2>4. ASSUME NEW v \in Worker PROVE WorkerInv(v)'
    <3>1. job[v].at \in {"save", "revoke", "strike"} => job[v].key \in Key
      BY DEF TypeOK, KeyStage
    <3> QED
      BY <1>1, <2>1, <2>2, <3>1 DEF Inv, WorkerInv
  <2> QED
    BY <1>1, <2>3, <2>4 DEF Inv, HeldOnce, Holds
<1> QED
  BY <1>2, <1>3

\* A reboot rebuilds the interface and kills abandoned commands; Inv speaks of
\* neither the interface nor of fewer commands.
LEMMA RebootInv ==
    ASSUME TypeOK, Inv, Reboot
    PROVE  Inv'
<1>1. UNCHANGED <<owner, row, line, job, struck>> /\ late' = {}
  BY DEF Reboot, dbVars, issueVars
<1> QED
  BY <1>1 DEF Inv, KeyInv, WorkerInv, HeldOnce, Holds

\* Every step of the system keeps Inv.
LEMMA NextInv == TypeOK /\ Inv /\ [Next]_vars => Inv'
<1> SUFFICES ASSUME TypeOK, Inv, [Next]_vars PROVE Inv'
  OBVIOUS
<1>1. ASSUME NEW w \in Worker, Request(w) PROVE Inv'
  BY <1>1, CreateQueriesInv, OtherWorkerInv DEF Request
<1>2. ASSUME NEW w \in Worker, WorkerStep(w) PROVE Inv'
  BY <1>2, CreateQueriesInv, CreateAllocateInv, CreateAddInv, CreateAddFailsInv,
     CreateSaveInv, CreateCleanUpInv, DeleteRemoveInv, DisableRemoveInv,
     RevokeInv, OtherWorkerInv
  DEF WorkerStep
<1>3. ASSUME NEW w \in Worker, Crash(w) PROVE Inv'
  BY <1>3, CrashInv
<1>4. CASE \/ \E op \in {"add", "remove"}, k \in Key : LateCommand(op, k)
           \/ Reboot
  BY <1>4, LateCommandInv, RebootInv
<1>5. CASE UNCHANGED vars
  BY <1>5 DEF vars, dbVars, issueVars, serverVars,
              Inv, KeyInv, WorkerInv, HeldOnce, Holds
<1> QED
  BY <1>1, <1>2, <1>3, <1>4, <1>5 DEF Next

\* The types and the inductive invariant hold in every state of the system, for
\* any number of workers and whatever fails.
THEOREM Invariance == Spec => [](TypeOK /\ Inv)
<1>1. Init => TypeOK /\ Inv
  BY InitType, InitInv
<1>2. TypeOK /\ Inv /\ [Next]_vars => (TypeOK /\ Inv)'
  BY NextType, NextInv
<1> QED
  BY <1>1, <1>2, PTL DEF Spec

-----------------------------------------------------------------------------
(* The safety of the two stores                                            *)

\* For any number of workers and whatever fails: a peer whose row is revoked
\* has no block in the conf file, and gets none later.
THEOREM RevokedStaysOff == Spec => []RevokedOffServer
<1>1. Inv => RevokedOffServer
  BY DEF Inv, KeyInv, RevokedOffServer
<1> QED
  BY <1>1, Invariance, PTL

\* For any number of workers and whatever fails: an active row whose removal
\* was never attempted has its block in the conf file.
THEOREM ActiveStaysOn == Spec => []ActiveInConf
<1>1. Inv => ActiveInConf
  BY DEF Inv, KeyInv, ActiveInConf
<1> QED
  BY <1>1, Invariance, PTL

-----------------------------------------------------------------------------
(* The directory, with one worker.  CreateConfig checks access, limit and  *)
(* count and draws an address in separate calls, and acts on them calls    *)
(* later; a worker that is alone finds them as it left them.               *)

\* The lowest address that no active row has.
LowestFree(i) ==
    i \in IP \ UsedAddresses /\ \A j \in IP \ UsedAddresses : i <= j

\* What CreateConfig has checked so far still holds.
CheckedInv(w) ==
    LET u == job[w].user IN
    /\ job[w].at \in {"access", "limit", "alloc", "add", "save"}
          => account[u] = "on" /\ limit[u] = job[w].lim
    /\ job[w].at \in {"limit", "alloc", "add", "save"} => u \in access
    /\ job[w].at \in {"alloc", "add", "save"}
          => Cardinality(ListActivePeers(u)) < job[w].lim
    /\ job[w].at \in {"add", "save"}
          => owner[job[w].key] = u /\ LowestFree(addr[job[w].key])

CreateStages == {"access", "limit", "alloc", "add", "save"}

\* Outside CreateConfig there is nothing to keep.
LEMMA NothingChecked ==
    ASSUME NEW w \in Worker, job'[w].at \notin CreateStages
    PROVE  CheckedInv(w)'
BY DEF CheckedInv, CreateStages

\* A step that leaves the job and the database alone keeps what was checked.
LEMMA CheckedFrame ==
    ASSUME TypeOK, NEW w \in Worker, CheckedInv(w),
           UNCHANGED <<account, limit, access, row, owner, addr>>,
           \/ UNCHANGED job
           \/ /\ job[w].at = "add" /\ job'[w].at = "save"
              /\ job'[w].user = job[w].user
              /\ job'[w].key = job[w].key
              /\ job'[w].lim = job[w].lim
    PROVE  CheckedInv(w)'
<1>1. \A u : ListActivePeers(u)' = ListActivePeers(u)
  BY DEF ListActivePeers
<1>2. UNCHANGED UsedAddresses
  BY DEF UsedAddresses
<1> QED
  BY <1>1, <1>2 DEF CheckedInv, LowestFree

\* Each step of CreateConfig keeps what was checked before it and adds what it
\* checks itself.
LEMMA CreateChecked ==
    ASSUME TypeOK, Inv, NEW w \in Worker, CheckedInv(w),
           \/ \E u \in User : CreateGetUser(w, u)
           \/ CreateHasAccess(w) \/ CreateCheckLimit(w)
           \/ CreateAllocate(w) \/ CreateAllocateFails(w)
           \/ CreateAddPeer(w) \/ CreateAddPeerAwgFails(w) \/ CreateAddPeerFails(w)
           \/ CreateSave(w) \/ CreateSaveFails(w) \/ CreateCleanUp(w)
    PROVE  CheckedInv(w)'
<1>1. ASSUME NEW u \in User, CreateGetUser(w, u) PROVE CheckedInv(w)'
  <2>1. job'[w] = Task("access", u, None, limit[u], {})
    BY <1>1, TakeEffect DEF CreateGetUser
  <2> QED
    BY <1>1, <2>1 DEF CreateGetUser, CheckedInv, Task, dbVars
<1>2. CASE Return(w)
  BY <1>2, ReturnEffect, NothingChecked DEF CreateStages
<1>3. CASE CreateHasAccess(w) /\ ~ Return(w)
  <2>1. job[w].user \in access /\ job[w].at = "access" /\ Goto(w, "limit")
    BY <1>3 DEF CreateHasAccess, At
  <2>2. job'[w].at = "limit" /\ job'[w].user = job[w].user /\ job'[w].lim = job[w].lim
    BY <2>1 DEF Goto, TypeOK, Job
  <2> QED
    BY <1>3, <2>1, <2>2 DEF CreateHasAccess, CheckedInv, dbVars
<1>4. CASE CreateCheckLimit(w) /\ ~ Return(w)
  <2>1. /\ ~ AtLimit(Cardinality(ListActivePeers(job[w].user)), job[w].lim)
        /\ job[w].at = "limit" /\ Goto(w, "alloc")
    BY <1>4 DEF CreateCheckLimit, At
  <2>2. /\ job'[w].at = "alloc" /\ job'[w].user = job[w].user
        /\ job'[w].lim = job[w].lim /\ job[w].lim \in Nat
    BY <2>1 DEF Goto, TypeOK, Job
  <2>3. Cardinality(ListActivePeers(job[w].user)) \in Nat
    <3>1. IsFiniteSet(ListActivePeers(job[w].user))
      BY FS_Subset DEF ListActivePeers
    <3> QED
      BY <3>1, FS_CardinalityType
  <2>4. Cardinality(ListActivePeers(job[w].user)) < job[w].lim
    BY <2>1, <2>2, <2>3 DEF AtLimit
  <2>5. UNCHANGED <<account, limit, access, row, owner>>
    BY <1>4 DEF CreateCheckLimit, dbVars, issueVars
  <2>6. ListActivePeers(job[w].user)' = ListActivePeers(job[w].user)
    BY <2>2, <2>5 DEF ListActivePeers
  <2> QED
    BY <2>1, <2>2, <2>4, <2>5, <2>6 DEF CheckedInv
<1>5. CASE CreateAllocate(w)
  <2> DEFINE u == job[w].user
  <2>1. PICK k \in Key :
            /\ owner[k] = None
            /\ owner' = [owner EXCEPT ![k] = u]
            /\ \E i \in IP : LowestFree(i) /\ addr' = [addr EXCEPT ![k] = i]
            /\ Take(w, Task("add", u, k, job[w].lim, {}))
    BY <1>5 DEF CreateAllocate, LowestFree
  <2>2. UNCHANGED <<account, limit, access, row>> /\ job[w].at = "alloc"
    BY <1>5 DEF CreateAllocate, dbVars, At
  <2>3. /\ job'[w].at = "add" /\ job'[w].user = u /\ job'[w].key = k
        /\ job'[w].lim = job[w].lim
    BY <2>1, TakeEffect DEF Task
  <2>4. row[k] = "none"
    BY <2>1 DEF Inv, KeyInv
  <2>5. {j \in Key : row[j] = "active" /\ owner'[j] = u}
            = {j \in Key : row[j] = "active" /\ owner[j] = u}
    BY <2>1, <2>4 DEF TypeOK
  <2>6. ListActivePeers(u)' = ListActivePeers(u)
    BY <2>2, <2>3, <2>5 DEF ListActivePeers
  <2>7. owner'[k] = u /\ LowestFree(addr'[k])
    BY <2>1 DEF TypeOK
  <2>8. UNCHANGED UsedAddresses
    BY <2>1, <2>2, <2>4 DEF TypeOK, UsedAddresses
  <2> QED
    BY <2>2, <2>3, <2>6, <2>7, <2>8 DEF CheckedInv, LowestFree
<1>6. CASE CreateAddPeer(w)
  <2>1. /\ job[w].at = "add" /\ job'[w].at = "save"
        /\ job'[w].user = job[w].user
        /\ job'[w].key = job[w].key
        /\ job'[w].lim = job[w].lim
    BY <1>6 DEF CreateAddPeer, At, Goto, TypeOK, Job
  <2> QED
    BY <1>6, <2>1, CheckedFrame DEF CreateAddPeer, dbVars, issueVars
<1>7. CASE CreateSaveFails(w)
  BY <1>7, GotoEffect, NothingChecked DEF CreateSaveFails, CreateStages
<1> QED
  BY <1>1, <1>2, <1>3, <1>4, <1>5, <1>6, <1>7
  DEF CreateAllocateFails, CreateAddPeerAwgFails, CreateAddPeerFails,
      CreateSave, CreateCleanUp

\* Every other handler starts from an idle worker or leaves CreateConfig out.
LEMMA OtherChecked ==
    ASSUME TypeOK, NEW w \in Worker, CheckedInv(w),
           \/ \E u \in User, k \in Key : DeletePress(w, u, k)
           \/ DeleteGetPeer(w) \/ DeleteRemovePeer(w) \/ DeleteRevoke(w)
           \/ \E u \in User : DisableSet(w, u) \/ AddUpsertUser(w, u)
           \/ DisableList(w) \/ (\E k \in Key : DisableRemovePeer(w, k))
           \/ DisableRevoke(w) \/ DisableDone(w)
           \/ AddGrantAccess(w)
           \/ \E u \in User, n \in Limit : SetLimit(w, u, n)
           \/ ReadFails(w) \/ Crash(w)
    PROVE  CheckedInv(w)'
<1>1. CASE Return(w)
  BY <1>1, ReturnEffect, NothingChecked DEF CreateStages
<1>2. CASE UNCHANGED job /\ job[w] = Idle
  BY <1>2, NothingChecked DEF CreateStages, Idle, Task
<1>3. CASE Goto(w, "remove") \/ Goto(w, "revoke")
  BY <1>3, GotoEffect, NothingChecked DEF CreateStages
<1>4. ASSUME NEW stage \in Stage \ CreateStages, NEW u, NEW k, NEW todo,
             Take(w, Task(stage, u, k, 0, todo))
      PROVE  CheckedInv(w)'
  BY <1>4, TakeEffect, NothingChecked DEF Task
<1>5. {"get", "list", "loop", "strike", "grant"} \subseteq Stage \ CreateStages
  BY DEF Stage, CreateStages
<1>6. ASSUME NEW u \in User, NEW k \in Key, DeletePress(w, u, k) PROVE CheckedInv(w)'
  BY <1>4, <1>5, <1>6 DEF DeletePress
<1>7. ASSUME NEW u \in User, DisableSet(w, u) \/ AddUpsertUser(w, u)
      PROVE  CheckedInv(w)'
  BY <1>2, <1>4, <1>5, <1>7 DEF DisableSet, AddUpsertUser
<1>8. CASE DisableList(w) \/ (\E k \in Key : DisableRemovePeer(w, k))
           \/ DisableRevoke(w)
  BY <1>1, <1>4, <1>5, <1>8 DEF DisableList, DisableRemovePeer, DisableRevoke
<1>9. ASSUME NEW u \in User, NEW n \in Limit, SetLimit(w, u, n) PROVE CheckedInv(w)'
  BY <1>2, <1>9 DEF SetLimit
<1> QED
  BY <1>1, <1>3, <1>6, <1>7, <1>8, <1>9
  DEF DeleteGetPeer, DeleteRemovePeer, DeleteRevoke, DisableDone,
      AddGrantAccess, ReadFails, Crash

\* With one worker every step of the system keeps what CreateConfig checked.
LEMMA NextChecked ==
    ASSUME NEW w, Worker = {w}
    PROVE  TypeOK /\ Inv /\ CheckedInv(w) /\ [Next]_vars => CheckedInv(w)'
<1> SUFFICES ASSUME TypeOK, Inv, CheckedInv(w), [Next]_vars PROVE CheckedInv(w)'
  OBVIOUS
<1>1. CASE Request(w)
  BY <1>1, CreateChecked, OtherChecked DEF Request
<1>2. CASE WorkerStep(w)
  BY <1>2, CreateChecked, OtherChecked DEF WorkerStep
<1>3. CASE Crash(w)
  BY <1>3, OtherChecked
<1>4. CASE \/ \E op \in {"add", "remove"}, k \in Key : LateCommand(op, k)
           \/ Reboot
           \/ UNCHANGED vars
  BY <1>4, CheckedFrame DEF LateCommand, Reboot, vars, dbVars, issueVars
<1> QED
  BY <1>1, <1>2, <1>3, <1>4 DEF Next

\* Only CreateConfig makes a row active.
LEMMA OnlySaveActivates ==
    ASSUME TypeOK, NEW k \in Key, row[k] # "active", row'[k] = "active", [Next]_vars
    PROVE  \E w \in Worker : At(w, "save") /\ job[w].key = k
<1>1. \A w \in Worker : CreateSave(w) \/ CreateSaveFails(w) => At(w, "save") /\ job[w].key = k
  BY DEF CreateSave, CreateSaveFails, TypeOK
<1>2. \A j \in Key : row' # [row EXCEPT ![j] = "revoked"]
  BY DEF TypeOK
<1>3. row' # row
  OBVIOUS
<1>4. ASSUME NEW w \in Worker, Request(w) PROVE FALSE
  BY <1>3, <1>4 DEF Request, CreateGetUser, DisableSet, AddUpsertUser, DeletePress,
                    SetLimit, dbVars
<1>5. ASSUME NEW w \in Worker, WorkerStep(w) PROVE CreateSave(w) \/ CreateSaveFails(w)
  <2>1. ~ DeleteRevoke(w) /\ ~ DisableRevoke(w)
    BY <1>2, <1>3 DEF DeleteRevoke, DisableRevoke, RevokePeer, At, TypeOK, KeyStage
  <2> QED
    BY <1>3, <1>5, <2>1
    DEF WorkerStep, CreateHasAccess, CreateCheckLimit, CreateAllocate,
        CreateAllocateFails, CreateAddPeer, CreateAddPeerAwgFails,
        CreateAddPeerFails, CreateCleanUp, DeleteGetPeer, DeleteRemovePeer,
        DisableList, DisableRemovePeer, DisableDone, AddGrantAccess, ReadFails,
        dbVars
<1>6. ~ (\E w \in Worker : Crash(w)) /\ ~ Reboot
      /\ ~ (\E op \in {"add", "remove"}, j \in Key : LateCommand(op, j))
  BY <1>3 DEF Crash, Reboot, LateCommand, dbVars
<1> QED
  BY <1>1, <1>3, <1>4, <1>5, <1>6 DEF Next, vars, dbVars

\* With one update loop, whatever fails, a row becomes active only for a user
\* who is enabled, has access and is below the limit at that moment.
THEOREM OneWorkerEntitles ==
    ASSUME NEW w, Worker = {w}
    PROVE  Spec => NewPeerIsEntitled
<1>1. Init => CheckedInv(w)
  BY DEF Init, CheckedInv, Idle, Task
<1>2. TypeOK /\ Inv /\ CheckedInv(w) /\ [Next]_vars => CheckedInv(w)'
  BY NextChecked
<1>3. TypeOK /\ Inv /\ CheckedInv(w) /\ [Next]_vars => [EntitledStep]_vars
  <2> SUFFICES ASSUME TypeOK, Inv, CheckedInv(w), [Next]_vars,
                      NEW k \in Key, row[k] # "active", row'[k] = "active"
               PROVE  /\ account[owner[k]] = "on"
                      /\ owner[k] \in access
                      /\ Cardinality(ListActivePeers(owner[k])) < limit[owner[k]]
    BY DEF EntitledStep
  <2>1. job[w].at = "save" /\ job[w].key = k
    BY OnlySaveActivates DEF At
  <2> QED
    BY <2>1 DEF CheckedInv
<1> QED
  BY <1>1, <1>2, <1>3, Invariance, PTL DEF Spec, NewPeerIsEntitled

-----------------------------------------------------------------------------
(* The directory is implemented: what is saved is issued, what is revoked  *)
(* is revoked, and every other step leaves the configurations alone.       *)

\* What a key was given may change until it has a row.
LEMMA SameConfig ==
    ASSUME UNCHANGED row,
           \A k \in Key : row[k] # "none" => owner'[k] = owner[k] /\ addr'[k] = addr[k]
    PROVE  config' = config
BY DEF config

\* The configurations that count as active are the active rows.
LEMMA ActiveRows ==
    /\ D!Held = UsedAddresses
    /\ \A u : D!ActiveOf(u) = ListActivePeers(u)
    /\ \A k \in Key : config[k].status = row[k]
<1>1. ASSUME NEW k \in Key PROVE config[k].status = row[k]
  BY DEF config
<1>2. D!Active = {k \in Key : row[k] = "active"}
  BY <1>1 DEF D!Active
<1>3. \A k \in D!Active : config[k].user = owner[k] /\ config[k].ip = addr[k]
  BY <1>2 DEF config
<1> QED
  BY <1>1, <1>2, <1>3 DEF D!Held, D!ActiveOf, UsedAddresses, ListActivePeers

\* Saving a row issues the configuration, to a user entitled to it then.
LEMMA SaveIssues ==
    ASSUME TypeOK, Inv, NEW w \in Worker, CheckedInv(w), At(w, "save"),
           row' = [row EXCEPT ![job[w].key] = "active"],
           UNCHANGED <<account, limit, access, owner, addr>>
    PROVE  D!Next
<1> DEFINE k == job[w].key
           u == job[w].user
<1>1. k \in Key /\ u \in User
  BY DEF TypeOK, At, KeyStage
<1>2. row[k] = "none" /\ owner[k] = u /\ LowestFree(addr[k])
  BY DEF At, Inv, WorkerInv, CheckedInv
<1>3. row'[k] = "active" /\ \A j \in Key \ {k} : row'[j] = row[j]
  BY <1>1 DEF TypeOK
<1>4. config[k].status = "none"
  BY <1>1, <1>2, ActiveRows
<1>5. config' = [config EXCEPT ![k] = [status |-> "active", user |-> u, ip |-> addr[k]]]
  BY <1>1, <1>2, <1>3 DEF config
<1>6. D!Entitled(u)
  <2>1. D!Cardinality(ListActivePeers(u)) = Cardinality(ListActivePeers(u))
    BY DEF D!Cardinality, Cardinality
  <2> QED
    BY <2>1, ActiveRows DEF D!Entitled, CheckedInv, At
<1>7. D!Issue(u, k)
  <2>1. config'[k].status = "active"
    BY <1>1, <1>5 DEF config
  <2>2. addr[k] \in D!IP \ D!Held /\ \A j \in D!IP \ D!Held : addr[k] <= j
    BY <1>2, ActiveRows DEF LowestFree, D!IP, IP
  <2> QED
    BY <1>4, <1>5, <1>6, <2>1, <2>2 DEF D!Issue
<1> QED
  BY <1>1, <1>7 DEF D!Next

\* Revoking a row revokes the configuration, or changes nothing the second time.
LEMMA RevokeRevokes ==
    ASSUME TypeOK, NEW k \in Key, row[k] # "none", RevokePeer(k),
           UNCHANGED <<account, limit, access, owner, addr>>
    PROVE  [D!Next]_D!vars
<1>1. CASE UNCHANGED row
  BY <1>1, SameConfig DEF D!vars
<1>2. CASE row' = [row EXCEPT ![k] = "revoked"] /\ row[k] = "active"
  <2>1. row'[k] = "revoked" /\ \A j \in Key \ {k} : row'[j] = row[j]
    BY <1>2 DEF TypeOK
  <2>2. config' = [config EXCEPT ![k].status = "revoked"]
    BY <1>2, <2>1 DEF config
  <2>3. D!Revoke(k)
    BY <1>2, <2>2, ActiveRows DEF D!Revoke
  <2> QED
    BY <2>3 DEF D!Next
<1>3. CASE row' = [row EXCEPT ![k] = "revoked"] /\ row[k] = "revoked"
  <2>1. row' = row
    BY <1>3 DEF TypeOK
  <2> QED
    BY <1>1, <2>1
<1> QED
  BY <1>1, <1>2, <1>3 DEF RevokePeer, TypeOK

\* A request opens a handler, or changes an account or a limit at once.
LEMMA RequestImplements ==
    ASSUME TypeOK, NEW w \in Worker, Request(w)
    PROVE  [D!Next]_D!vars
<1>1. UNCHANGED config
  BY SameConfig
  DEF Request, CreateGetUser, DisableSet, AddUpsertUser, DeletePress, SetLimit,
      dbVars, issueVars
<1>2. ASSUME NEW u \in User, CreateGetUser(w, u) PROVE UNCHANGED D!vars
  BY <1>1, <1>2 DEF CreateGetUser, dbVars, D!vars
<1>3. ASSUME NEW u \in User, DisableSet(w, u) PROVE D!Next
  BY <1>1, <1>3 DEF DisableSet, D!Disable, D!Next
<1>4. ASSUME NEW u \in User, AddUpsertUser(w, u) PROVE D!Next
  BY <1>1, <1>4 DEF AddUpsertUser, D!Add, D!Next
<1>5. ASSUME NEW u \in User, NEW k \in Key, DeletePress(w, u, k) PROVE UNCHANGED D!vars
  BY <1>1, <1>5 DEF DeletePress, dbVars, D!vars
<1>6. ASSUME NEW u \in User, NEW n \in Limit, SetLimit(w, u, n) PROVE D!Next
  BY <1>1, <1>6 DEF SetLimit, D!SetLimit, D!Next
<1> QED
  BY <1>2, <1>3, <1>4, <1>5, <1>6 DEF Request

\* A step of a handler issues, revokes, grants access or changes nothing.
LEMMA WorkerImplements ==
    ASSUME TypeOK, Inv, NEW w \in Worker, CheckedInv(w), WorkerStep(w)
    PROVE  [D!Next]_D!vars
<1>1. CASE CreateSave(w) \/ CreateSaveFails(w)
  <2>1. UNCHANGED <<account, limit, access, owner, addr>> /\ At(w, "save")
    BY <1>1 DEF CreateSave, CreateSaveFails, issueVars
  <2>2. CASE row' = [row EXCEPT ![job[w].key] = "active"]
    BY <2>1, <2>2, SaveIssues
  <2>3. CASE UNCHANGED row
    BY <2>1, <2>3, SameConfig DEF D!vars
  <2> QED
    BY <1>1, <2>2, <2>3 DEF CreateSave, CreateSaveFails
<1>2. CASE DeleteRevoke(w) \/ DisableRevoke(w)
  <2>1. /\ UNCHANGED <<account, limit, access, owner, addr>>
        /\ job[w].at \in {"revoke", "strike"} /\ RevokePeer(job[w].key)
    BY <1>2 DEF DeleteRevoke, DisableRevoke, issueVars, At
  <2>2. job[w].key \in Key /\ row[job[w].key] # "none"
    BY <2>1 DEF TypeOK, KeyStage, Inv, WorkerInv
  <2> QED
    BY <2>1, <2>2, RevokeRevokes
<1>3. CASE AddGrantAccess(w)
  <2>1. UNCHANGED config
    BY <1>3, SameConfig DEF AddGrantAccess, issueVars
  <2>2. job[w].user \in User
    BY <1>3 DEF AddGrantAccess, At, TypeOK
  <2>3. CASE access' = access \cup {job[w].user}
    BY <1>3, <2>1, <2>2, <2>3 DEF AddGrantAccess, D!Grant, D!Next
  <2>4. CASE UNCHANGED access
    BY <1>3, <2>1, <2>4 DEF AddGrantAccess, D!vars
  <2> QED
    BY <1>3, <2>3, <2>4 DEF AddGrantAccess
<1>4. CASE CreateAllocate(w)
  <2>1. PICK k \in Key, i \in IP :
            /\ owner[k] = None
            /\ owner' = [owner EXCEPT ![k] = job[w].user]
            /\ addr' = [addr EXCEPT ![k] = i]
    BY <1>4 DEF CreateAllocate
  <2>2. row[k] = "none"
    BY <2>1 DEF Inv, KeyInv
  <2>3. UNCHANGED config
    BY <1>4, <2>1, <2>2, SameConfig DEF CreateAllocate, dbVars, TypeOK
  <2> QED
    BY <1>4, <2>3 DEF CreateAllocate, dbVars, D!vars
<1>5. CASE UNCHANGED <<dbVars, issueVars>>
  BY <1>5, SameConfig DEF dbVars, issueVars, D!vars
<1> QED
  BY <1>1, <1>2, <1>3, <1>4, <1>5
  DEF WorkerStep, CreateHasAccess, CreateCheckLimit, CreateAllocateFails,
      CreateAddPeer, CreateAddPeerAwgFails, CreateAddPeerFails, CreateCleanUp,
      DeleteGetPeer, DeleteRemovePeer, DisableList, DisableRemovePeer, DisableDone,
      ReadFails, dbVars, issueVars

\* With one update loop the bot implements Directory, for any number of users, keys
\* and addresses and whatever fails: issuing and revoking are as good as atomic.
THEOREM OneWorkerIsDirectory ==
    ASSUME NEW w, Worker = {w}
    PROVE  Spec => IsDirectory
<1>1. Init => CheckedInv(w) /\ D!Init
  BY DEF Init, CheckedInv, Idle, Task, D!Init, D!NoConfig, config
<1>2. TypeOK /\ Inv /\ CheckedInv(w) /\ [Next]_vars => CheckedInv(w)'
  BY NextChecked
<1>3. TypeOK /\ Inv /\ CheckedInv(w) /\ [Next]_vars => [D!Next]_D!vars
  <2> SUFFICES ASSUME TypeOK, Inv, CheckedInv(w), [Next]_vars PROVE [D!Next]_D!vars
    OBVIOUS
  <2>1. CASE Request(w)
    BY <2>1, RequestImplements
  <2>2. CASE WorkerStep(w)
    BY <2>2, WorkerImplements
  <2>3. CASE UNCHANGED <<dbVars, issueVars>>
    BY <2>3, SameConfig DEF dbVars, issueVars, D!vars
  <2> QED
    BY <2>1, <2>2, <2>3 DEF Next, Crash, LateCommand, Reboot, vars
<1> QED
  BY <1>1, <1>2, <1>3, Invariance, PTL DEF Spec, IsDirectory, D!Spec
-----------------------------------------------------------------------------
(* Whose rows are revoked.  GetActivePeer compares the owner and the list of *)
(* revokeUserPeers is the user's own; a key keeps the owner it was made for. *)

\* The keys a task may revoke belong to the user it works for.
Owned(task) ==
    /\ task.at \in {"remove", "revoke", "strike"} => owner[task.key] = task.user
    /\ task.at \in {"loop", "strike"} => \A k \in task.todo : owner[k] = task.user

OwnersInv == \A w \in Worker : Owned(job[w])

\* A key that has an owner keeps it.
LEMMA OwnerStays ==
    ASSUME TypeOK, [Next]_vars, NEW k \in Key, owner[k] # None
    PROVE  owner'[k] = owner[k]
<1>1. ASSUME NEW w \in Worker, CreateAllocate(w) PROVE owner'[k] = owner[k]
  BY <1>1 DEF CreateAllocate, TypeOK
<1>2. CASE UNCHANGED owner
  BY <1>2
<1>3. ASSUME NEW w \in Worker, Request(w) PROVE UNCHANGED owner
  BY <1>3 DEF Request, CreateGetUser, DisableSet, AddUpsertUser, DeletePress,
              SetLimit, issueVars
<1>4. ASSUME NEW w \in Worker, WorkerStep(w), ~ CreateAllocate(w) PROVE UNCHANGED owner
  BY <1>4
  DEF WorkerStep, CreateHasAccess, CreateCheckLimit, CreateAllocateFails,
      CreateAddPeer, CreateAddPeerAwgFails, CreateAddPeerFails, CreateSave,
      CreateSaveFails, CreateCleanUp, DeleteGetPeer, DeleteRemovePeer, DeleteRevoke,
      DisableList, DisableRemovePeer, DisableRevoke, DisableDone, AddGrantAccess,
      ReadFails, issueVars
<1> QED
  BY <1>1, <1>2, <1>3, <1>4 DEF Next, Crash, LateCommand, Reboot, vars, issueVars

\* A task that revokes only its user's keys goes on doing so.
LEMMA OwnedStays ==
    ASSUME TypeOK, [Next]_vars, NEW w \in Worker, Owned(job[w]), job'[w] = job[w]
    PROVE  Owned(job[w])'
<1>1. job[w].at # "idle" => job[w].user # None
  BY DEF TypeOK
<1>2. job[w].at \in {"remove", "revoke", "strike"} => job[w].key \in Key
  BY DEF TypeOK, KeyStage
<1>3. job[w].todo \subseteq Key
  BY DEF TypeOK, Job
<1> QED
  BY <1>1, <1>2, <1>3, OwnerStays DEF Owned

\* The step of a worker that takes up a task with the keys of its user.
LEMMA OwnedTask ==
    ASSUME TypeOK, OwnersInv, [Next]_vars, NEW w \in Worker,
           NEW task, Take(w, task), UNCHANGED owner, Owned(task)
    PROVE  OwnersInv'
<1>1. Owned(job[w])'
  BY DEF Take, TypeOK, Owned
<1>2. \A v \in Worker \ {w} : Owned(job[v])'
  BY OwnedStays DEF Take, TypeOK, OwnersInv
<1> QED
  BY <1>1, <1>2 DEF OwnersInv

\* Requests and the steps of a handler: a worker gets a task of its user only.
LEMMA WorkerOwners ==
    ASSUME TypeOK, OwnersInv, [Next]_vars, NEW w \in Worker, Request(w) \/ WorkerStep(w)
    PROVE  OwnersInv'
<1> USE DEF Task, Owned
<1>1. ASSUME NEW task, Take(w, task), UNCHANGED owner,
             task.at \notin {"remove", "revoke", "strike", "loop"}
      PROVE  OwnersInv'
  BY <1>1, OwnedTask
<1>2. ASSUME Return(w), UNCHANGED owner PROVE OwnersInv'
  BY <1>1, <1>2 DEF Return, Idle
<1>3. ASSUME NEW stage, Goto(w, stage), UNCHANGED owner,
             stage \notin {"remove", "revoke", "strike", "loop"}
      PROVE  OwnersInv'
  <2>1. Take(w, [job[w] EXCEPT !.at = stage]) /\ [job[w] EXCEPT !.at = stage].at = stage
    BY <1>3 DEF Take, Goto, TypeOK, Job
  <2> QED
    BY <1>1, <1>3, <2>1
<1>4. CASE UNCHANGED <<job, owner>>
  BY <1>4, OwnedStays DEF OwnersInv
<1>5. CASE Request(w)
  <2>1. UNCHANGED owner
    BY <1>5 DEF Request, CreateGetUser, DisableSet, AddUpsertUser, DeletePress,
                SetLimit, issueVars
  <2> QED
    BY <1>1, <1>4, <1>5, <2>1
    DEF Request, CreateGetUser, DisableSet, AddUpsertUser, DeletePress, SetLimit
<1>6. CASE CreateAllocate(w)
  <2>1. PICK k \in Key : Take(w, Task("add", job[w].user, k, job[w].lim, {}))
    BY <1>6 DEF CreateAllocate
  <2>2. Owned(job[w])'
    BY <2>1 DEF Take, TypeOK
  <2>3. \A v \in Worker \ {w} : Owned(job[v])'
    BY <2>1, OwnedStays DEF Take, TypeOK, OwnersInv
  <2> QED
    BY <2>2, <2>3 DEF OwnersInv
<1>7. CASE DeleteGetPeer(w)
  <2>1. CASE GetActivePeer(job[w].user, job[w].key) /\ Goto(w, "remove")
    <3>1. Take(w, [job[w] EXCEPT !.at = "remove"])
      BY <2>1 DEF Take, Goto
    <3>2. Owned([job[w] EXCEPT !.at = "remove"])
      BY <2>1 DEF GetActivePeer, TypeOK, Job
    <3> QED
      BY <1>7, <3>1, <3>2, OwnedTask DEF DeleteGetPeer, issueVars
  <2> QED
    BY <1>2, <1>7, <2>1 DEF DeleteGetPeer, issueVars
<1>8. CASE DeleteRemovePeer(w)
  <2>1. CASE Goto(w, "revoke")
    <3>1. Take(w, [job[w] EXCEPT !.at = "revoke"])
      BY <2>1 DEF Take, Goto
    <3>2. Owned([job[w] EXCEPT !.at = "revoke"])
      BY <1>8 DEF DeleteRemovePeer, At, OwnersInv, TypeOK, Job
    <3> QED
      BY <1>8, <3>1, <3>2, OwnedTask DEF DeleteRemovePeer, issueVars
  <2> QED
    BY <1>2, <1>8, <2>1 DEF DeleteRemovePeer, issueVars
<1>9. CASE DisableList(w)
  <2>1. CASE Take(w, Task("loop", job[w].user, None, 0, ListActivePeers(job[w].user)))
    <3>1. Owned(Task("loop", job[w].user, None, 0, ListActivePeers(job[w].user)))
      BY DEF ListActivePeers
    <3> QED
      BY <1>9, <2>1, <3>1, OwnedTask DEF DisableList, issueVars
  <2> QED
    BY <1>2, <1>9, <2>1 DEF DisableList, issueVars
<1>10. ASSUME NEW k \in Key, DisableRemovePeer(w, k) PROVE OwnersInv'
  <2>1. k \in job[w].todo /\ \A j \in job[w].todo : owner[j] = job[w].user
    BY <1>10 DEF DisableRemovePeer, At, OwnersInv
  <2>2. /\ Owned(Task("strike", job[w].user, k, 0, job[w].todo))
        /\ Owned(Task("loop", job[w].user, None, 0, job[w].todo \ {k}))
    BY <2>1
  <2> QED
    BY <1>10, <2>2, OwnedTask DEF DisableRemovePeer, issueVars
<1>11. CASE DisableRevoke(w)
  <2>1. Owned(Task("loop", job[w].user, None, 0, job[w].todo \ {job[w].key}))
    BY <1>11 DEF DisableRevoke, At, OwnersInv
  <2> QED
    BY <1>11, <2>1, OwnedTask DEF DisableRevoke, issueVars
<1>12. CASE CreateHasAccess(w) \/ CreateCheckLimit(w)
  BY <1>2, <1>3, <1>12 DEF CreateHasAccess, CreateCheckLimit, issueVars
<1>13. CASE CreateAddPeer(w) \/ CreateSaveFails(w)
  BY <1>3, <1>13 DEF CreateAddPeer, CreateSaveFails, issueVars
<1>14. CASE \/ CreateAllocateFails(w) \/ CreateAddPeerAwgFails(w)
            \/ CreateAddPeerFails(w) \/ CreateSave(w) \/ CreateCleanUp(w)
            \/ DeleteRevoke(w) \/ DisableDone(w) \/ AddGrantAccess(w) \/ ReadFails(w)
  BY <1>2, <1>14
  DEF CreateAllocateFails, CreateAddPeerAwgFails, CreateAddPeerFails, CreateSave,
      CreateCleanUp, DeleteRevoke, DisableDone, AddGrantAccess, ReadFails, issueVars
<1> QED
  BY <1>5, <1>6, <1>7, <1>8, <1>9, <1>10, <1>11, <1>12, <1>13, <1>14 DEF WorkerStep

\* Every step of the system keeps the tasks with the keys of their users.
LEMMA NextOwners == TypeOK /\ OwnersInv /\ [Next]_vars => OwnersInv'
<1> SUFFICES ASSUME TypeOK, OwnersInv, [Next]_vars PROVE OwnersInv'
  OBVIOUS
<1>1. ASSUME NEW w \in Worker, Request(w) \/ WorkerStep(w) PROVE OwnersInv'
  BY <1>1, WorkerOwners
<1>2. ASSUME NEW w \in Worker, Crash(w) PROVE OwnersInv'
  <2>1. Owned(Idle)
    BY DEF Owned, Idle, Task
  <2> QED
    BY <1>2, <2>1, OwnedTask DEF Crash, Return, issueVars
<1>3. CASE UNCHANGED <<job, owner>>
  BY <1>3, OwnedStays DEF OwnersInv
<1> QED
  BY <1>1, <1>2, <1>3 DEF Next, LateCommand, Reboot, vars, issueVars

\* Only DeleteConfig and AdminDisableUser revoke a row, the one they hold.
LEMMA OnlyRevokeRevokes ==
    ASSUME TypeOK, NEW k \in Key, row[k] = "active", row'[k] = "revoked", [Next]_vars
    PROVE  \E w \in Worker : job[w].at \in {"revoke", "strike"} /\ job[w].key = k
<1>1. row' # row /\ \A j \in Key : row' # [row EXCEPT ![j] = "active"]
  BY DEF TypeOK
<1>2. \A w \in Worker : DeleteRevoke(w) \/ DisableRevoke(w)
                            => job[w].at \in {"revoke", "strike"} /\ job[w].key = k
  BY DEF DeleteRevoke, DisableRevoke, RevokePeer, At, TypeOK
<1>3. ASSUME NEW w \in Worker, Request(w) PROVE FALSE
  BY <1>1, <1>3 DEF Request, CreateGetUser, DisableSet, AddUpsertUser, DeletePress,
                    SetLimit, dbVars
<1>4. ASSUME NEW w \in Worker, WorkerStep(w) PROVE DeleteRevoke(w) \/ DisableRevoke(w)
  <2>1. ~ CreateSave(w) /\ ~ CreateSaveFails(w)
    BY <1>1 DEF CreateSave, CreateSaveFails, At, TypeOK, KeyStage
  <2> QED
    BY <1>1, <1>4, <2>1
    DEF WorkerStep, CreateHasAccess, CreateCheckLimit, CreateAllocate,
        CreateAllocateFails, CreateAddPeer, CreateAddPeerAwgFails,
        CreateAddPeerFails, CreateCleanUp, DeleteGetPeer, DeleteRemovePeer,
        DisableList, DisableRemovePeer, DisableDone, AddGrantAccess, ReadFails,
        dbVars
<1>5. ~ (\E w \in Worker : Crash(w)) /\ ~ Reboot
      /\ ~ (\E op \in {"add", "remove"}, j \in Key : LateCommand(op, j))
  BY <1>1 DEF Crash, Reboot, LateCommand, dbVars
<1> QED
  BY <1>1, <1>2, <1>3, <1>4, <1>5 DEF Next, vars, dbVars

\* For any number of workers and whatever fails: a row is revoked only for the user
\* it belongs to, RevokedForOwner.
THEOREM OnlyOwnersRevoke == Spec => RevokedForOwner
<1>1. Init => OwnersInv
  BY DEF Init, OwnersInv, Owned, Idle, Task
<1>2. TypeOK /\ OwnersInv /\ [Next]_vars
        => [\A k \in Key : row[k] = "active" /\ row'[k] = "revoked"
              => \E w \in Worker : job[w].key = k /\ job[w].user = owner[k]]_vars
  BY OnlyRevokeRevokes DEF OwnersInv, Owned
<1> QED
  BY <1>1, <1>2, NextOwners, TypeCorrect, PTL DEF Spec, RevokedForOwner

-----------------------------------------------------------------------------
(* Faults.  A property that holds while faults of some kinds stay away is    *)
(* proved from the steps that are left.                                      *)

\* After a fault of one of these kinds they are not spared.
LEMMA FaultSpends ==
    ASSUME TypeOK, NEW kinds, NEW kind \in kinds, Fault(kind)
    PROVE  ~ Spared(kinds)'
<1>1. faults' = Append(faults, kind) /\ faults \in Seq(Faults) /\ kind \in Faults
  BY DEF Fault, TypeOK
<1>2. Len(faults') = Len(faults) + 1 /\ faults'[Len(faults) + 1] = kind
  BY <1>1
<1> QED
  BY <1>1, <1>2 DEF Spared

\* What is spared now was spared before.
LEMMA SparedBefore ==
    ASSUME TypeOK, NEW kinds, Spared(kinds)',
           UNCHANGED faults \/ \E kind \in Faults : Fault(kind)
    PROVE  Spared(kinds)
<1>1. CASE UNCHANGED faults
  BY <1>1 DEF Spared
<1>2. ASSUME NEW kind \in Faults, Fault(kind) PROVE Spared(kinds)
  <2>1. faults' = Append(faults, kind) /\ faults \in Seq(Faults)
    BY <1>2 DEF Fault, TypeOK
  <2>2. /\ Len(faults') = Len(faults) + 1
        /\ \A i \in 1..Len(faults) : faults'[i] = faults[i]
    BY <2>1
  <2> QED
    BY <2>1, <2>2 DEF Spared
<1> QED
  BY <1>1, <1>2

\* A step has one fault at most, and only a reboot is one.
LEMMA FaultOrReboot ==
    ASSUME [Next]_vars
    PROVE  UNCHANGED faults \/ (\E kind \in Faults \ {"reboot"} : Fault(kind)) \/ Reboot
<1> DEFINE OK == UNCHANGED faults \/ \E kind \in Faults \ {"reboot"} : Fault(kind)
<1>1. ASSUME NEW kind, kind # "reboot", Fault(kind) PROVE OK
  BY <1>1 DEF Fault
<1>2. ASSUME NEW k, RemovePeer(k) \/ RemovePeerFails(k) \/ RevokePeer(k) PROVE OK
  BY <1>1, <1>2 DEF RemovePeer, PeerRemoveAwgFails, RemovePeerFails, RevokePeer
<1>3. ASSUME NEW w \in Worker, Request(w) PROVE OK
  BY <1>1, <1>3 DEF Request, CreateGetUser, DisableSet, AddUpsertUser, DeletePress, SetLimit
<1>4. ASSUME NEW w \in Worker, WorkerStep(w) PROVE OK
  <2>1. CASE \/ CreateHasAccess(w) \/ CreateCheckLimit(w) \/ CreateAllocate(w)
             \/ CreateAllocateFails(w) \/ CreateAddPeer(w) \/ CreateSave(w)
             \/ DeleteGetPeer(w) \/ DisableDone(w)
    BY <2>1 DEF CreateHasAccess, CreateCheckLimit, CreateAllocate, CreateAllocateFails,
                CreateAddPeer, CreateSave, DeleteGetPeer, DisableDone
  <2>2. CASE \/ CreateAddPeerAwgFails(w) \/ CreateAddPeerFails(w) \/ CreateSaveFails(w)
             \/ DisableList(w) \/ AddGrantAccess(w) \/ ReadFails(w)
    BY <1>1, <2>2 DEF CreateAddPeerAwgFails, CreateAddPeerFails, CreateSaveFails,
                      DisableList, AddGrantAccess, ReadFails
  <2>3. CASE \/ CreateCleanUp(w) \/ DeleteRemovePeer(w) \/ DeleteRevoke(w)
             \/ (\E k \in Key : DisableRemovePeer(w, k)) \/ DisableRevoke(w)
    BY <1>2, <2>3 DEF CreateCleanUp, DeleteRemovePeer, DeleteRevoke, DisableRemovePeer,
                      DisableRevoke
  <2> QED
    BY <1>4, <2>1, <2>2, <2>3 DEF WorkerStep
<1> QED
  BY <1>1, <1>3, <1>4 DEF Next, Crash, LateCommand, vars

LEMMA OneFault ==
    ASSUME [Next]_vars
    PROVE  UNCHANGED faults \/ \E kind \in Faults : Fault(kind)
BY FaultOrReboot DEF Reboot, Fault

LEMMA CountType == TypeOK => \A kinds : Count(kinds) \in Nat
<1> SUFFICES ASSUME TypeOK, NEW kinds PROVE Count(kinds) \in Nat
  OBVIOUS
<1>1. IsFiniteSet({i \in 1..Len(faults) : faults[i] \in kinds})
  BY FS_Subset, FS_Interval DEF TypeOK
<1> QED
  BY <1>1, FS_CardinalityType DEF Count

\* A fault is one more of its kind, and one more since the last reboot unless it is
\* one.
LEMMA CountSteps ==
    ASSUME TypeOK, NEW kinds, NEW kind, Fault(kind)
    PROVE  /\ Count(kinds) \in Nat /\ SinceReboot(kinds) \in Nat
           /\ SinceReboot(kinds)' \in Nat
           /\ Count(kinds)' = IF kind \in kinds THEN Count(kinds) + 1 ELSE Count(kinds)
           /\ kind # "reboot" => SinceReboot(kinds)' =
                 IF kind \in kinds THEN SinceReboot(kinds) + 1 ELSE SinceReboot(kinds)
<1> DEFINE n == Len(faults) + 1
           C == {i \in 1..Len(faults) : faults[i] \in kinds}
           R == {i \in 1..Len(faults) :
                   faults[i] \in kinds /\ \A j \in i..Len(faults) : faults[j] # "reboot"}
<1>1. faults \in Seq(Faults) /\ faults' = Append(faults, kind) /\ Len(faults) \in Nat
  BY DEF TypeOK, Fault
<1>2. /\ Len(faults') = n /\ faults'[n] = kind
      /\ \A i \in 1..Len(faults) : faults'[i] = faults[i]
  BY <1>1 DEF Fault
<1>3. C' = IF kind \in kinds THEN C \cup {n} ELSE C
  BY <1>1, <1>2
<1>4. kind # "reboot" => R' = IF kind \in kinds THEN R \cup {n} ELSE R
  <2> SUFFICES ASSUME kind # "reboot", NEW i
               PROVE  i \in R' <=> i \in R \/ (i = n /\ kind \in kinds)
    BY <1>1
  <2>1. CASE i \in 1..Len(faults)
    <3>1. i # n /\ i..n = (i..Len(faults)) \cup {n}
      BY <1>1, <2>1
    <3>2. \A j \in i..Len(faults) : faults'[j] = faults[j]
      BY <1>1, <1>2, <2>1
    <3> QED
      BY <1>1, <1>2, <2>1, <3>1, <3>2
  <2>2. CASE i \notin 1..Len(faults)
    <3>1. i \in 1..n <=> i = n
      BY <1>1, <2>2
    <3>2. n..n = {n}
      BY <1>1
    <3> QED
      BY <1>1, <1>2, <2>2, <3>1, <3>2
  <2> QED
    BY <2>1, <2>2
<1>5. /\ IsFiniteSet(C) /\ IsFiniteSet(R) /\ IsFiniteSet(R')
      /\ n \notin C /\ n \notin R
  <2>1. IsFiniteSet(1..Len(faults)) /\ IsFiniteSet(1..n)
    BY <1>1, FS_Interval
  <2> QED
    BY <1>1, <1>2, <2>1, FS_Subset
<1>6. /\ Count(kinds) = Cardinality(C) /\ Count(kinds)' = Cardinality(C')
      /\ SinceReboot(kinds) = Cardinality(R) /\ SinceReboot(kinds)' = Cardinality(R')
  BY DEF Count, SinceReboot
<1> HIDE DEF n, C, R
<1> QED
  BY <1>3, <1>4, <1>5, <1>6, FS_AddElement, FS_CardinalityType

\* A set with one more element has one more element at most.
LEMMA OneMore ==
    ASSUME NEW S, NEW T, IsFiniteSet(S)
    PROVE  /\ Cardinality(S) \in Nat
           /\ T \subseteq S => IsFiniteSet(T) /\ Cardinality(T) \in Nat
                                              /\ Cardinality(T) <= Cardinality(S)
           /\ \A k : T \subseteq S \cup {k}
                  => IsFiniteSet(T) /\ Cardinality(T) \in Nat
                                    /\ Cardinality(T) <= Cardinality(S) + 1
<1>1. Cardinality(S) \in Nat
  BY FS_CardinalityType
<1>2. ASSUME T \subseteq S
      PROVE  IsFiniteSet(T) /\ Cardinality(T) \in Nat /\ Cardinality(T) <= Cardinality(S)
  BY <1>2, FS_Subset, FS_CardinalityType
<1>3. ASSUME NEW k, T \subseteq S \cup {k}
      PROVE  IsFiniteSet(T) /\ Cardinality(T) \in Nat /\ Cardinality(T) <= Cardinality(S) + 1
  <2>1. /\ IsFiniteSet(S \cup {k}) /\ Cardinality(S \cup {k}) <= Cardinality(S) + 1
        /\ Cardinality(S \cup {k}) \in Nat
    <3>1. /\ IsFiniteSet(S \cup {k})
          /\ Cardinality(S \cup {k}) = IF k \in S THEN Cardinality(S) ELSE Cardinality(S) + 1
      BY FS_AddElement
    <3> QED
      BY <1>1, <3>1
  <2>2. IsFiniteSet(T) /\ Cardinality(T) \in Nat /\ Cardinality(T) <= Cardinality(S \cup {k})
    BY <1>3, <2>1, FS_Subset, FS_CardinalityType
  <2> QED
    BY <1>1, <2>1, <2>2
<1> QED
  BY <1>1, <1>2, <1>3

\* What only a fault of these kinds adds to, one at a time, is no more than they are.
LEMMA Counted ==
    ASSUME TypeOK, [Next]_vars, NEW kinds, NEW S, NEW T, IsFiniteSet(S),
           Cardinality(S) <= Count(kinds),
           \/ T \subseteq S
           \/ \E kind \in kinds : \E k : Fault(kind) /\ T \subseteq S \cup {k}
    PROVE  Cardinality(T) <= Count(kinds)'
<1>1. Cardinality(S) \in Nat
  BY FS_CardinalityType
<1>2. CASE T \subseteq S
  <2>1. Cardinality(T) \in Nat /\ Cardinality(T) <= Cardinality(S)
    BY <1>2, OneMore
  <2>2. CASE UNCHANGED faults
    <3>1. Count(kinds)' = Count(kinds) /\ Count(kinds) \in Nat
      BY <2>2, CountType DEF Count
    <3> QED
      BY <1>1, <2>1, <3>1
  <2>3. ASSUME NEW kind \in Faults, Fault(kind) PROVE Cardinality(T) <= Count(kinds)'
    <3>1. Count(kinds) \in Nat /\ (Count(kinds)' = Count(kinds)
                                   \/ Count(kinds)' = Count(kinds) + 1)
      BY <2>3, CountSteps
    <3> QED
      BY <1>1, <2>1, <3>1
  <2> QED
    BY <2>2, <2>3, OneFault
<1>3. ASSUME NEW kind \in kinds, NEW k, Fault(kind), T \subseteq S \cup {k}
      PROVE  Cardinality(T) <= Count(kinds)'
  <2>1. Cardinality(T) \in Nat /\ Cardinality(T) <= Cardinality(S) + 1
    BY <1>3, OneMore
  <2>2. Count(kinds) \in Nat /\ Count(kinds)' = Count(kinds) + 1
    BY <1>3, CountSteps
  <2> QED
    BY <1>1, <2>1, <2>2
<1> QED
  BY <1>2, <1>3

-----------------------------------------------------------------------------
(* The running interface and the conf file.  A peer that is up has its block *)
(* in the file, but for one that each failure of awg under a removal has     *)
(* left up since the last reboot.                                            *)

LeftUp == live \ InConf

OutInv == Cardinality(LeftUp) <= SinceReboot({"awg"})

\* The steps that touch the server, and nothing else does.
LEMMA ServerSteps ==
    ASSUME [Next]_vars
    PROVE  \/ UNCHANGED serverVars
           \/ \E w \in Worker : \/ CreateAddPeer(w) \/ CreateAddPeerAwgFails(w)
                                \/ CreateCleanUp(w) \/ DeleteRemovePeer(w)
                                \/ \E k \in Key : DisableRemovePeer(w, k)
           \/ \E op \in {"add", "remove"}, k \in Key : LateCommand(op, k)
           \/ Reboot
<1>1. ASSUME NEW w \in Worker, Request(w) PROVE UNCHANGED serverVars
  BY <1>1 DEF Request, CreateGetUser, DisableSet, AddUpsertUser, DeletePress, SetLimit
<1>2. ASSUME NEW w \in Worker, WorkerStep(w),
             ~ CreateAddPeer(w), ~ CreateAddPeerAwgFails(w), ~ CreateCleanUp(w),
             ~ DeleteRemovePeer(w), ~ \E k \in Key : DisableRemovePeer(w, k)
      PROVE  UNCHANGED serverVars
  BY <1>2 DEF WorkerStep, CreateHasAccess, CreateCheckLimit, CreateAllocate,
              CreateAllocateFails, CreateAddPeerFails, CreateSave, CreateSaveFails,
              DeleteGetPeer, DeleteRevoke, DisableList, DisableRevoke, DisableDone,
              AddGrantAccess, ReadFails
<1> QED
  BY <1>1, <1>2 DEF Next, Crash, vars

\* A removal leaves its own peer up, when awg fails under it, or none.
LEMMA RemovalLeaves ==
    ASSUME TypeOK, NEW k \in Key, RemovePeer(k) \/ RemovePeerFails(k)
    PROVE  LeftUp' \subseteq LeftUp \/ (Fault("awg") /\ LeftUp' \subseteq LeftUp \cup {k})
<1>1. CASE UNCHANGED serverVars
  BY <1>1 DEF serverVars, LeftUp, InConf
<1>2. CASE line[k] # 0 /\ CutBlock(k) /\ AwgRemovePeer(k)
  BY <1>2, CutEffect DEF AwgRemovePeer, LeftUp, InConf
<1>3. CASE PeerRemoveAwgFails(k)
  BY <1>3, CutEffect DEF PeerRemoveAwgFails, LeftUp, InConf
<1> QED
  BY <1>1, <1>2, <1>3 DEF RemovePeer, RemovePeerFails, PeerRemove

\* A step leaves one more peer up at most, and then awg has failed.
LEMMA OneLeftUp ==
    ASSUME TypeOK, [Next]_vars
    PROVE  \/ LeftUp' \subseteq LeftUp
           \/ \E k : Fault("awg") /\ LeftUp' \subseteq LeftUp \cup {k}
           \/ Reboot
<1> DEFINE Goal == \/ LeftUp' \subseteq LeftUp
                   \/ \E k : Fault("awg") /\ LeftUp' \subseteq LeftUp \cup {k}
<1>1. ASSUME NEW k \in Key, PeerAdd(k) PROVE LeftUp' \subseteq LeftUp
  BY <1>1, AppendEffect DEF PeerAdd, AwgSetPeer, LeftUp, InConf
<1>2. ASSUME NEW w \in Worker, CreateAddPeer(w) \/ CreateAddPeerAwgFails(w)
      PROVE  LeftUp' \subseteq LeftUp
  <2>1. job[w].key \in Key
    BY <1>2 DEF CreateAddPeer, CreateAddPeerAwgFails, At, TypeOK, KeyStage
  <2>2. AppendBlock(job[w].key) /\ UNCHANGED live => LeftUp' \subseteq LeftUp
    BY <2>1, AppendEffect DEF LeftUp, InConf
  <2> QED
    BY <1>1, <1>2, <2>1, <2>2 DEF CreateAddPeer, CreateAddPeerAwgFails
<1>3. ASSUME NEW k \in Key, RemovePeer(k) \/ RemovePeerFails(k) PROVE Goal
  BY <1>3, RemovalLeaves
<1>4. ASSUME NEW w \in Worker, \/ CreateCleanUp(w) \/ DeleteRemovePeer(w)
                               \/ \E k \in Key : DisableRemovePeer(w, k)
      PROVE  Goal
  <2>1. \E k \in Key : RemovePeer(k) \/ RemovePeerFails(k)
    BY <1>4 DEF CreateCleanUp, DeleteRemovePeer, DisableRemovePeer, At, TypeOK, KeyStage
  <2> QED
    BY <1>3, <2>1
<1>5. ASSUME NEW op \in {"add", "remove"}, NEW k \in Key, LateCommand(op, k)
      PROVE  LeftUp' \subseteq LeftUp
  <2>1. CASE PeerRemove(k)
    <3>1. CASE UNCHANGED serverVars
      BY <3>1 DEF serverVars, LeftUp, InConf
    <3>2. CASE line[k] # 0 /\ CutBlock(k) /\ AwgRemovePeer(k)
      BY <3>2, CutEffect DEF AwgRemovePeer, LeftUp, InConf
    <3> QED
      BY <2>1, <3>1, <3>2 DEF PeerRemove
  <2> QED
    BY <1>1, <1>5, <2>1 DEF LateCommand
<1>6. CASE UNCHANGED serverVars
  BY <1>6 DEF serverVars, LeftUp, InConf
<1> QED
  BY <1>2, <1>4, <1>5, <1>6, ServerSteps

LEMMA OutStep == TypeOK /\ OutInv /\ [Next]_vars => OutInv'
<1> SUFFICES ASSUME TypeOK, OutInv, [Next]_vars PROVE OutInv'
  OBVIOUS
<1> DEFINE R == SinceReboot({"awg"})
<1>1. IsFiniteSet(LeftUp)
  BY FS_Subset DEF LeftUp, TypeOK
<1>2. Cardinality(LeftUp) \in Nat /\ Cardinality(LeftUp) <= R
  BY <1>1, FS_CardinalityType DEF OutInv
<1>3. R \in Nat
  <2>1. IsFiniteSet(1..Len(faults))
    BY FS_Interval DEF TypeOK
  <2> QED
    BY <2>1, FS_Subset, FS_CardinalityType DEF SinceReboot
<1>4. CASE Reboot
  <2>1. LeftUp' = {} /\ Fault("reboot")
    BY <1>4 DEF Reboot, LeftUp, InConf
  <2>2. Cardinality(LeftUp') = 0
    BY <2>1, FS_EmptySet
  <2>3. R' \in Nat
    BY <2>1, CountSteps
  <2> QED
    BY <2>2, <2>3 DEF OutInv
<1>5. CASE ~ Reboot
  <2>1. CASE LeftUp' \subseteq LeftUp
    <3>1. Cardinality(LeftUp') \in Nat /\ Cardinality(LeftUp') <= Cardinality(LeftUp)
      BY <1>1, <2>1, OneMore
    <3>2. CASE UNCHANGED faults
      <4>1. R' = R
        BY <3>2 DEF SinceReboot
      <4> QED
        BY <1>2, <1>3, <3>1, <4>1 DEF OutInv
    <3>3. ASSUME NEW kind, kind # "reboot", Fault(kind) PROVE OutInv'
      <4>1. R' = R \/ R' = R + 1
        BY <3>3, CountSteps
      <4> QED
        BY <1>2, <1>3, <3>1, <4>1 DEF OutInv
    <3> QED
      BY <1>5, <3>2, <3>3, FaultOrReboot
  <2>2. ASSUME NEW k, Fault("awg"), LeftUp' \subseteq LeftUp \cup {k} PROVE OutInv'
    <3>1. Cardinality(LeftUp') \in Nat /\ Cardinality(LeftUp') <= Cardinality(LeftUp) + 1
      BY <1>1, <2>2, OneMore
    <3>2. R' = R + 1
      BY <2>2, CountSteps
    <3> QED
      BY <1>2, <1>3, <3>1, <3>2 DEF OutInv
  <2> QED
    BY <1>5, <2>1, <2>2, OneLeftUp
<1> QED
  BY <1>4, <1>5

\* For any number of workers and whatever fails: of the peers whose row is revoked no
\* more are up than awg has failed times since the last reboot, RevokedStaysOut.
THEOREM RevokedAreOut == Spec => []RevokedStaysOut
<1>1. Init => OutInv
  <2> SUFFICES ASSUME Init PROVE OutInv
    OBVIOUS
  <2>1. LeftUp = {} /\ IsFiniteSet(1..Len(faults))
    BY FS_Interval DEF Init, LeftUp
  <2>2. SinceReboot({"awg"}) \in Nat
    BY <2>1, FS_Subset, FS_CardinalityType DEF SinceReboot
  <2> QED
    BY <2>1, <2>2, FS_EmptySet DEF OutInv
<1>2. TypeOK /\ Inv /\ OutInv => RevokedStaysOut
  <2> SUFFICES ASSUME TypeOK, Inv, OutInv PROVE RevokedStaysOut
    OBVIOUS
  <2> DEFINE S == {k \in live : row[k] = "revoked"}
  <2>1. S \subseteq LeftUp /\ IsFiniteSet(LeftUp)
    BY FS_Subset DEF Inv, KeyInv, LeftUp, InConf, TypeOK
  <2>2. /\ Cardinality(S) \in Nat /\ Cardinality(S) <= Cardinality(LeftUp)
        /\ Cardinality(LeftUp) \in Nat
    BY <2>1, OneMore
  <2>3. SinceReboot({"awg"}) \in Nat
    <3>1. IsFiniteSet(1..Len(faults))
      BY FS_Interval DEF TypeOK
    <3> QED
      BY <3>1, FS_Subset, FS_CardinalityType DEF SinceReboot
  <2>4. Cardinality(S) <= SinceReboot({"awg"})
    BY <2>2, <2>3 DEF OutInv
  <2> QED
    BY <2>4 DEF RevokedStaysOut
<1> QED
  BY <1>1, <1>2, OutStep, Invariance, PTL DEF Spec

-----------------------------------------------------------------------------
(* Orphans.  A block without an active row is in the hands of the worker     *)
(* that made it, or a fault that CreateConfig does not make good left it.    *)

\* Worker w has made the peer of key k and has not let it go.
Keeps(w, k) == job[w].at \in {"save", "clean"} /\ job[w].key = k

\* The blocks that nobody will undo, and the adds that may still bring one.
Stray ==
    {k \in Key : \/ line[k] # 0 /\ row[k] # "active" /\ ~ \E w \in Worker : Keeps(w, k)
                 \/ <<"add", k>> \in late}

OrphanInv == Cardinality(Stray) <= Count(NotUndone)

\* Worker w leaves the peer of key k behind.
Leaves(w, k) ==
    /\ job[w].key = k
    /\ \/ CreateAddPeerAwgFails(w) \/ CreateAddPeerFails(w) \/ Crash(w)
       \/ CreateCleanUp(w) /\ Fault("ssh")

\* Rows are never deleted.
LEMMA RowsStay ==
    ASSUME TypeOK, Inv, NEW k \in Key, row[k] # "none", [Next]_vars
    PROVE  row'[k] # "none"
<1>1. ASSUME NEW w \in Worker, CreateSave(w) \/ CreateSaveFails(w) PROVE row'[k] # "none"
  BY <1>1 DEF CreateSave, CreateSaveFails, TypeOK
<1>2. ASSUME NEW w \in Worker, DeleteRevoke(w) \/ DisableRevoke(w) PROVE row'[k] # "none"
  BY <1>2 DEF DeleteRevoke, DisableRevoke, RevokePeer, TypeOK
<1>3. ASSUME NEW w \in Worker, Request(w) PROVE UNCHANGED row
  BY <1>3 DEF Request, CreateGetUser, DisableSet, AddUpsertUser, DeletePress, SetLimit, dbVars
<1>4. ASSUME NEW w \in Worker, WorkerStep(w), ~ CreateSave(w), ~ CreateSaveFails(w),
             ~ DeleteRevoke(w), ~ DisableRevoke(w)
      PROVE  UNCHANGED row
  BY <1>4
  DEF WorkerStep, CreateHasAccess, CreateCheckLimit, CreateAllocate,
      CreateAllocateFails, CreateAddPeer, CreateAddPeerAwgFails,
      CreateAddPeerFails, CreateCleanUp, DeleteGetPeer, DeleteRemovePeer,
      DisableList, DisableRemovePeer, DisableDone, AddGrantAccess, ReadFails, dbVars
<1> QED
  BY <1>1, <1>2, <1>3, <1>4 DEF Next, Crash, LateCommand, Reboot, vars, dbVars

\* An active row whose block is in the file stays active while the block is there.
LEMMA ActiveOrCut ==
    ASSUME TypeOK, Inv, NEW k \in Key, row[k] = "active", [Next]_vars, line'[k] # 0
    PROVE  row'[k] = "active"
<1>1. row'[k] # "none"
  BY RowsStay
<1>2. row'[k] # "revoked"
  BY NextInv DEF Inv, KeyInv
<1>3. TypeOK'
  BY NextType
<1> QED
  BY <1>1, <1>2, <1>3 DEF TypeOK

\* Without an SSH failure or a crash no command is abandoned.
LEMMA NothingLate ==
    ASSUME TypeOK, [Next]_vars, late = {}, Spared({"ssh", "crash"})'
    PROVE  late' = {}
<1>1. \A w : ~ CreateAddPeerFails(w) /\ ~ Crash(w)
  BY FaultSpends DEF CreateAddPeerFails, Crash
<1>2. \A k : ~ RemovePeerFails(k)
  BY FaultSpends DEF RemovePeerFails
<1>3. ASSUME NEW w \in Worker, Request(w) PROVE UNCHANGED late
  BY <1>3 DEF Request, CreateGetUser, DisableSet, AddUpsertUser, DeletePress, SetLimit
<1>4. ASSUME NEW w \in Worker, CreateCleanUp(w) \/ DeleteRemovePeer(w)
                              \/ \E k \in Key : DisableRemovePeer(w, k)
      PROVE  UNCHANGED late
  BY <1>2, <1>4 DEF CreateCleanUp, DeleteRemovePeer, DisableRemovePeer, RemovePeer
<1>5. ASSUME NEW w \in Worker, WorkerStep(w) PROVE UNCHANGED late
  BY <1>1, <1>4, <1>5
  DEF WorkerStep, CreateHasAccess, CreateCheckLimit, CreateAllocate,
      CreateAllocateFails, CreateAddPeer, CreateAddPeerAwgFails, CreateSave,
      CreateSaveFails, DeleteGetPeer, DeleteRevoke, DisableList, DisableRevoke,
      DisableDone, AddGrantAccess, ReadFails
<1> QED
  BY <1>1, <1>3, <1>5 DEF Next, LateCommand, Reboot, vars

\* An add is abandoned when the call fails or the bot stops.
LEMMA AddAbandoned ==
    ASSUME TypeOK, [Next]_vars, NEW k \in Key, <<"add", k>> \in late', <<"add", k>> \notin late
    PROVE  \E w \in Worker : job[w].key = k /\ (CreateAddPeerFails(w) \/ Crash(w))
<1>1. ASSUME NEW w \in Worker, Request(w) PROVE FALSE
  BY <1>1 DEF Request, CreateGetUser, DisableSet, AddUpsertUser, DeletePress, SetLimit
<1>2. ASSUME NEW h \in Key, RemovePeer(h) \/ RemovePeerFails(h) PROVE FALSE
  BY <1>2 DEF RemovePeer, RemovePeerFails
<1>3. ASSUME NEW w \in Worker, CreateCleanUp(w) \/ DeleteRemovePeer(w)
                              \/ \E h \in Key : DisableRemovePeer(w, h)
      PROVE  FALSE
  BY <1>2, <1>3 DEF CreateCleanUp, DeleteRemovePeer, DisableRemovePeer, At, TypeOK, KeyStage
<1>4. ASSUME NEW w \in Worker, WorkerStep(w)
      PROVE  CreateAddPeerFails(w) /\ job[w].key = k
  <2>1. CreateAddPeerFails(w)
    BY <1>3, <1>4
    DEF WorkerStep, CreateHasAccess, CreateCheckLimit, CreateAllocate,
        CreateAllocateFails, CreateAddPeer, CreateAddPeerAwgFails, CreateSave,
        CreateSaveFails, DeleteGetPeer, DeleteRevoke, DisableList, DisableRevoke,
        DisableDone, AddGrantAccess, ReadFails
  <2> QED
    BY <2>1 DEF CreateAddPeerFails
<1>5. ASSUME NEW w \in Worker, Crash(w) PROVE job[w].key = k
  <2>1. <<"add", k>> \in InFlight(w)
    BY <1>5 DEF Crash
  <2> QED
    BY <2>1 DEF InFlight, At
<1> QED
  BY <1>1, <1>4, <1>5 DEF Next, LateCommand, Reboot, vars

\* A block comes into the file with CreateAddPeer, whole or not, or late.
LEMMA BlockAdded ==
    ASSUME TypeOK, [Next]_vars, NEW k \in Key, line[k] = 0, line'[k] # 0
    PROVE  \/ \E w \in Worker : /\ job[w].key = k
                                /\ CreateAddPeer(w) \/ CreateAddPeerAwgFails(w)
           \/ <<"add", k>> \in late /\ row' = row /\ job' = job
<1>1. ASSUME NEW w \in Worker, CreateAddPeer(w) \/ CreateAddPeerAwgFails(w)
      PROVE  job[w].key = k
  <2>1. job[w].key \in Key
    BY <1>1 DEF CreateAddPeer, CreateAddPeerAwgFails, At, TypeOK, KeyStage
  <2> QED
    BY <1>1, <2>1, AppendEffect DEF CreateAddPeer, CreateAddPeerAwgFails, PeerAdd
<1>2. ASSUME NEW j \in Key, RemovePeer(j) \/ RemovePeerFails(j) PROVE FALSE
  BY <1>2, RemovePeerEffect, RemovePeerFailsEffect
<1>3. ASSUME NEW w \in Worker, CreateCleanUp(w) \/ DeleteRemovePeer(w)
                              \/ \E j \in Key : DisableRemovePeer(w, j)
      PROVE  FALSE
  BY <1>2, <1>3
  DEF CreateCleanUp, DeleteRemovePeer, DisableRemovePeer, At, TypeOK, KeyStage
<1>4. ASSUME NEW op \in {"add", "remove"}, NEW j \in Key, LateCommand(op, j)
      PROVE  <<"add", k>> \in late /\ row' = row /\ job' = job
  <2>1. CASE PeerRemove(j)
    BY <2>1, PeerRemoveEffect
  <2>2. CASE op = "add" /\ PeerAdd(j)
    <3>1. j = k
      BY <2>2, AppendEffect DEF PeerAdd
    <3> QED
      BY <1>4, <2>2, <3>1 DEF LateCommand, dbVars
  <2> QED
    BY <1>4, <2>1, <2>2 DEF LateCommand, dbVars
<1> QED
  BY <1>1, <1>3, <1>4, ServerSteps DEF serverVars, Reboot

\* A step of one worker leaves the others to what they are doing.
LEMMA OthersStay ==
    ASSUME TypeOK, NEW v \in Worker, NEW w \in Worker \ {v},
           Request(v) \/ WorkerStep(v) \/ Crash(v)
    PROVE  job'[w] = job[w]
<1>1. ASSUME NEW task, Take(v, task) PROVE job'[w] = job[w]
  BY <1>1, TakeEffect
<1>2. ASSUME NEW stage, Goto(v, stage) PROVE job'[w] = job[w]
  BY <1>2, GotoEffect
<1>3. CASE Return(v)
  BY <1>1, <1>3 DEF Return
<1> QED
  BY <1>1, <1>2, <1>3
  DEF Request, CreateGetUser, DisableSet, AddUpsertUser, DeletePress, SetLimit,
      WorkerStep, CreateHasAccess, CreateCheckLimit, CreateAllocate,
      CreateAllocateFails, CreateAddPeer, CreateAddPeerAwgFails,
      CreateAddPeerFails, CreateSave, CreateSaveFails, CreateCleanUp,
      DeleteGetPeer, DeleteRemovePeer, DeleteRevoke, DisableList,
      DisableRemovePeer, DisableRevoke, DisableDone, AddGrantAccess, ReadFails, Crash

\* Who keeps a peer keeps it, has saved it or removed it, or leaves it behind.
LEMMA KeptOrDone ==
    ASSUME TypeOK, Inv, [Next]_vars,
           NEW w \in Worker, NEW k \in Key, Keeps(w, k), line'[k] # 0
    PROVE  Keeps(w, k)' \/ row'[k] = "active" \/ Leaves(w, k)
<1>1. CASE job'[w] = job[w]
  BY <1>1 DEF Keeps
<1>2. ASSUME NEW v \in Worker, Request(v) \/ WorkerStep(v) \/ Crash(v), v # w
      PROVE  job'[w] = job[w]
  BY <1>2, OthersStay
<1>3. CASE CreateSave(w)
  BY <1>3 DEF CreateSave, Keeps, TypeOK
<1>4. CASE CreateSaveFails(w)
  BY <1>4, GotoEffect DEF CreateSaveFails, Keeps
<1>5. CASE CreateCleanUp(w)
  <2>1. ~ RemovePeer(k)
    BY RemovePeerEffect
  <2>2. Fault("ssh")
    BY <1>5, <2>1 DEF CreateCleanUp, Keeps, RemovePeerFails
  <2> QED
    BY <1>5, <2>2 DEF Leaves, Keeps
<1>6. ~ Request(w)
  <2>1. job[w] # Idle
    BY DEF Keeps, Idle, Task
  <2> QED
    BY <2>1
    DEF Request, CreateGetUser, DisableSet, AddUpsertUser, DeletePress, SetLimit
<1>7. WorkerStep(w) => CreateSave(w) \/ CreateSaveFails(w) \/ CreateCleanUp(w)
  BY DEF Keeps, At, WorkerStep, CreateHasAccess, CreateCheckLimit, CreateAllocate,
         CreateAllocateFails, CreateAddPeer, CreateAddPeerAwgFails,
         CreateAddPeerFails, DeleteGetPeer, DeleteRemovePeer, DeleteRevoke, DisableList,
         DisableRemovePeer, DisableRevoke, DisableDone, AddGrantAccess, ReadFails
<1>8. Crash(w) => Leaves(w, k)
  BY DEF Leaves, Keeps
<1> QED
  BY <1>1, <1>2, <1>3, <1>4, <1>5, <1>6, <1>7, <1>8 DEF Next, LateCommand, Reboot, vars

\* What becomes stray a worker has left behind.
LEMMA NewStray ==
    ASSUME TypeOK, Inv, [Next]_vars, NEW k \in Key, k \in Stray', k \notin Stray
    PROVE  \E w \in Worker : Leaves(w, k)
<1>1. CASE <<"add", k>> \in late'
  BY <1>1, AddAbandoned DEF Stray, Leaves
<1>2. CASE line'[k] # 0 /\ row'[k] # "active" /\ ~ \E w \in Worker : Keeps(w, k)'
  <2>1. CASE line[k] = 0
    <3>1. ASSUME NEW w \in Worker, CreateAddPeer(w), job[w].key = k PROVE FALSE
      BY <1>2, <3>1, GotoEffect DEF CreateAddPeer, Keeps
    <3>2. <<"add", k>> \notin late
      BY DEF Stray
    <3>3. line'[k] # 0
      BY <1>2
    <3>4. \E w \in Worker : job[w].key = k /\ (CreateAddPeer(w) \/ CreateAddPeerAwgFails(w))
      BY <2>1, <3>2, <3>3, BlockAdded
    <3>5. PICK w \in Worker : job[w].key = k /\ (CreateAddPeer(w) \/ CreateAddPeerAwgFails(w))
      BY <3>4
    <3>6. ~ CreateAddPeer(w)
      BY <3>1, <3>5
    <3> QED
      BY <3>5, <3>6 DEF Leaves
  <2>2. CASE line[k] # 0
    <3>1. row[k] # "active"
      BY <1>2, ActiveOrCut
    <3>2. PICK w \in Worker : Keeps(w, k)
      BY <2>2, <3>1 DEF Stray
    <3> QED
      BY <1>2, <3>2, KeptOrDone
  <2> QED
    BY <2>1, <2>2
<1> QED
  BY <1>1, <1>2 DEF Stray

\* One step leaves one peer behind at most, by one of these faults.
LEMMA OneStray ==
    ASSUME TypeOK, Inv, [Next]_vars
    PROVE  \/ Stray' \subseteq Stray
           \/ \E kind \in NotUndone : \E k : Fault(kind) /\ Stray' \subseteq Stray \cup {k}
<1>1. ASSUME NEW v \in Worker, NEW w \in Worker, NEW j, NEW k, Leaves(v, j), Leaves(w, k)
      PROVE  j = k
  <2>1. job[w] # Idle /\ Return(w) /\ Return(v)
    BY <1>1 DEF Leaves, CreateAddPeerAwgFails, CreateAddPeerFails, CreateCleanUp, Crash,
                At, Idle, Task
  <2>2. v = w
    BY <2>1, TakeEffect DEF Return
  <2> QED
    BY <1>1, <2>2 DEF Leaves
<1>2. ASSUME NEW w, NEW k, Leaves(w, k) PROVE \E kind \in NotUndone : Fault(kind)
  BY <1>2 DEF Leaves, CreateAddPeerAwgFails, CreateAddPeerFails, Crash, NotUndone
<1>3. CASE \E w \in Worker, k \in Key : Leaves(w, k)
  <2>1. PICK w \in Worker, k \in Key : Leaves(w, k)
    BY <1>3
  <2>2. Stray' \subseteq Stray \cup {k}
    <3> SUFFICES ASSUME NEW j \in Stray', j \notin Stray PROVE j = k
      OBVIOUS
    <3>1. j \in Key
      BY DEF Stray
    <3> QED
      BY <1>1, <2>1, <3>1, NewStray
  <2> QED
    BY <1>2, <2>1, <2>2
<1>4. CASE ~ \E w \in Worker, k \in Key : Leaves(w, k)
  <2>1. Stray' \subseteq Key
    BY DEF Stray
  <2> QED
    BY <1>4, <2>1, NewStray
<1> QED
  BY <1>3, <1>4

LEMMA StrayFinite == IsFiniteSet(Stray)
BY FS_Subset DEF Stray

\* Without a fault of these kinds there are none.
LEMMA NoneAtFirst ==
    ASSUME Init, NEW kinds
    PROVE  Count(kinds) = 0
<1>1. {i \in 1..Len(faults) : faults[i] \in kinds} = {}
  BY DEF Init
<1> QED
  BY <1>1, FS_EmptySet DEF Count

\* OrphanInv holds for any number of workers.
LEMMA OrphanInvAlways == Spec => []OrphanInv
<1>1. Init => OrphanInv
  <2> SUFFICES ASSUME Init PROVE OrphanInv
    OBVIOUS
  <2>1. Stray = {}
    BY DEF Init, Stray
  <2> QED
    BY <2>1, NoneAtFirst, FS_EmptySet DEF OrphanInv
<1>2. TypeOK /\ Inv /\ OrphanInv /\ [Next]_vars => OrphanInv'
  BY OneStray, StrayFinite, Counted DEF OrphanInv
<1> QED
  BY <1>1, <1>2, Invariance, PTL DEF Spec

\* For any number of workers and whatever fails: between two updates no more blocks are
\* without an active row than CreateConfig has met faults it does not make good,
\* OneOrphanPerFault.
THEOREM NothingOrphaned == Spec => []OneOrphanPerFault
<1>1. TypeOK /\ OrphanInv => OneOrphanPerFault
  <2> SUFFICES ASSUME TypeOK, OrphanInv, \A w \in Worker : job[w] = Idle
               PROVE  Cardinality({k \in InConf : row[k] # "active"}) <= Count(NotUndone)
    BY DEF OneOrphanPerFault
  <2> DEFINE S == {k \in InConf : row[k] # "active"}
  <2>1. S \subseteq Stray
    BY DEF Stray, Keeps, Idle, Task, InConf
  <2>3. Count(NotUndone) \in Nat
    BY CountType
  <2>4. /\ Cardinality(S) \in Nat /\ Cardinality(S) <= Cardinality(Stray)
        /\ Cardinality(Stray) \in Nat
    BY <2>1, StrayFinite, OneMore
  <2>5. Cardinality(Stray) <= Count(NotUndone)
    BY DEF OrphanInv
  <2> QED
    BY <2>3, <2>4, <2>5
<1> QED
  BY <1>1, OrphanInvAlways, TypeCorrect, PTL

-----------------------------------------------------------------------------
(* Addresses on the server, with one worker.                                 *)

FreshInv == \A k \in Key : owner[k] = None => line[k] = 0

\* A key that has not been generated has no block.
LEMMA FreshStep == TypeOK /\ Inv /\ FreshInv /\ [Next]_vars => FreshInv'
<1> SUFFICES ASSUME TypeOK, Inv, FreshInv, [Next]_vars, NEW k \in Key, owner'[k] = None
             PROVE  line'[k] = 0
  BY DEF FreshInv
<1>1. owner[k] = None /\ line[k] = 0
  BY OwnerStays DEF FreshInv
<1>2. ASSUME NEW j \in Key, RemovePeer(j) \/ RemovePeerFails(j) PROVE line'[k] = 0
  BY <1>1, <1>2, RemovePeerEffect, RemovePeerFailsEffect
<1>3. ASSUME NEW w \in Worker, CreateCleanUp(w) \/ DeleteRemovePeer(w)
                              \/ \E j \in Key : DisableRemovePeer(w, j)
      PROVE  line'[k] = 0
  BY <1>2, <1>3
  DEF CreateCleanUp, DeleteRemovePeer, DisableRemovePeer, At, TypeOK, KeyStage
<1>4. ASSUME NEW w \in Worker, CreateAddPeer(w) \/ CreateAddPeerAwgFails(w)
      PROVE  line'[k] = 0
  <2>1. job[w].key \in Key \ {k}
    BY <1>1, <1>4 DEF CreateAddPeer, CreateAddPeerAwgFails, At, TypeOK, KeyStage,
                      Inv, WorkerInv
  <2> QED
    BY <1>1, <1>4, <2>1, AppendEffect DEF CreateAddPeer, CreateAddPeerAwgFails, PeerAdd
<1>5. ASSUME NEW op \in {"add", "remove"}, NEW j \in Key, LateCommand(op, j)
      PROVE  line'[k] = 0
  <2>1. CASE op = "add"
    <3>1. j # k
      BY <1>1, <1>5, <2>1 DEF LateCommand, Inv, KeyInv
    <3> QED
      BY <1>1, <1>5, <2>1, <3>1, AppendEffect DEF LateCommand, PeerAdd
  <2>2. CASE op = "remove"
    BY <1>1, <1>5, <2>2, PeerRemoveEffect DEF LateCommand
  <2> QED
    BY <2>1, <2>2
<1> QED
  BY <1>1, <1>3, <1>4, <1>5, ServerSteps DEF serverVars, Reboot

LEMMA FreshAlways == Spec => []FreshInv
<1>1. Init => FreshInv
  BY DEF Init, FreshInv
<1> QED
  BY <1>1, FreshStep, Invariance, PTL DEF Spec

\* The address of a key is drawn with the key and stays.
LEMMA AddressStays ==
    ASSUME TypeOK, [Next]_vars, NEW k \in Key, owner[k] # None
    PROVE  addr'[k] = addr[k]
<1>1. ASSUME NEW w \in Worker, CreateAllocate(w) PROVE addr'[k] = addr[k]
  BY <1>1 DEF CreateAllocate, TypeOK
<1>2. ASSUME NEW w \in Worker, Request(w) PROVE UNCHANGED addr
  BY <1>2 DEF Request, CreateGetUser, DisableSet, AddUpsertUser, DeletePress,
              SetLimit, issueVars
<1>3. ASSUME NEW w \in Worker, WorkerStep(w), ~ CreateAllocate(w) PROVE UNCHANGED addr
  BY <1>3
  DEF WorkerStep, CreateHasAccess, CreateCheckLimit, CreateAllocateFails,
      CreateAddPeer, CreateAddPeerAwgFails, CreateAddPeerFails, CreateSave,
      CreateSaveFails, CreateCleanUp, DeleteGetPeer, DeleteRemovePeer, DeleteRevoke,
      DisableList, DisableRemovePeer, DisableRevoke, DisableDone, AddGrantAccess,
      ReadFails, issueVars
<1> QED
  BY <1>1, <1>2, <1>3 DEF Next, Crash, LateCommand, Reboot, vars, issueVars

\* The blocks that are not stray have addresses of their own.
ApartInv == \A j, k \in InConf \ Stray : addr[j] = addr[k] => j = k

\* A worker comes to keep a peer by adding it.
LEMMA KeptBefore ==
    ASSUME TypeOK, [Next]_vars, NEW w \in Worker, NEW k, Keeps(w, k)'
    PROVE  Keeps(w, k) \/ (CreateAddPeer(w) /\ job[w].key = k)
<1> USE DEF Keeps
<1>1. ASSUME NEW task, Take(w, task), task.at \notin {"save", "clean"} PROVE FALSE
  BY <1>1, TakeEffect
<1>2. ASSUME NEW stage, Goto(w, stage), stage \notin {"save", "clean"} PROVE FALSE
  BY <1>2, GotoEffect
<1>3. ~ Return(w)
  BY <1>1 DEF Return, Idle, Task
<1>4. ASSUME Request(w) PROVE job'[w] = job[w]
  BY <1>1, <1>4
  DEF Request, CreateGetUser, DisableSet, AddUpsertUser, DeletePress, SetLimit, Task
<1>5. ASSUME WorkerStep(w) PROVE CreateAddPeer(w) \/ CreateSaveFails(w)
  BY <1>1, <1>2, <1>3, <1>5
  DEF WorkerStep, CreateHasAccess, CreateCheckLimit, CreateAllocate,
      CreateAllocateFails, CreateAddPeerAwgFails, CreateAddPeerFails, CreateSave,
      CreateCleanUp, DeleteGetPeer, DeleteRemovePeer, DeleteRevoke,
      DisableList, DisableRemovePeer, DisableRevoke, DisableDone, AddGrantAccess,
      ReadFails, Task
<1>6. ASSUME CreateAddPeer(w) PROVE job[w].key = k
  BY <1>6, GotoEffect DEF CreateAddPeer
<1>7. ASSUME CreateSaveFails(w) PROVE Keeps(w, k)
  BY <1>7, GotoEffect DEF CreateSaveFails, At
<1> QED
  BY <1>3, <1>4, <1>5, <1>6, <1>7, OthersStay DEF Next, Crash, LateCommand, Reboot, vars

\* A block that is not stray was not before, or has just been added.
LEMMA SoundBefore ==
    ASSUME TypeOK, Inv, [Next]_vars, NEW k \in (InConf \ Stray)'
    PROVE  \/ k \in InConf \ Stray
           \/ line[k] = 0 /\ \E w \in Worker : CreateAddPeer(w) /\ job[w].key = k
<1>1. /\ k \in Key /\ line'[k] # 0
      /\ row'[k] = "active" \/ \E w \in Worker : Keeps(w, k)'
  BY DEF InConf, Stray
<1>2. \A w \in Worker : Keeps(w, k) => <<"add", k>> \notin late
  BY DEF Keeps, Inv, WorkerInv
<1>3. CASE line[k] = 0
  <2>1. ASSUME NEW w \in Worker, job[w].key = k, CreateAddPeerAwgFails(w) PROVE FALSE
    <3>1. row[k] = "none" /\ row' = row
      BY <2>1 DEF CreateAddPeerAwgFails, dbVars, At, Inv, WorkerInv
    <3>2. PICK v \in Worker : Keeps(v, k)'
      BY <1>1, <3>1
    <3>3. v # w
      BY <2>1, <3>2, ReturnEffect DEF CreateAddPeerAwgFails, Keeps
    <3>4. Keeps(v, k)
      BY <2>1, <3>2, <3>3, ReturnEffect DEF CreateAddPeerAwgFails, Keeps
    <3> QED
      BY <1>1, <2>1, <3>3, <3>4 DEF CreateAddPeerAwgFails, At, Keeps, Inv, HeldOnce, Holds
  <2>2. ~ (<<"add", k>> \in late /\ row' = row /\ job' = job)
    <3> SUFFICES ASSUME <<"add", k>> \in late, row' = row, job' = job PROVE FALSE
      OBVIOUS
    <3>1. row[k] # "active"
      BY <1>1, <1>3 DEF Inv, KeyInv
    <3>2. PICK w \in Worker : Keeps(w, k)'
      BY <1>1, <3>1
    <3>3. Keeps(w, k)
      BY <3>2 DEF Keeps
    <3> QED
      BY <1>2, <3>3
  <2>3. \E w \in Worker : job[w].key = k /\ (CreateAddPeer(w) \/ CreateAddPeerAwgFails(w))
    BY <1>1, <1>3, <2>2, BlockAdded
  <2>4. PICK w \in Worker : job[w].key = k /\ (CreateAddPeer(w) \/ CreateAddPeerAwgFails(w))
    BY <2>3
  <2> QED
    BY <1>3, <2>1, <2>4
<1>4. CASE line[k] # 0
  <2>1. CASE row'[k] = "active" /\ row[k] = "active"
    BY <1>1, <1>4, <2>1 DEF InConf, Stray, Inv, KeyInv
  <2>2. CASE row'[k] = "active" /\ row[k] # "active"
    <3>1. \E w \in Worker : Keeps(w, k)
      BY <1>1, <2>2, OnlySaveActivates DEF Keeps, At
    <3> QED
      BY <1>1, <1>2, <1>4, <3>1 DEF InConf, Stray
  <2>3. ASSUME NEW w \in Worker, Keeps(w, k)' PROVE k \in InConf \ Stray
    <3>1. Keeps(w, k)
      BY <1>1, <1>4, <2>3, KeptBefore DEF CreateAddPeer, PeerAdd, AppendBlock
    <3> QED
      BY <1>1, <1>2, <1>4, <3>1 DEF InConf, Stray
  <2> QED
    BY <1>1, <2>1, <2>2, <2>3
<1> QED
  BY <1>3, <1>4

\* With one worker every step keeps them apart: the one that is added has an address that
\* no active row has, and every other block that is not stray has a row.
LEMMA ApartStep ==
    ASSUME NEW w, Worker = {w},
           TypeOK, Inv, FreshInv, CheckedInv(w), [Next]_vars, ApartInv
    PROVE  ApartInv'
<1> SUFFICES ASSUME NEW j \in (InConf \ Stray)', NEW k \in (InConf \ Stray)',
                    addr'[j] = addr'[k]
             PROVE  j = k
  BY DEF ApartInv
<1> DEFINE Added(i) == line[i] = 0 /\ CreateAddPeer(w) /\ job[w].key = i
<1>1. /\ j \in InConf \ Stray \/ Added(j)
      /\ k \in InConf \ Stray \/ Added(k)
  BY SoundBefore
<1>2. j \in Key /\ k \in Key
  BY DEF InConf
<1>3. \A i \in Key : Added(i) => At(w, "add") /\ owner[i] # None
  BY DEF CreateAddPeer, At, Inv, WorkerInv
<1>4. owner[j] # None /\ owner[k] # None
  BY <1>1, <1>2, <1>3 DEF FreshInv, InConf
<1>5. addr[j] = addr[k]
  BY <1>2, <1>4, AddressStays
<1>6. ASSUME NEW i \in Key, Added(i), NEW h \in InConf \ Stray, addr[i] = addr[h] PROVE FALSE
  <2>1. LowestFree(addr[i]) /\ ~ Keeps(w, h)
    BY <1>3, <1>6 DEF At, CheckedInv, Keeps
  <2>2. row[h] = "active" /\ h \in Key
    BY <1>6, <2>1 DEF InConf, Stray
  <2> QED
    BY <1>6, <2>1, <2>2 DEF LowestFree, UsedAddresses
<1> QED
  BY <1>1, <1>2, <1>5, <1>6 DEF ApartInv

\* What CreateConfig has checked holds in every state, with one worker.
LEMMA CheckedAlways ==
    ASSUME NEW w, Worker = {w}
    PROVE  Spec => [](TypeOK /\ Inv /\ CheckedInv(w))
<1>1. Init => CheckedInv(w)
  BY DEF Init, CheckedInv, Idle, Task
<1>2. TypeOK /\ Inv /\ CheckedInv(w) /\ [Next]_vars => CheckedInv(w)'
  BY NextChecked
<1> QED
  BY <1>1, <1>2, Invariance, PTL DEF Spec

\* With one update loop and whatever fails: but for one block for each fault that
\* CreateConfig does not make good no two claim one address, OneSharedPerFault.
THEOREM AddressesApart ==
    ASSUME NEW w, Worker = {w}
    PROVE  Spec => []OneSharedPerFault
<1>1. Init => ApartInv
  BY DEF Init, ApartInv, InConf
<1>2. ASSUME TypeOK, Inv, FreshInv, CheckedInv(w), [Next]_vars, ApartInv
      PROVE  ApartInv'
  BY <1>2, ApartStep
<1>3. Spec => [](TypeOK /\ Inv /\ CheckedInv(w))
  BY CheckedAlways
<1>4. TypeOK /\ OrphanInv /\ ApartInv => OneSharedPerFault
  <2> SUFFICES ASSUME TypeOK, OrphanInv, ApartInv PROVE OneSharedPerFault
    OBVIOUS
  <2> DEFINE S == InConf \cap Stray
  <2>1. Cardinality(S) \in Nat /\ Cardinality(S) <= Cardinality(Stray)
        /\ Cardinality(Stray) \in Nat
    BY StrayFinite, OneMore
  <2>3. Count(NotUndone) \in Nat
    BY CountType
  <2>4. Cardinality(S) <= Count(NotUndone)
    BY <2>1, <2>3 DEF OrphanInv
  <2>5. S \in SUBSET InConf /\ \A j, k \in InConf \ S : addr[j] = addr[k] => j = k
    BY DEF ApartInv
  <2> HIDE DEF S
  <2> QED
    BY <2>4, <2>5 DEF OneSharedPerFault
<1> QED
  BY <1>1, <1>2, <1>3, <1>4, FreshAlways, OrphanInvAlways, PTL DEF Spec

-----------------------------------------------------------------------------
(* Configurations that were issued stay up, with one worker.  The conf file  *)
(* is an order of its blocks, and a peer that is due to be up is the last of *)
(* those that claim its address, which is the one a reboot gives it to.      *)

LinesInv ==
    /\ \A k \in InConf : line[k] <= Cardinality(InConf)
    /\ \A j, k \in InConf : line[j] = line[k] => j = k

\* The conf file changes by a block at its end, or by one cut out.
LEMMA LineSteps ==
    ASSUME TypeOK, [Next]_vars
    PROVE  \/ UNCHANGED line
           \/ \E k \in Key : AppendBlock(k) \/ (line[k] # 0 /\ CutBlock(k))
<1> DEFINE OK == \/ UNCHANGED line
                 \/ \E k \in Key : AppendBlock(k) \/ (line[k] # 0 /\ CutBlock(k))
<1>1. ASSUME NEW k \in Key, RemovePeer(k) \/ RemovePeerFails(k)
      PROVE  UNCHANGED line \/ (line[k] # 0 /\ CutBlock(k))
  BY <1>1 DEF RemovePeer, RemovePeerFails, PeerRemove, PeerRemoveAwgFails, serverVars
<1>2. ASSUME NEW w \in Worker, CreateCleanUp(w) \/ DeleteRemovePeer(w)
                              \/ \E k \in Key : DisableRemovePeer(w, k)
      PROVE  OK
  <2>1. \E k \in Key : RemovePeer(k) \/ RemovePeerFails(k)
    BY <1>2 DEF CreateCleanUp, DeleteRemovePeer, DisableRemovePeer, At, TypeOK, KeyStage
  <2> QED
    BY <1>1, <2>1
<1>3. ASSUME NEW w \in Worker, CreateAddPeer(w) \/ CreateAddPeerAwgFails(w) PROVE OK
  BY <1>3 DEF CreateAddPeer, CreateAddPeerAwgFails, PeerAdd, At, TypeOK, KeyStage
<1>4. ASSUME NEW op \in {"add", "remove"}, NEW k \in Key, LateCommand(op, k) PROVE OK
  BY <1>4 DEF LateCommand, PeerAdd, PeerRemove, serverVars
<1> QED
  BY <1>2, <1>3, <1>4, ServerSteps DEF Reboot, serverVars

\* A cut keeps the order of the other blocks.
LEMMA CutKeepsOrder ==
    ASSUME TypeOK, LinesInv, NEW k \in Key, line[k] # 0, CutBlock(k),
           NEW i \in InConf, NEW j \in InConf, i # k, j # k, line[i] < line[j]
    PROVE  line'[i] < line'[j]
<1>1. line[i] # line[k] /\ line[j] # line[k]
  BY DEF LinesInv, InConf
<1>2. /\ line[i] \in Nat /\ line[j] \in Nat /\ line[k] \in Nat
      /\ line'[i] = IF line[i] > line[k] THEN line[i] - 1 ELSE line[i]
      /\ line'[j] = IF line[j] > line[k] THEN line[j] - 1 ELSE line[j]
  BY DEF TypeOK, CutBlock, InConf
<1> QED
  BY <1>1, <1>2

\* An appended block stands below every other.
LEMMA AppendIsLast ==
    ASSUME TypeOK, LinesInv, NEW k \in Key, AppendBlock(k), NEW j \in InConf
    PROVE  j # k /\ line'[j] = line[j] /\ line'[j] < line'[k]
<1>1. IsFiniteSet(InConf)
  BY FS_Subset DEF InConf
<1>2. Cardinality(InConf) \in Nat
  BY <1>1, FS_CardinalityType
<1>3. j \in Key \ {k} /\ line[j] \in Nat
  BY DEF AppendBlock, InConf, TypeOK
<1>4. line'[k] = Cardinality(InConf) + 1 /\ line'[j] = line[j]
  BY <1>3 DEF AppendBlock, TypeOK
<1>5. line[j] <= Cardinality(InConf)
  BY DEF LinesInv
<1> QED
  BY <1>2, <1>3, <1>4, <1>5

LEMMA LinesStep ==
    ASSUME TypeOK, LinesInv, [Next]_vars
    PROVE  LinesInv'
<1>1. IsFiniteSet(InConf)
  BY FS_Subset DEF InConf
<1>2. Cardinality(InConf) \in Nat
  BY <1>1, FS_CardinalityType
<1>3. CASE UNCHANGED line
  BY <1>3 DEF LinesInv, InConf
<1>4. ASSUME NEW k \in Key, AppendBlock(k) PROVE LinesInv'
  <2>1. InConf' = InConf \cup {k} /\ k \notin InConf
    BY <1>4, AppendEffect DEF InConf, AppendBlock
  <2>2. Cardinality(InConf') = Cardinality(InConf) + 1
    BY <1>1, <2>1, FS_AddElement
  <2>3. line'[k] = Cardinality(InConf) + 1
    BY <1>4 DEF AppendBlock, TypeOK
  <2>4. ASSUME NEW j \in InConf'
        PROVE  line'[j] <= Cardinality(InConf')
    <3>1. CASE j = k
      BY <1>2, <2>2, <2>3, <3>1
    <3>2. CASE j \in InConf
      <4>1. line'[j] = line[j] /\ line[j] <= Cardinality(InConf) /\ line[j] \in Nat
        BY <1>4, <3>2, AppendIsLast DEF LinesInv, TypeOK, InConf
      <4> QED
        BY <1>2, <2>2, <4>1
    <3> QED
      BY <2>1, <3>1, <3>2
  <2>5. ASSUME NEW i \in InConf', NEW j \in InConf', line'[i] = line'[j]
        PROVE  i = j
    <3>1. \A h \in InConf : line'[h] = line[h] /\ line'[h] < line'[k]
      BY <1>4, AppendIsLast
    <3>2. line'[i] \in Nat /\ line'[j] \in Nat
      BY <1>4, <2>1, AppendType DEF InConf
    <3> QED
      BY <2>1, <2>5, <3>1, <3>2 DEF LinesInv
  <2> QED
    BY <2>4, <2>5 DEF LinesInv
<1>5. ASSUME NEW k \in Key, line[k] # 0, CutBlock(k) PROVE LinesInv'
  <2>1. InConf' = InConf \ {k} /\ k \in InConf
    BY <1>5, CutEffect DEF InConf
  <2>2. Cardinality(InConf') = Cardinality(InConf) - 1
    BY <1>1, <2>1, FS_RemoveElement
  <2>3. ASSUME NEW j \in InConf'
        PROVE  line'[j] <= Cardinality(InConf')
    <3>1. /\ line[j] \in Nat /\ line[k] \in Nat
          /\ line'[j] = IF line[j] > line[k] THEN line[j] - 1 ELSE line[j]
      BY <1>5, <2>1 DEF TypeOK, CutBlock, InConf
    <3>2. line[j] <= Cardinality(InConf) /\ line[k] <= Cardinality(InConf) /\ line[j] # line[k]
      BY <2>1 DEF LinesInv
    <3> QED
      BY <1>2, <2>2, <3>1, <3>2
  <2>4. ASSUME NEW i \in InConf', NEW j \in InConf', line'[i] = line'[j]
        PROVE  i = j
    <3>1. line[i] \in Nat /\ line[j] \in Nat /\ line'[i] \in Nat /\ line'[j] \in Nat
      BY <1>5, <2>1, CutType DEF TypeOK, InConf
    <3>2. ~ (line[i] < line[j]) /\ ~ (line[j] < line[i])
      BY <1>5, <2>1, <2>4, <3>1, CutKeepsOrder
    <3>3. line[i] = line[j]
      BY <3>1, <3>2
    <3> QED
      BY <2>1, <3>3 DEF LinesInv
  <2> QED
    BY <2>3, <2>4 DEF LinesInv
<1> QED
  BY <1>3, <1>4, <1>5, LineSteps

\* The order of the conf file holds for any number of workers.
LEMMA LinesAlways == Spec => []LinesInv
<1>1. Init => LinesInv
  BY DEF Init, LinesInv, InConf
<1>2. TypeOK /\ LinesInv /\ [Next]_vars => LinesInv'
  BY LinesStep
<1> QED
  BY <1>1, <1>2, Invariance, PTL DEF Spec

\* Peer k is up and has its address, now and after a reboot.
Up(k) ==
    /\ k \in live
    /\ route[addr[k]] = k
    /\ \A j \in InConf \ {k} : addr[j] = addr[k] => line[j] < line[k]

\* Peer k has been issued, or worker w is about to, and no removal was attempted.
Due(w, k) ==
    \/ row[k] = "active" /\ k \notin struck
    \/ At(w, "save") /\ job[w].key = k

\* The adds that may still run, and the peers that one of them has put down.
Owed(w) ==
    {c \in late : c[1] = "add"}
        \cup {<<"down", k>> : k \in {j \in Key : Due(w, j) /\ ~ Up(j)}}

UpInv(w) == Cardinality(Owed(w)) <= Count({"ssh", "crash"})

RowsApart ==
    \A j, k \in Key : row[j] = "active" /\ row[k] = "active" /\ addr[j] = addr[k] => j = k

DrawnInv == \A k \in Key : owner[k] # None => addr[k] \in IP

\* The address of a generated key is one of the pool.
LEMMA DrawnStep ==
    ASSUME TypeOK, DrawnInv, [Next]_vars
    PROVE  DrawnInv'
<1>1. ASSUME NEW w \in Worker, CreateAllocate(w) PROVE DrawnInv'
  BY <1>1 DEF CreateAllocate, DrawnInv, TypeOK
<1>2. ASSUME NEW w \in Worker, Request(w) PROVE UNCHANGED <<owner, addr>>
  BY <1>2 DEF Request, CreateGetUser, DisableSet, AddUpsertUser, DeletePress,
              SetLimit, issueVars
<1>3. ASSUME NEW w \in Worker, WorkerStep(w), ~ CreateAllocate(w)
      PROVE  UNCHANGED <<owner, addr>>
  BY <1>3
  DEF WorkerStep, CreateHasAccess, CreateCheckLimit, CreateAllocateFails,
      CreateAddPeer, CreateAddPeerAwgFails, CreateAddPeerFails, CreateSave,
      CreateSaveFails, CreateCleanUp, DeleteGetPeer, DeleteRemovePeer, DeleteRevoke,
      DisableList, DisableRemovePeer, DisableRevoke, DisableDone, AddGrantAccess,
      ReadFails, issueVars
<1>4. CASE UNCHANGED <<owner, addr>>
  BY <1>4 DEF DrawnInv
<1> QED
  BY <1>1, <1>2, <1>3, <1>4 DEF Next, Crash, LateCommand, Reboot, vars, issueVars

\* An attempt to remove a peer is never forgotten.
LEMMA StruckGrows ==
    ASSUME [Next]_vars
    PROVE  struck \subseteq struck'
<1>1. ASSUME NEW k, RemovePeer(k) \/ RemovePeerFails(k) PROVE struck \subseteq struck'
  BY <1>1 DEF RemovePeer, RemovePeerFails
<1>2. ASSUME NEW w \in Worker, CreateCleanUp(w) \/ DeleteRemovePeer(w)
                              \/ \E k \in Key : DisableRemovePeer(w, k)
      PROVE  struck \subseteq struck'
  BY <1>1, <1>2 DEF CreateCleanUp, DeleteRemovePeer, DisableRemovePeer
<1>3. ASSUME NEW w \in Worker, Request(w) PROVE UNCHANGED struck
  BY <1>3 DEF Request, CreateGetUser, DisableSet, AddUpsertUser, DeletePress, SetLimit
<1>4. ASSUME NEW w \in Worker, WorkerStep(w), ~ CreateCleanUp(w),
             ~ DeleteRemovePeer(w), ~ \E k \in Key : DisableRemovePeer(w, k)
      PROVE  UNCHANGED struck
  BY <1>4
  DEF WorkerStep, CreateHasAccess, CreateCheckLimit, CreateAllocate,
      CreateAllocateFails, CreateAddPeer, CreateAddPeerAwgFails, CreateAddPeerFails,
      CreateSave, CreateSaveFails, DeleteGetPeer, DeleteRevoke, DisableList,
      DisableRevoke, DisableDone, AddGrantAccess, ReadFails
<1> QED
  BY <1>2, <1>3, <1>4 DEF Next, Crash, LateCommand, Reboot, vars

\* A worker comes to the insert of a row by AddPeer only.
LEMMA OnlyAddSaves ==
    ASSUME TypeOK, [Next]_vars, NEW w \in Worker, At(w, "save")'
    PROVE  job'[w] = job[w] \/ CreateAddPeer(w)
<1>1. ASSUME NEW task, Take(w, task), task.at # "save" PROVE FALSE
  BY <1>1, TakeEffect DEF At
<1>2. ASSUME NEW stage, Goto(w, stage), stage # "save" PROVE FALSE
  BY <1>2, GotoEffect DEF At
<1>3. ~ Return(w)
  BY <1>1 DEF Return, Idle, Task
<1>4. ASSUME Request(w) PROVE job'[w] = job[w]
  BY <1>1, <1>4
  DEF Request, CreateGetUser, DisableSet, AddUpsertUser, DeletePress, SetLimit, Task
<1>5. ASSUME WorkerStep(w) PROVE CreateAddPeer(w)
  BY <1>1, <1>2, <1>3, <1>5
  DEF WorkerStep, CreateHasAccess, CreateCheckLimit, CreateAllocate,
      CreateAllocateFails, CreateAddPeerAwgFails, CreateAddPeerFails, CreateSave,
      CreateSaveFails, CreateCleanUp, DeleteGetPeer, DeleteRemovePeer, DeleteRevoke,
      DisableList, DisableRemovePeer, DisableRevoke, DisableDone, AddGrantAccess,
      ReadFails, Task
<1> QED
  BY <1>3, <1>4, <1>5, OthersStay DEF Next, Crash, LateCommand, Reboot, vars

\* A peer becomes due when its block is added.
LEMMA DueBefore ==
    ASSUME NEW w, Worker = {w}, TypeOK, [Next]_vars, NEW k \in Key, Due(w, k)'
    PROVE  Due(w, k) \/ (CreateAddPeer(w) /\ job[w].key = k)
<1>1. CASE row'[k] = "active" /\ k \notin struck'
  BY <1>1, StruckGrows, OnlySaveActivates DEF Due
<1>2. CASE At(w, "save")' /\ job'[w].key = k
  BY <1>2, OnlyAddSaves, GotoEffect DEF Due, At, CreateAddPeer
<1> QED
  BY <1>1, <1>2 DEF Due

\* The removal of a peer, whatever comes of awg, leaves another that is up alone.
LEMMA RemovalSparesOthers ==
    ASSUME TypeOK, LinesInv, NEW h \in Key, NEW k \in InConf, h # k,
           Up(k), addr[k] \in IP, PeerRemove(h) \/ PeerRemoveAwgFails(h), UNCHANGED addr
    PROVE  Up(k)'
<1>1. CASE UNCHANGED serverVars
  BY <1>1 DEF Up, InConf, serverVars
<1>2. CASE line[h] # 0 /\ CutBlock(h)
  <2>1. InConf' = InConf \ {h}
    BY <1>2, CutEffect DEF InConf
  <2>2. ASSUME NEW j \in InConf' \ {k}, addr[j] = addr[k] PROVE line'[j] < line'[k]
    <3>1. j \in InConf /\ j # h /\ line[j] < line[k]
      BY <2>1, <2>2 DEF Up
    <3> QED
      BY <1>2, <3>1, CutKeepsOrder
  <2>3. k \in live' /\ route'[addr[k]] = k
    <3>1. CASE UNCHANGED <<live, route>>
      BY <3>1 DEF Up
    <3>2. CASE AwgRemovePeer(h)
      BY <3>2 DEF Up, AwgRemovePeer
    <3> QED
      BY <1>2, <3>1, <3>2 DEF PeerRemove, PeerRemoveAwgFails
  <2> QED
    BY <2>2, <2>3 DEF Up
<1> QED
  BY <1>1, <1>2 DEF PeerRemove, PeerRemoveAwgFails

\* A new block leaves a peer that is up alone when it claims another address.
LEMMA AddingSparesOthers ==
    ASSUME TypeOK, NEW h \in Key, NEW k \in InConf, addr[h] # addr[k],
           Up(k), addr[k] \in IP, AppendBlock(h), UNCHANGED addr,
           AwgSetPeer(h) \/ UNCHANGED <<live, route>>
    PROVE  Up(k)'
<1>1. InConf' = InConf \cup {h} /\ \A j \in InConf : line'[j] = line[j]
  BY AppendEffect DEF InConf, AppendBlock
<1>2. ASSUME NEW j \in InConf' \ {k}, addr[j] = addr[k] PROVE line'[j] < line'[k]
  BY <1>1, <1>2 DEF Up
<1>3. k \in live' /\ route'[addr[k]] = k
  BY DEF Up, AwgSetPeer, TypeOK
<1> QED
  BY <1>2, <1>3 DEF Up

\* After a reboot the last block that claims an address has it.
LEMMA RebootKeepsUp ==
    ASSUME TypeOK, NEW k \in InConf, Up(k), addr[k] \in IP, Reboot
    PROVE  Up(k)'
<1> DEFINE r == route'[addr[k]]
<1>1. k \in Claims(addr[k])
  BY DEF Claims
<1>2. r \in Claims(addr[k]) /\ \A j \in Claims(addr[k]) : line[j] <= line[r]
  BY <1>1 DEF Reboot
<1>3. r \in InConf /\ addr[r] = addr[k] /\ line[k] <= line[r]
  BY <1>1, <1>2 DEF Claims
<1>4. line[k] \in Nat /\ line[r] \in Nat
  BY <1>3 DEF TypeOK, InConf
<1>5. r = k
  BY <1>3, <1>4 DEF Up
<1> QED
  BY <1>5 DEF Up, Reboot, InConf, issueVars

\* With one worker no two active rows have one address, nor has the one to come.
LEMMA RowsApartStep ==
    ASSUME NEW w, Worker = {w}, TypeOK, Inv, CheckedInv(w), RowsApart, [Next]_vars
    PROVE  RowsApart'
<1> SUFFICES ASSUME NEW j \in Key, NEW k \in Key, row'[j] = "active", row'[k] = "active",
                    addr'[j] = addr'[k], j # k
             PROVE  FALSE
  BY DEF RowsApart
<1>1. ASSUME NEW i \in Key, row[i] = "active" PROVE addr'[i] = addr[i]
  BY <1>1, AddressStays DEF Inv, KeyInv
<1>2. ASSUME NEW i \in Key, row'[i] = "active", row[i] # "active"
      PROVE  At(w, "save") /\ job[w].key = i /\ addr'[i] = addr[i]
             /\ addr[i] \notin UsedAddresses
  <2>1. At(w, "save") /\ job[w].key = i
    BY <1>2, OnlySaveActivates
  <2>2. owner[i] # None /\ LowestFree(addr[i])
    BY <2>1 DEF At, Inv, WorkerInv, CheckedInv
  <2> QED
    BY <2>1, <2>2, AddressStays DEF LowestFree
<1>3. \A i \in Key : row[i] = "active" => addr[i] \in UsedAddresses
  BY DEF UsedAddresses
<1> QED
  BY <1>1, <1>2, <1>3 DEF RowsApart

\* So no two peers that are due have one.
LEMMA DueApart ==
    ASSUME NEW w \in Worker, CheckedInv(w), RowsApart,
           NEW j \in Key, NEW k \in Key, Due(w, j), Due(w, k), addr[j] = addr[k]
    PROVE  j = k
<1>1. \A i \in Key : row[i] = "active" => addr[i] \in UsedAddresses
  BY DEF UsedAddresses
<1>2. At(w, "save") => addr[job[w].key] \notin UsedAddresses
  BY DEF At, CheckedInv, LowestFree
<1> QED
  BY <1>1, <1>2 DEF RowsApart, Due

\* With one worker every step keeps the peers up that are due, but for an add that runs
\* late and claims the address of one.
LEMMA DownStep ==
    ASSUME NEW w, Worker = {w}, TypeOK, Inv, FreshInv, DrawnInv, LinesInv,
           CheckedInv(w), [Next]_vars, NEW k \in Key, Due(w, k)', ~ Up(k)'
    PROVE  /\ Due(w, k)
           /\ \/ ~ Up(k)
              \/ \E h \in Key : LateCommand("add", h) /\ addr[h] = addr[k]
<1>1. ~ (CreateAddPeer(w) /\ job[w].key = k)
  <2> SUFFICES ASSUME CreateAddPeer(w), job[w].key = k PROVE FALSE
    OBVIOUS
  <2>1. /\ AppendBlock(k) /\ AwgSetPeer(k) /\ UNCHANGED addr
        /\ addr[k] \in IP
    BY DEF CreateAddPeer, PeerAdd, issueVars, At, Inv, WorkerInv, DrawnInv
  <2>2. k \in live' /\ route'[addr[k]] = k
    BY <2>1 DEF AwgSetPeer, TypeOK
  <2>3. ASSUME NEW j \in InConf' \ {k} PROVE line'[j] < line'[k]
    <3>1. j \in InConf
      BY <2>1, <2>3, AppendEffect DEF InConf
    <3> QED
      BY <2>1, <3>1, AppendIsLast
  <2> QED
    BY <2>1, <2>2, <2>3 DEF Up
<1>2. Due(w, k)
  BY <1>1, DueBefore
<1>3. ASSUME Up(k), ~ \E h \in Key : LateCommand("add", h) /\ addr[h] = addr[k]
      PROVE  FALSE
  <2>1. /\ Up(k) /\ k \in InConf /\ owner[k] # None /\ addr[k] \in IP
        /\ k \notin struck /\ <<"add", k>> \notin late
    BY <1>2, <1>3 DEF Due, At, Inv, KeyInv, WorkerInv, InConf, DrawnInv
  <2>2. CASE UNCHANGED serverVars
    <3>1. InConf' = InConf
      BY <2>2 DEF InConf, serverVars
    <3>2. \A j \in InConf : addr'[j] = addr[j]
      BY AddressStays DEF FreshInv, InConf
    <3> QED
      BY <2>1, <2>2, <3>1, <3>2 DEF Up, serverVars
  <2>3. CASE CreateAddPeer(w) \/ CreateAddPeerAwgFails(w)
    <3> DEFINE h == job[w].key
    <3>1. h \in Key /\ row[h] = "none" /\ LowestFree(addr[h]) /\ ~ At(w, "save")
      BY <2>3 DEF CreateAddPeer, CreateAddPeerAwgFails, At, TypeOK, KeyStage,
                  Inv, WorkerInv, CheckedInv
    <3>2. addr[h] # addr[k]
      BY <1>2, <3>1 DEF Due, LowestFree, UsedAddresses
    <3>3. /\ AppendBlock(h) /\ UNCHANGED addr
          /\ AwgSetPeer(h) \/ UNCHANGED <<live, route>>
      BY <2>3 DEF CreateAddPeer, CreateAddPeerAwgFails, PeerAdd, issueVars
    <3> QED
      BY <2>1, <3>1, <3>2, <3>3, AddingSparesOthers
  <2>4. ASSUME NEW h \in Key, RemovePeer(h) \/ RemovePeerFails(h), ~ At(w, "save")',
               UNCHANGED addr
        PROVE  FALSE
    <3>1. h # k
      BY <2>4, RemovePeerEffect, RemovePeerFailsEffect DEF Due
    <3>2. CASE UNCHANGED serverVars
      BY <2>2, <3>2
    <3>3. CASE PeerRemove(h) \/ PeerRemoveAwgFails(h)
      BY <2>1, <2>4, <3>1, <3>3, RemovalSparesOthers
    <3> QED
      BY <2>4, <3>2, <3>3 DEF RemovePeer, RemovePeerFails
  <2>5. CASE CreateCleanUp(w) \/ DeleteRemovePeer(w)
    <3>1. /\ job[w].key \in Key /\ UNCHANGED addr
          /\ RemovePeer(job[w].key) \/ RemovePeerFails(job[w].key)
      BY <2>5 DEF CreateCleanUp, DeleteRemovePeer, At, TypeOK, KeyStage, issueVars
    <3>2. ~ At(w, "save")'
      BY <2>5, ReturnEffect, GotoEffect DEF CreateCleanUp, DeleteRemovePeer, At
    <3> QED
      BY <2>4, <3>1, <3>2
  <2>6. ASSUME NEW h \in Key, DisableRemovePeer(w, h) PROVE FALSE
    <3>1. /\ UNCHANGED addr /\ ~ At(w, "save")'
          /\ RemovePeer(h) \/ RemovePeerFails(h)
      BY <2>6, TakeEffect DEF DisableRemovePeer, At, Task, issueVars
    <3> QED
      BY <2>4, <3>1
  <2>7. ASSUME NEW h \in Key, LateCommand("remove", h) PROVE FALSE
    <3>1. PeerRemove(h) /\ UNCHANGED addr /\ h \in struck
      BY <2>7 DEF LateCommand, issueVars, Inv, KeyInv
    <3> QED
      BY <2>1, <3>1, RemovalSparesOthers
  <2>8. ASSUME NEW h \in Key, LateCommand("add", h) PROVE FALSE
    <3>1. /\ AppendBlock(h) /\ AwgSetPeer(h) /\ UNCHANGED addr
          /\ addr[h] # addr[k]
      BY <1>3, <2>8 DEF LateCommand, PeerAdd, issueVars
    <3> QED
      BY <2>1, <3>1, AddingSparesOthers
  <2>9. CASE Reboot
    BY <2>1, <2>9, RebootKeepsUp
  <2> QED
    BY <2>2, <2>3, <2>5, <2>6, <2>7, <2>8, <2>9, ServerSteps
<1> QED
  BY <1>2, <1>3

\* An add that runs late is settled by the one peer it puts down, if any.
LEMMA LateSettles ==
    ASSUME NEW w, Worker = {w}, TypeOK, Inv, FreshInv, DrawnInv, LinesInv,
           CheckedInv(w), RowsApart, [Next]_vars, NEW h \in Key, LateCommand("add", h)
    PROVE  /\ <<"add", h>> \in Owed(w) /\ UNCHANGED faults
           /\ \E d : Owed(w)' \subseteq (Owed(w) \ {<<"add", h>>}) \cup {d}
<1>1. /\ <<"add", h>> \in late /\ late' = late \ {<<"add", h>>}
      /\ UNCHANGED faults
  BY DEF LateCommand
<1>2. \A j \in Key : LateCommand("add", j) => j = h
  BY <1>1 DEF LateCommand
<1>3. \A k \in Key : Due(w, k)' /\ ~ Up(k)'
        => Due(w, k) /\ (~ Up(k) \/ addr[k] = addr[h])
  BY <1>2, DownStep
<1>4. \A j, k \in Key : Due(w, j) /\ Due(w, k) /\ addr[j] = addr[k] => j = k
  BY DueApart
<1> DEFINE New == {k \in Key : Due(w, k) /\ addr[k] = addr[h]}
<1>5. \E i : New \subseteq {i}
  BY <1>4
<1>6. PICK i : New \subseteq {i}
  BY <1>5
<1>7. Owed(w)' \subseteq (Owed(w) \ {<<"add", h>>}) \cup {<<"down", i>>}
  <2>1. ASSUME NEW k \in Key, Due(w, k)', ~ Up(k)'
        PROVE  <<"down", k>> \in Owed(w) \/ k = i
    BY <1>3, <1>6, <2>1 DEF Owed
  <2>2. ASSUME NEW c \in late', c[1] = "add"
        PROVE  c \in Owed(w) /\ c # <<"add", h>>
    BY <1>1, <2>2 DEF Owed
  <2> QED
    BY <2>1, <2>2 DEF Owed
<1> QED
  BY <1>1, <1>7 DEF Owed

\* Any other step owes one more at most, for a call that failed or was cut off.
LEMMA OwedGrows ==
    ASSUME NEW w, Worker = {w}, TypeOK, Inv, FreshInv, DrawnInv, LinesInv,
           CheckedInv(w), [Next]_vars, \A h \in Key : ~ LateCommand("add", h)
    PROVE  \/ Owed(w)' \subseteq Owed(w)
           \/ \E kind \in {"ssh", "crash"} : \E c :
                  Fault(kind) /\ Owed(w)' \subseteq Owed(w) \cup {c}
<1>1. \A k \in Key : Due(w, k)' /\ ~ Up(k)' => Due(w, k) /\ ~ Up(k)
  BY DownStep
<1>2. \A k \in Key : <<"add", k>> \in late' /\ <<"add", k>> \notin late
        => job[w].key = k /\ (CreateAddPeerFails(w) \/ Crash(w))
  BY AddAbandoned
<1>3. \A c \in late' : c[1] = "add" => \E k \in Key : c = <<"add", k>>
  BY NextType DEF TypeOK
<1>4. Owed(w)' \subseteq Owed(w) \cup {<<"add", job[w].key>>}
  BY <1>1, <1>2, <1>3 DEF Owed
<1>5. CASE CreateAddPeerFails(w) \/ Crash(w)
  BY <1>4, <1>5 DEF CreateAddPeerFails, Crash
<1>6. CASE ~ (CreateAddPeerFails(w) \/ Crash(w))
  BY <1>1, <1>2, <1>3, <1>6 DEF Owed
<1> QED
  BY <1>5, <1>6

LEMMA OwedFinite == TypeOK => \A w : IsFiniteSet(Owed(w))
<1> SUFFICES ASSUME TypeOK, NEW w PROVE IsFiniteSet(Owed(w))
  OBVIOUS
<1>1. IsFiniteSet({"add", "remove", "down"})
  <2>1. IsFiniteSet({"add"} \cup {"remove"})
    BY FS_Singleton, FS_AddElement
  <2>2. IsFiniteSet(({"add"} \cup {"remove"}) \cup {"down"})
    BY <2>1, FS_AddElement
  <2> QED
    BY <2>2
<1>2. IsFiniteSet({"add", "remove", "down"} \X Key)
  BY <1>1, FS_Product, ConstantsAssumption DEF ConstantsAssumption
<1>3. Owed(w) \subseteq {"add", "remove", "down"} \X Key
  BY DEF Owed, TypeOK
<1> QED
  BY <1>2, <1>3, FS_Subset

LEMMA UpStep ==
    ASSUME NEW w, Worker = {w}, TypeOK, Inv, FreshInv, DrawnInv, LinesInv,
           CheckedInv(w), RowsApart, UpInv(w), [Next]_vars
    PROVE  UpInv(w)'
<1> DEFINE kinds == {"ssh", "crash"}
<1>1. IsFiniteSet(Owed(w)) /\ Cardinality(Owed(w)) <= Count(kinds)
  BY OwedFinite DEF UpInv
<1>2. CASE \E h \in Key : LateCommand("add", h)
  <2>1. PICK h \in Key : LateCommand("add", h)
    BY <1>2
  <2> DEFINE S == Owed(w) \ {<<"add", h>>}
  <2>2. <<"add", h>> \in Owed(w) /\ UNCHANGED faults /\ \E d : Owed(w)' \subseteq S \cup {d}
    BY <2>1, LateSettles
  <2>3. IsFiniteSet(S) /\ Cardinality(S) = Cardinality(Owed(w)) - 1
    BY <1>1, <2>2, FS_RemoveElement
  <2>4. /\ Cardinality(Owed(w)') \in Nat
        /\ Cardinality(Owed(w)') <= Cardinality(S) + 1
    BY <2>2, <2>3, OneMore
  <2>5. Count(kinds)' = Count(kinds)
    BY <2>2 DEF Count
  <2>6. Count(kinds) \in Nat /\ Cardinality(Owed(w)) \in Nat
    BY <1>1, CountType, FS_CardinalityType
  <2> QED
    BY <1>1, <2>3, <2>4, <2>5, <2>6 DEF UpInv
<1>3. CASE \A h \in Key : ~ LateCommand("add", h)
  <2>1. Cardinality(Owed(w)') <= Count(kinds)'
    BY <1>1, <1>3, OwedGrows, Counted
  <2> QED
    BY <2>1 DEF UpInv
<1> QED
  BY <1>2, <1>3

\* With one update loop and whatever fails: no more of the configurations that were
\* issued are down than calls have failed or been cut off, OneDownPerFault.
THEOREM IssuedIsUp ==
    ASSUME NEW w, Worker = {w}
    PROVE  Spec => []OneDownPerFault
<1>1. Init => DrawnInv /\ RowsApart /\ UpInv(w)
  <2> SUFFICES ASSUME Init PROVE DrawnInv /\ RowsApart /\ UpInv(w)
    OBVIOUS
  <2>1. Owed(w) = {}
    BY DEF Init, Owed, Due, At, Idle, Task
  <2> QED
    BY <2>1, NoneAtFirst, FS_EmptySet DEF Init, DrawnInv, RowsApart, UpInv
<1>2. TypeOK /\ DrawnInv /\ [Next]_vars => DrawnInv'
  BY DrawnStep
<1>3. ASSUME TypeOK, Inv, CheckedInv(w), RowsApart, [Next]_vars PROVE RowsApart'
  BY <1>3, RowsApartStep
<1>4. ASSUME TypeOK, Inv, FreshInv, DrawnInv, LinesInv, CheckedInv(w), RowsApart,
             UpInv(w), [Next]_vars
      PROVE  UpInv(w)'
  BY <1>4, UpStep
<1>5. TypeOK /\ UpInv(w) => OneDownPerFault
  <2> SUFFICES ASSUME TypeOK, UpInv(w) PROVE OneDownPerFault
    OBVIOUS
  <2> DEFINE down == {k \in Key : /\ row[k] = "active" /\ k \notin struck
                                  /\ ~ (k \in live /\ route[addr[k]] = k)}
             f == [k \in down |-> <<"down", k>>]
  <2>1. \A k \in down : <<"down", k>> \in Owed(w)
    BY DEF Owed, Due, Up
  <2>2. IsFiniteSet(down) /\ IsFiniteSet(Owed(w))
    BY OwedFinite, FS_Subset, ConstantsAssumption DEF ConstantsAssumption
  <2>3. f \in Injection(down, Owed(w))
    BY <2>1 DEF Injection, IsInjective
  <2>4. Cardinality(down) <= Cardinality(Owed(w)) /\ Cardinality(Owed(w)) \in Nat
    BY <2>2, <2>3, FS_Injection, FS_CardinalityType
  <2>5. Cardinality(down) \in Nat /\ Count({"ssh", "crash"}) \in Nat
    BY <2>2, CountType, FS_CardinalityType
  <2> QED
    BY <2>4, <2>5 DEF UpInv, OneDownPerFault
<1>6. Spec => [](TypeOK /\ Inv /\ CheckedInv(w))
  BY CheckedAlways
<1> QED
  BY <1>1, <1>2, <1>3, <1>4, <1>5, <1>6, FreshAlways, LinesAlways, PTL DEF Spec

-----------------------------------------------------------------------------
(* What the admin is told, with one worker.  The user is off from the first  *)
(* call of revokeUserPeers on, and only a removal that fails leaves a row of *)
(* the list active.                                                          *)

DisableStages == {"list", "loop", "strike"}

OffInv(w) ==
    /\ \A u \in told : account[u] # "on"
    /\ job[w].at \in DisableStages => account[job[w].user] = "off"

\* The active rows of those who were told of, or whom w is past revoking.
Missed(w) ==
    {k \in Key : /\ row[k] = "active"
                 /\ \/ owner[k] \in told
                    \/ /\ job[w].at \in {"loop", "strike"}
                       /\ owner[k] = job[w].user /\ k \notin job[w].todo}

MissedInv(w) == Spared({"db"}) => Cardinality(Missed(w)) <= Count({"ssh"})

\* Accounts are changed by an admin only, with an idle worker.
LEMMA AccountSteps ==
    ASSUME [Next]_vars
    PROVE  \/ UNCHANGED account
           \/ \E w \in Worker, u \in User : DisableSet(w, u) \/ AddUpsertUser(w, u)
<1>1. ASSUME NEW w \in Worker, Request(w),
             ~ \E u \in User : DisableSet(w, u) \/ AddUpsertUser(w, u)
      PROVE  UNCHANGED account
  BY <1>1 DEF Request, CreateGetUser, DeletePress, SetLimit, dbVars
<1>2. ASSUME NEW w \in Worker, WorkerStep(w) PROVE UNCHANGED account
  BY <1>2
  DEF WorkerStep, CreateHasAccess, CreateCheckLimit, CreateAllocate,
      CreateAllocateFails, CreateAddPeer, CreateAddPeerAwgFails, CreateAddPeerFails,
      CreateSave, CreateSaveFails, CreateCleanUp, DeleteGetPeer, DeleteRemovePeer,
      DeleteRevoke, DisableList, DisableRemovePeer, DisableRevoke, DisableDone,
      AddGrantAccess, ReadFails, dbVars
<1> QED
  BY <1>1, <1>2 DEF Next, Crash, LateCommand, Reboot, vars, dbVars

\* The admin is told by a disable that returns, and told otherwise by AdminAddUser.
LEMMA ToldSteps ==
    ASSUME [Next]_vars
    PROVE  \/ UNCHANGED told
           \/ \E w \in Worker : \/ DisableDone(w) \/ DisableList(w)
                                \/ \E u \in User : AddUpsertUser(w, u)
<1>1. ASSUME NEW w \in Worker, Request(w), ~ \E u \in User : AddUpsertUser(w, u)
      PROVE  UNCHANGED told
  BY <1>1 DEF Request, CreateGetUser, DisableSet, DeletePress, SetLimit
<1>2. ASSUME NEW w \in Worker, WorkerStep(w), ~ DisableDone(w), ~ DisableList(w)
      PROVE  UNCHANGED told
  BY <1>2
  DEF WorkerStep, CreateHasAccess, CreateCheckLimit, CreateAllocate,
      CreateAllocateFails, CreateAddPeer, CreateAddPeerAwgFails, CreateAddPeerFails,
      CreateSave, CreateSaveFails, CreateCleanUp, DeleteGetPeer, DeleteRemovePeer,
      DeleteRevoke, DisableRemovePeer, DisableRevoke, AddGrantAccess, ReadFails
<1> QED
  BY <1>1, <1>2 DEF Next, Crash, LateCommand, Reboot, vars

\* A worker comes to a stage of AdminDisableUser by that handler only.
LEMMA IntoDisable ==
    ASSUME TypeOK, [Next]_vars, NEW w \in Worker, job'[w].at \in DisableStages
    PROVE  \/ job'[w] = job[w]
           \/ (\E u \in User : DisableSet(w, u)) \/ DisableList(w)
           \/ (\E k \in Key : DisableRemovePeer(w, k)) \/ DisableRevoke(w)
<1>1. ASSUME NEW task, Take(w, task), task.at \notin DisableStages PROVE FALSE
  BY <1>1, TakeEffect
<1>2. ASSUME NEW stage, Goto(w, stage), stage \notin DisableStages PROVE FALSE
  BY <1>2, GotoEffect
<1>3. ~ Return(w)
  BY <1>1 DEF Return, Idle, Task, DisableStages
<1>4. ASSUME Request(w), ~ \E u \in User : DisableSet(w, u) PROVE job'[w] = job[w]
  BY <1>1, <1>4 DEF Request, CreateGetUser, AddUpsertUser, DeletePress, SetLimit, Task,
                    DisableStages
<1>5. ~ CreateHasAccess(w) /\ ~ CreateCheckLimit(w) /\ ~ CreateAllocate(w)
      /\ ~ CreateAddPeer(w) /\ ~ CreateSaveFails(w)
  BY <1>1, <1>2, <1>3
  DEF CreateHasAccess, CreateCheckLimit, CreateAllocate, CreateAddPeer,
      CreateSaveFails, Task, DisableStages
<1>6. ~ DeleteGetPeer(w) /\ ~ DeleteRemovePeer(w)
  BY <1>2, <1>3 DEF DeleteGetPeer, DeleteRemovePeer, DisableStages
<1>7. ASSUME WorkerStep(w)
      PROVE  \/ DisableList(w) \/ (\E k \in Key : DisableRemovePeer(w, k))
             \/ DisableRevoke(w)
  BY <1>3, <1>5, <1>6, <1>7
  DEF WorkerStep, CreateAllocateFails, CreateAddPeerAwgFails, CreateAddPeerFails,
      CreateSave, CreateCleanUp, DeleteRevoke, DisableDone, AddGrantAccess, ReadFails
<1> QED
  BY <1>3, <1>4, <1>7, OthersStay DEF Next, Crash, LateCommand, Reboot, vars

\* With one worker no peer of a user who is off becomes active.
LEMMA OffStaysListed ==
    ASSUME NEW w, Worker = {w}, TypeOK, Inv, CheckedInv(w), [Next]_vars,
           NEW u \in User, account[u] # "on"
    PROVE  ListActivePeers(u)' \subseteq ListActivePeers(u)
<1> SUFFICES ASSUME NEW k \in Key, row'[k] = "active", owner'[k] = u
             PROVE  row[k] = "active" /\ owner[k] = u
  BY DEF ListActivePeers
<1>1. CASE row[k] = "active"
  BY <1>1, OwnerStays DEF Inv, KeyInv
<1>2. CASE row[k] # "active"
  <2>1. At(w, "save") /\ job[w].key = k
    BY <1>2, OnlySaveActivates
  <2>2. owner[k] = job[w].user /\ account[job[w].user] = "on" /\ job[w].user \in User
    BY <2>1 DEF At, CheckedInv, TypeOK
  <2>3. owner'[k] = owner[k]
    BY <2>2, OwnerStays
  <2> QED
    BY <2>2, <2>3
<1> QED
  BY <1>1, <1>2

\* Who was told of, or is being disabled, is off.
LEMMA OffStep ==
    ASSUME NEW w, Worker = {w}, TypeOK, OffInv(w), [Next]_vars
    PROVE  OffInv(w)'
<1>1. ASSUME job[w].at \in DisableStages PROVE UNCHANGED account
  <2>1. job[w] # Idle
    BY <1>1 DEF DisableStages, Idle, Task
  <2> QED
    BY <2>1, AccountSteps DEF DisableSet, AddUpsertUser
<1>2. ASSUME NEW u \in told' PROVE account'[u] # "on"
  <2>1. CASE u \in told
    <3>1. ~ AddUpsertUser(w, u) /\ u \in User
      BY <1>2, <2>1 DEF AddUpsertUser, TypeOK
    <3> QED
      BY <2>1, <3>1, AccountSteps DEF OffInv, DisableSet, AddUpsertUser, TypeOK
  <2>2. CASE u \notin told
    <3>1. DisableDone(w) \/ DisableList(w)
      BY <1>2, <2>2, ToldSteps DEF AddUpsertUser
    <3>2. u = job[w].user /\ job[w].at \in DisableStages
      BY <1>2, <2>2, <3>1 DEF DisableDone, DisableList, At, DisableStages
    <3> QED
      BY <1>1, <3>2 DEF OffInv
  <2> QED
    BY <2>1, <2>2
<1>3. ASSUME job'[w].at \in DisableStages PROVE account'[job'[w].user] = "off"
  <2>1. CASE job'[w] = job[w]
    BY <1>1, <1>3, <2>1 DEF OffInv
  <2>2. ASSUME NEW u \in User, DisableSet(w, u) PROVE account'[job'[w].user] = "off"
    <3>1. job'[w] = Task("list", u, None, 0, {}) \/ job'[w] = job[w]
      BY <2>2, TakeEffect DEF DisableSet
    <3>2. account'[u] = "off"
      BY <2>2 DEF DisableSet, TypeOK
    <3> QED
      BY <2>1, <3>1, <3>2 DEF Task
  <2>3. ASSUME \/ DisableList(w) \/ DisableRevoke(w)
               \/ \E k \in Key : DisableRemovePeer(w, k)
        PROVE  account'[job'[w].user] = "off"
    <3>1. job[w].at \in DisableStages
      BY <2>3 DEF DisableList, DisableRevoke, DisableRemovePeer, At, DisableStages
    <3>2. job'[w].user = job[w].user
      <4>1. ~ Return(w)
        BY <1>3, TakeEffect DEF Return, Idle, Task, DisableStages
      <4>2. ASSUME NEW task, Take(w, task), task.user = job[w].user
            PROVE  job'[w].user = job[w].user
        BY <4>2, TakeEffect
      <4> QED
        BY <2>3, <4>1, <4>2 DEF DisableList, DisableRevoke, DisableRemovePeer, Task
    <3> QED
      BY <1>1, <3>1, <3>2 DEF OffInv
  <2> QED
    BY <1>3, <2>1, <2>2, <2>3, IntoDisable
<1> QED
  BY <1>2, <1>3 DEF OffInv

\* A row that is missed is the one whose removal has just failed, or was missed before.
LEMMA NewMissed ==
    ASSUME NEW w, Worker = {w}, TypeOK, Inv, CheckedInv(w), OffInv(w), [Next]_vars,
           Spared({"db"})', NEW k \in Missed(w)', NEW u, u = owner'[k]
    PROVE  \/ k \in Missed(w)
           \/ Fault("ssh") /\ job[w].todo \ job'[w].todo = {k}
<1>1. k \in Key /\ row'[k] = "active"
  BY DEF Missed
<1>2. ~ Fault("db")
  BY FaultSpends
<1>3. ASSUME u \in User, account[u] # "on" PROVE row[k] = "active" /\ owner[k] = u
  <2>1. k \in ListActivePeers(u)'
    BY <1>1 DEF ListActivePeers
  <2> QED
    BY <1>3, <2>1, OffStaysListed DEF ListActivePeers
<1>4. ASSUME u = job[w].user, job[w].at \in {"loop", "strike"}
      PROVE  row[k] = "active" /\ owner[k] = u /\ (k \notin job[w].todo => k \in Missed(w))
  <2>1. u \in User /\ account[u] # "on"
    BY <1>4 DEF OffInv, DisableStages, TypeOK
  <2> QED
    BY <1>1, <1>3, <1>4, <2>1 DEF Missed
<1>5. CASE u \in told'
  <2>1. CASE u \in told
    <3>1. u \in User /\ account[u] # "on"
      BY <2>1 DEF OffInv, TypeOK
    <3> QED
      BY <1>1, <1>3, <2>1, <3>1 DEF Missed
  <2>2. CASE u \notin told
    <3>1. DisableDone(w)
      BY <1>2, <1>5, <2>2, ToldSteps DEF AddUpsertUser, DisableList
    <3>2. u = job[w].user /\ job[w].at = "loop" /\ job[w].todo = {}
      BY <1>5, <2>2, <3>1 DEF DisableDone, At
    <3> QED
      BY <1>4, <3>2
  <2> QED
    BY <2>1, <2>2
<1>6. CASE job'[w].at \in {"loop", "strike"} /\ u = job'[w].user /\ k \notin job'[w].todo
  <2>1. CASE job'[w] = job[w]
    BY <1>4, <1>6, <2>1
  <2>2. ASSUME NEW v \in User PROVE ~ DisableSet(w, v) \/ job'[w] = job[w]
    BY <1>6, TakeEffect DEF DisableSet, Task
  <2>3. CASE DisableList(w)
    <3>1. job'[w] = Task("loop", job[w].user, None, 0, ListActivePeers(job[w].user))
      BY <1>2, <2>3, TakeEffect DEF DisableList
    <3>2. /\ job[w].at = "list" /\ u = job[w].user /\ u \in User
          /\ k \notin ListActivePeers(u)
      BY <1>6, <2>3, <3>1 DEF DisableList, At, Task, TypeOK
    <3>3. account[u] # "on"
      BY <3>2 DEF OffInv, DisableStages
    <3> QED
      BY <1>1, <1>3, <3>2, <3>3 DEF ListActivePeers
  <2>4. ASSUME NEW h \in Key, DisableRemovePeer(w, h)
        PROVE  \/ k \in Missed(w)
               \/ Fault("ssh") /\ job[w].todo \ job'[w].todo = {k}
    <3>1. job[w].at = "loop" /\ h \in job[w].todo
      BY <2>4 DEF DisableRemovePeer, At
    <3>2. CASE job'[w] = Task("strike", job[w].user, h, 0, job[w].todo)
      <4>1. u = job[w].user /\ k \notin job[w].todo
        BY <1>6, <3>2 DEF Task
      <4> QED
        BY <1>4, <3>1, <4>1
    <3>3. CASE /\ RemovePeerFails(h)
               /\ job'[w] = Task("loop", job[w].user, None, 0, job[w].todo \ {h})
      <4>1. /\ u = job[w].user /\ job'[w].todo = job[w].todo \ {h}
            /\ k = h \/ k \notin job[w].todo
        BY <1>6, <3>3 DEF Task
      <4>2. CASE k = h
        BY <3>1, <3>3, <4>1, <4>2 DEF RemovePeerFails
      <4> QED
        BY <1>4, <3>1, <4>1, <4>2
    <3> QED
      BY <2>4, <3>2, <3>3, TakeEffect DEF DisableRemovePeer
  <2>5. CASE DisableRevoke(w)
    <3> DEFINE h == job[w].key
    <3>1. /\ job[w].at = "strike"
          /\ job'[w] = Task("loop", job[w].user, None, 0, job[w].todo \ {h})
      BY <2>5, TakeEffect DEF DisableRevoke, At
    <3>2. row'[h] = "revoked"
      BY <1>2, <2>5, <3>1 DEF DisableRevoke, RevokePeer, TypeOK, KeyStage
    <3>3. u = job[w].user /\ k \notin job[w].todo
      BY <1>1, <1>6, <3>1, <3>2 DEF Task
    <3> QED
      BY <1>4, <3>1, <3>3
  <2> QED
    BY <1>6, <2>1, <2>2, <2>3, <2>4, <2>5, IntoDisable DEF DisableStages
<1> QED
  BY <1>5, <1>6 DEF Missed

LEMMA MissedStep ==
    ASSUME NEW w, Worker = {w}, TypeOK, Inv, CheckedInv(w), OffInv(w), MissedInv(w),
           [Next]_vars
    PROVE  MissedInv(w)'
<1> SUFFICES ASSUME Spared({"db"})'
             PROVE  Cardinality(Missed(w)') <= Count({"ssh"})'
  BY DEF MissedInv
<1>1. IsFiniteSet(Missed(w))
  BY FS_Subset, ConstantsAssumption DEF Missed, ConstantsAssumption
<1>2. Cardinality(Missed(w)) <= Count({"ssh"})
  BY OneFault, SparedBefore DEF MissedInv
<1>3. CASE Missed(w)' \subseteq Missed(w)
  BY <1>1, <1>2, <1>3, Counted
<1>4. CASE ~ (Missed(w)' \subseteq Missed(w))
  <2>1. PICK k \in Missed(w)' : k \notin Missed(w)
    BY <1>4
  <2>2. Fault("ssh") /\ job[w].todo \ job'[w].todo = {k}
    BY <2>1, NewMissed
  <2>3. Missed(w)' \subseteq Missed(w) \cup {k}
    <3> SUFFICES ASSUME NEW j \in Missed(w)', j \notin Missed(w) PROVE j = k
      OBVIOUS
    <3>1. job[w].todo \ job'[w].todo = {j}
      BY NewMissed
    <3> QED
      BY <2>2, <3>1
  <2> QED
    BY <1>1, <1>2, <2>2, <2>3, Counted
<1> QED
  BY <1>3, <1>4

\* With one update loop, while no query fails: of the users whom the admin was told to
\* be disabled and revoked, no more rows are active than SSH calls have failed,
\* OneMissedPerFault.
THEOREM ToldIsRevoked ==
    ASSUME NEW w, Worker = {w}
    PROVE  Spec => []OneMissedPerFault
<1>1. Init => OffInv(w) /\ MissedInv(w)
  <2> SUFFICES ASSUME Init PROVE OffInv(w) /\ MissedInv(w)
    OBVIOUS
  <2>1. Missed(w) = {}
    BY DEF Init, Missed
  <2> QED
    BY <2>1, NoneAtFirst, FS_EmptySet
    DEF Init, OffInv, MissedInv, DisableStages, Idle, Task
<1>2. ASSUME TypeOK, OffInv(w), [Next]_vars PROVE OffInv(w)'
  BY <1>2, OffStep
<1>3. ASSUME TypeOK, Inv, CheckedInv(w), OffInv(w), MissedInv(w), [Next]_vars
      PROVE  MissedInv(w)'
  BY <1>3, MissedStep
<1>4. TypeOK /\ MissedInv(w) => OneMissedPerFault
  <2> SUFFICES ASSUME TypeOK, MissedInv(w), Spared({"db"})
               PROVE  Cardinality(UNION {ListActivePeers(u) : u \in told})
                          <= Count({"ssh"})
    BY DEF OneMissedPerFault
  <2> DEFINE S == UNION {ListActivePeers(u) : u \in told}
  <2>1. S \subseteq Missed(w)
    BY DEF ListActivePeers, Missed
  <2>2. IsFiniteSet(Missed(w))
    BY FS_Subset, ConstantsAssumption DEF Missed, ConstantsAssumption
  <2>3. /\ Cardinality(S) \in Nat /\ Cardinality(S) <= Cardinality(Missed(w))
        /\ Cardinality(Missed(w)) \in Nat
    BY <2>1, <2>2, OneMore
  <2>4. Count({"ssh"}) \in Nat
    BY CountType
  <2> QED
    BY <2>3, <2>4 DEF MissedInv
<1>5. Spec => [](TypeOK /\ Inv /\ CheckedInv(w))
  BY CheckedAlways
<1> QED
  BY <1>1, <1>2, <1>3, <1>4, <1>5, PTL DEF Spec

-----------------------------------------------------------------------------
(* Disabling again, with one worker.  A round of revokeUserPeers ends, and  *)
(* one that no fault disturbs leaves no active row of a user who is off.    *)

InRound(w) == job[w].at \in DisableStages

\* The active rows that this round has passed over: they are not, or no more, in its list.
Passed(w) ==
    IF At(w, "list") THEN {} ELSE ListActivePeers(job[w].user) \ job[w].todo

\* The calls that are left of the round.
RoundLeft(w) ==
    CASE At(w, "list")   -> 2 * Cardinality(Key) + 2
      [] At(w, "loop")   -> 2 * Cardinality(job[w].todo) + 1
      [] At(w, "strike") -> 2 * Cardinality(job[w].todo)
      [] OTHER           -> 0

\* awg-peer-remove answers "removed" whether awg failed or not.
Undisturbed == ~ Fault("db") /\ ~ Fault("ssh") /\ ~ Fault("crash")

\* A user who is off gets no active row; each call of a round brings it nearer to its end;
\* and without a fault a round passes over nothing and ends with its whole list revoked.
RoundStep(w) ==
    /\ \A u \in User : account[u] # "on" => ListActivePeers(u)' \subseteq ListActivePeers(u)
    /\ InRound(w) /\ WorkerStep(w) => RoundLeft(w)' < RoundLeft(w)
    /\ \A u \in User : InRound(w) /\ job[w].user = u /\ Undisturbed =>
           IF InRound(w)'
           THEN job'[w].user = u /\ Passed(w)' \subseteq Passed(w)
           ELSE ListActivePeers(u)' \subseteq Passed(w)

\* The row that is to be revoked is still in the list.
StrikeInv(w) == At(w, "strike") => job[w].key \in job[w].todo

LEMMA StrikeStep ==
    ASSUME TypeOK, NEW w \in Worker, StrikeInv(w), [Next]_vars
    PROVE  StrikeInv(w)'
<1> SUFFICES ASSUME job'[w].at = "strike" PROVE job'[w].key \in job'[w].todo
  BY DEF StrikeInv, At
<1>1. CASE job'[w] = job[w]
  BY <1>1 DEF StrikeInv, At
<1>2. ASSUME NEW u \in User, DisableSet(w, u) PROVE FALSE
  BY <1>2, TakeEffect DEF DisableSet, Task, Idle
<1>3. ~ DisableList(w) /\ ~ DisableRevoke(w)
  BY TakeEffect DEF DisableList, DisableRevoke, Return, Idle, Task
<1>4. ASSUME NEW k \in Key, DisableRemovePeer(w, k)
      PROVE  job'[w].key \in job'[w].todo
  BY <1>4, TakeEffect DEF DisableRemovePeer, Task
<1> QED
  BY <1>1, <1>2, <1>3, <1>4, IntoDisable DEF DisableStages

\* The rows of a round are revoked, never made active: its worker saves nothing.
LEMMA RoundShrinks ==
    ASSUME NEW w, Worker = {w}, TypeOK, Inv, [Next]_vars, InRound(w), NEW u \in User
    PROVE  ListActivePeers(u)' \subseteq ListActivePeers(u)
<1> SUFFICES ASSUME NEW k \in Key, row'[k] = "active", owner'[k] = u
             PROVE  row[k] = "active" /\ owner[k] = u
  BY DEF ListActivePeers
<1>1. row[k] = "active"
  BY OnlySaveActivates DEF At, InRound, DisableStages
<1> QED
  BY <1>1, OwnerStays DEF Inv, KeyInv

\* What a worker in a round does is a step of the round.
LEMMA OnlyRoundSteps ==
    ASSUME NEW w \in Worker, InRound(w)
    PROVE  /\ ~ Request(w)
           /\ WorkerStep(w) => \/ DisableList(w) \/ (\E k \in Key : DisableRemovePeer(w, k))
                               \/ DisableRevoke(w) \/ DisableDone(w)
<1>1. ~ Request(w)
  <2>1. job[w] # Idle
    BY DEF InRound, DisableStages, Idle, Task
  <2> QED
    BY <2>1 DEF Request, CreateGetUser, DisableSet, AddUpsertUser, DeletePress, SetLimit
<1>2. WorkerStep(w) => \/ DisableList(w) \/ (\E k \in Key : DisableRemovePeer(w, k))
                       \/ DisableRevoke(w) \/ DisableDone(w)
  BY DEF InRound, DisableStages, At,
         WorkerStep, CreateHasAccess, CreateCheckLimit, CreateAllocate,
         CreateAllocateFails, CreateAddPeer, CreateAddPeerAwgFails, CreateAddPeerFails,
         CreateSave, CreateSaveFails, CreateCleanUp, DeleteGetPeer, DeleteRemovePeer,
         DeleteRevoke, AddGrantAccess, ReadFails
<1> QED
  BY <1>1, <1>2

\* Fewer keys to go through are fewer calls.
LEMMA TodoCounts ==
    ASSUME NEW todo \in SUBSET Key
    PROVE  /\ Cardinality(todo) \in Nat
           /\ Cardinality(todo) <= Cardinality(Key) /\ Cardinality(Key) \in Nat
           /\ \A k \in todo : Cardinality(todo \ {k}) = Cardinality(todo) - 1
<1>1. IsFiniteSet(todo)
  BY FS_Subset
<1> QED
  BY <1>1, FS_Subset, FS_CardinalityType, FS_RemoveElement

\* Each call of a round brings it nearer to its end.
LEMMA RoundNearer ==
    ASSUME TypeOK, NEW w \in Worker, StrikeInv(w), InRound(w), WorkerStep(w)
    PROVE  RoundLeft(w)' < RoundLeft(w)
<1> DEFINE t == job[w].todo
<1>0. t \in SUBSET Key
  BY DEF TypeOK, Job
<1>1. /\ Cardinality(t) \in Nat /\ Cardinality(Key) \in Nat
      /\ \A k \in t : Cardinality(t \ {k}) = Cardinality(t) - 1
  BY <1>0, TodoCounts
<1>2. ASSUME Return(w) PROVE RoundLeft(w)' = 0
  BY <1>2, ReturnEffect DEF RoundLeft, At, Idle, Task
<1>3. ASSUME NEW u, NEW s, Take(w, Task("loop", u, None, 0, s))
      PROVE  RoundLeft(w)' = 2 * Cardinality(s) + 1
  BY <1>3, TakeEffect DEF RoundLeft, At, Task
<1>4. CASE DisableList(w)
  <2> DEFINE a == ListActivePeers(job[w].user)
  <2>1. Cardinality(a) \in Nat /\ Cardinality(a) <= Cardinality(Key)
    BY TodoCounts DEF ListActivePeers
  <2>2. RoundLeft(w) = 2 * Cardinality(Key) + 2
    BY <1>4 DEF DisableList, RoundLeft, At
  <2>3. RoundLeft(w)' = 2 * Cardinality(a) + 1 \/ RoundLeft(w)' = 0
    BY <1>2, <1>3, <1>4 DEF DisableList
  <2> QED
    BY <1>1, <2>1, <2>2, <2>3
<1>5. ASSUME NEW k \in Key, DisableRemovePeer(w, k) PROVE RoundLeft(w)' < RoundLeft(w)
  <2>1. At(w, "loop") /\ k \in t
    BY <1>5 DEF DisableRemovePeer
  <2>2. RoundLeft(w) = 2 * Cardinality(t) + 1
    BY <2>1 DEF RoundLeft, At
  <2>3. CASE Take(w, Task("strike", job[w].user, k, 0, t))
    <3>1. RoundLeft(w)' = 2 * Cardinality(t)
      BY <2>3, TakeEffect DEF RoundLeft, At, Task
    <3> QED
      BY <1>1, <2>2, <3>1
  <2>4. CASE Take(w, Task("loop", job[w].user, None, 0, t \ {k}))
    BY <1>1, <1>3, <2>1, <2>2, <2>4
  <2> QED
    BY <1>5, <2>3, <2>4 DEF DisableRemovePeer
<1>6. CASE DisableRevoke(w)
  <2>1. RoundLeft(w) = 2 * Cardinality(t) /\ job[w].key \in t
    BY <1>6 DEF DisableRevoke, RoundLeft, StrikeInv, At
  <2>2. RoundLeft(w)' = 2 * Cardinality(t \ {job[w].key}) + 1
    BY <1>3, <1>6 DEF DisableRevoke
  <2> QED
    BY <1>1, <2>1, <2>2
<1>7. CASE DisableDone(w)
  <2>1. RoundLeft(w) = 2 * Cardinality(t) + 1 /\ RoundLeft(w)' = 0
    BY <1>2, <1>7 DEF DisableDone, RoundLeft, At
  <2> QED
    BY <1>1, <2>1
<1> QED
  BY <1>4, <1>5, <1>6, <1>7, OnlyRoundSteps

\* A round that no fault disturbs passes over nothing.
LEMMA RoundKeeps ==
    ASSUME NEW w, Worker = {w}, TypeOK, Inv, [Next]_vars, InRound(w), Undisturbed,
           NEW u \in User, job[w].user = u
    PROVE  IF InRound(w)'
           THEN job'[w].user = u /\ Passed(w)' \subseteq Passed(w)
           ELSE ListActivePeers(u)' \subseteq Passed(w)
<1> DEFINE Goal == IF InRound(w)'
                   THEN job'[w].user = u /\ Passed(w)' \subseteq Passed(w)
                   ELSE ListActivePeers(u)' \subseteq Passed(w)
<1>1. ListActivePeers(u)' \subseteq ListActivePeers(u)
  BY RoundShrinks
<1>2. ~ Fault("db") /\ ~ Fault("ssh") /\ ~ Fault("crash")
  BY DEF Undisturbed
<1>3. CASE job'[w] = job[w]
  BY <1>1, <1>3 DEF InRound, Passed, At, ListActivePeers
<1>4. CASE DisableList(w)
  <2>1. job'[w] = Task("loop", u, None, 0, ListActivePeers(u))
    BY <1>2, <1>4, TakeEffect DEF DisableList
  <2> QED
    BY <1>1, <2>1 DEF InRound, DisableStages, Passed, At, Task, ListActivePeers
<1>5. ASSUME NEW k \in Key, DisableRemovePeer(w, k) PROVE Goal
  <2>1. job'[w] = Task("strike", u, k, 0, job[w].todo) /\ At(w, "loop")
    BY <1>2, <1>5, TakeEffect DEF DisableRemovePeer, RemovePeerFails
  <2> QED
    BY <1>1, <2>1 DEF InRound, DisableStages, Passed, At, Task, ListActivePeers
<1>6. CASE DisableRevoke(w)
  <2> DEFINE k == job[w].key
  <2>1. job'[w] = Task("loop", u, None, 0, job[w].todo \ {k}) /\ At(w, "strike")
    BY <1>6, TakeEffect DEF DisableRevoke
  <2>2. row'[k] # "active"
    <3>1. k \in Key
      BY <2>1 DEF TypeOK, KeyStage, At
    <3> QED
      BY <1>2, <1>6, <3>1 DEF DisableRevoke, RevokePeer, TypeOK
  <2>3. k \notin ListActivePeers(u)'
    BY <2>2 DEF ListActivePeers
  <2>4. /\ InRound(w)' /\ job'[w].user = u
        /\ Passed(w)' = ListActivePeers(u)' \ (job[w].todo \ {k})
        /\ Passed(w) = ListActivePeers(u) \ job[w].todo
    BY <2>1 DEF InRound, DisableStages, Passed, At, Task, ListActivePeers
  <2> QED
    BY <1>1, <2>3, <2>4
<1>7. CASE DisableDone(w)
  <2>1. job'[w] = Idle /\ At(w, "loop") /\ job[w].todo = {}
    BY <1>7, TakeEffect DEF DisableDone, Return
  <2> QED
    BY <1>1, <2>1 DEF InRound, DisableStages, Passed, At, Idle, Task
<1> QED
  BY <1>2, <1>3, <1>4, <1>5, <1>6, <1>7, OnlyRoundSteps
  DEF Next, Crash, LateCommand, Reboot, vars

\* The safety half of RepeatedDisableFinishes, with one update loop and whatever fails: a
\* user who is off gets no active row, every round of revokeUserPeers comes to its end,
\* and one without a failed or interrupted call leaves the user no active row.
THEOREM RoundsFinish ==
    ASSUME NEW w, Worker = {w}
    PROVE  Spec => [][RoundStep(w)]_vars
<1>1. Init => StrikeInv(w)
  BY DEF Init, StrikeInv, At, Idle, Task
<1>2. TypeOK /\ StrikeInv(w) /\ [Next]_vars => StrikeInv(w)'
  BY StrikeStep
<1>3. ASSUME TypeOK, Inv, CheckedInv(w), StrikeInv(w), [Next]_vars
      PROVE  RoundStep(w)
  <2>1. \A u \in User : account[u] # "on" => ListActivePeers(u)' \subseteq ListActivePeers(u)
    BY <1>3, OffStaysListed
  <2> QED
    BY <1>3, <2>1, RoundNearer, RoundKeeps DEF RoundStep
<1>4. Spec => [](TypeOK /\ Inv /\ CheckedInv(w))
  BY CheckedAlways
<1> QED
  BY <1>1, <1>2, <1>3, <1>4, PTL DEF Spec
=============================================================================
