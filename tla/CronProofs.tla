----------------------------- MODULE CronProofs -----------------------------
(***************************************************************************)
(* Theorems about the owner's scheduled tasks, which the agent's cloud     *)
(* knows only through what the plugin reports.                             *)
(*                                                                         *)
(* CronStandby, for any number of tasks, standby requests, moves of the    *)
(* session and faults: the cloud keeps every task the owner did not remove.*)
(* A task goes by two ids: the one the cloud last saw and the one of its   *)
(* job in the store.  Coming back from standby removes every job, and the  *)
(* argument is that none of those ids is ever reported: it is in resetIds  *)
(* as long as its event is under way.  So most steps only ever take ids    *)
(* out of what is reported (LeavesIds); the four others get a step each.   *)
(*                                                                         *)
(* CronMirror, for any tasks, numbers, breaks and bound of the list: a     *)
(* task that was deleted is not forgotten on the way to the cloud.  The    *)
(* argument is over what is still owed to the cloud (Owed) and what a      *)
(* snapshot on its way may show of it.                                     *)
(***************************************************************************)
EXTENDS CronStandby, CronMirror, FiniteSetTheorems, WellFoundedInduction, TLAPS

-----------------------------------------------------------------------------
(* CronStandby.                                                            *)

\* The step changes no id a task goes by, and nothing more is reported than before.
LeavesIds ==
    /\ UNCHANGED <<lastId, known, tasks, removedHere>>
    /\ job' \in [Keys -> [id : 0 .. lastId, on : BOOLEAN]]
    /\ \A k \in Keys : job'[k].id = job[k].id
    /\ Reported' \subseteq Reported
    /\ (removals \cup snapshot.removed \cup events)'
         \subseteq removals \cup snapshot.removed \cup events

\* A step that leaves every job's id, the ids on the way and the cloud's tasks alone.
LEMMA LeavesIdsKeeps == KeptIInv /\ LeavesIds /\ Listed' => KeptIInv'
<1> SUFFICES ASSUME KeptIInv, LeavesIds, Listed' PROVE KeptIInv'
  OBVIOUS
<1>1. IdsInUse'
  BY DEF KeptIInv, IdsInUse, LeavesIds
<1>2. OwnIds'
  BY DEF KeptIInv, OwnIds, LeavesIds
<1>3. KeptUnreported'
  BY DEF KeptIInv, KeptUnreported, LeavesIds
<1>4. TasksKept'
  BY DEF KeptIInv, TasksKept, LeavesIds
<1> QED
  BY <1>1, <1>2, <1>3, <1>4 DEF KeptIInv

\* The owner's tasks start with one job each, known to the cloud under its id.
LEMMA InitKept == Init => KeptIInv
<1> SUFFICES ASSUME Init PROVE KeptIInv
  OBVIOUS
<1> USE DEF Init
<1>1. Cardinality(Keys) \in Nat
  BY BoundsAssumption, FS_CardinalityType
<1>2. PICK ids \in [Keys -> 1 .. Cardinality(Keys)] :
         /\ \A k1, k2 \in Keys : ids[k1] = ids[k2] => k1 = k2
         /\ job = [k \in Keys |-> [id |-> ids[k], on |-> TRUE]]
  OBVIOUS
<1>3. IdsInUse /\ Listed
  BY <1>1, <1>2 DEF IdsInUse, Listed, NoSnapshot, Free, Steps
<1>4. OwnIds
  BY <1>2 DEF OwnIds
<1>5. KeptUnreported /\ TasksKept
  BY DEF KeptUnreported, Reported, NoSnapshot, TasksKept
<1> QED
  BY <1>3, <1>4, <1>5 DEF KeptIInv

\* A handler's list holds ids that jobs had.
LEMMA ListedKept == IdsInUse /\ Listed /\ [Next]_vars => Listed'
<1> SUFFICES ASSUME IdsInUse, Listed, [Next]_vars PROVE Listed'
  OBVIOUS
<1> USE DEF Listed, Steps
<1>1. CASE UNCHANGED handler
  BY <1>1
<1>2. ASSUME NEW desired, NEW ack, Reconcile(desired, ack) PROVE Listed'
  BY <1>2 DEF Reconcile
<1>3. CASE PingAccepted \/ ConnectRefused
  BY <1>2, <1>3 DEF PingAccepted, ConnectRefused
<1>4. ASSUME NEW h \in Handlers, NEW answer, Return(h, answer) PROVE Listed'
  BY <1>4 DEF Return, Free
<1>5. ASSUME NEW h \in Handlers, Serve(h) PROVE Listed'
  <2> DEFINE ListsTodo(T, s) == handler' = [handler EXCEPT ![h] = [step |-> s, failed |-> FALSE, todo |-> T]]
  <2>0. ASSUME NEW T \in SUBSET (Keys \X (Nat \ {0})), NEW s \in Steps, ListsTodo(T, s) PROVE Listed'
    BY <2>0
  <2>1. CASE EnterMarks(h) \/ LeaveEndsStandby(h)
    BY <2>1 DEF EnterMarks, LeaveEndsStandby, Step
  <2>2. CASE EnterReturns(h) \/ LeaveConfirms(h) \/ LeaveFails(h) \/ LeaveReturns(h)
    BY <2>2, <1>4 DEF EnterReturns, LeaveConfirms, LeaveFails, LeaveReturns
  <2>3. CASE EnterLists(h)
    <3>1. {<<k, job[k].id>> : k \in {i \in Present : job[i].on}} \in SUBSET (Keys \X (Nat \ {0}))
      BY DEF Present, IdsInUse
    <3> QED
      BY <2>0, <2>3, <3>1, <1>4 DEF EnterLists
  <2>4. CASE LeaveLists(h)
    <3>1. {<<k, job[k].id>> : k \in Present} \in SUBSET (Keys \X (Nat \ {0}))
      BY DEF Present, IdsInUse
    <3> QED
      BY <2>0, <2>4, <3>1, <1>4 DEF LeaveLists
  <2>5. CASE EnterDisables(h) \/ LeaveRemoves(h)
    <3>1. PICK t \in handler[h].todo :
             \/ handler' = [handler EXCEPT ![h].todo = @ \ {t}]
             \/ handler' = [handler EXCEPT ![h].todo = @ \ {t}, ![h].failed = TRUE]
      BY <2>5 DEF EnterDisables, LeaveRemoves
    <3>2. CASE handler' = [handler EXCEPT ![h].todo = @ \ {t}]
      BY <3>2
    <3>3. CASE handler' = [handler EXCEPT ![h].todo = @ \ {t}, ![h].failed = TRUE]
      BY <3>3
    <3> QED
      BY <3>1, <3>2, <3>3
  <2> QED
    BY <1>5, <2>1, <2>2, <2>3, <2>4, <2>5 DEF Serve
<1>6. CASE GatewayRestarts
  BY <1>6 DEF GatewayRestarts, Free
<1>7. CASE UNCHANGED vars
  BY <1>7 DEF vars
<1>8. AnswerArrives \/ SnapshotPosted \/ SnapshotAnswered \/ RestoreBegins \/ RestoreDropped
        \/ AddLands \/ RemovedEvent \/ SessionMoves \/ JobRemoved \/ SnapshotAborted
        \/ ReconcileTimesOut \/ AgentRestarts => UNCHANGED handler
  BY DEF AnswerArrives, SnapshotPosted, SnapshotAnswered, RestoreBegins, RestoreDropped, AddLands,
         RemovedEvent, SessionMoves, JobRemoved, SnapshotAborted, ReconcileTimesOut, AgentRestarts
<1> QED
  BY <1>1, <1>3, <1>5, <1>6, <1>7, <1>8 DEF Next, Agent, Plugin, World

\* The agent server touches neither the store nor the cloud's tasks.
LEMMA AgentLeaves ==
    IdsInUse /\ (Agent \/ ReconcileTimesOut \/ AgentRestarts \/ SessionMoves) => LeavesIds
  BY DEF Agent, PingAccepted, ConnectRefused, AnswerArrives, ReconcileTimesOut, AgentRestarts,
         SessionMoves, LeavesIds, Reported, storeVars, queueVars, removeVars, cloudVars, IdsInUse

\* Every step of a standby request but the removal; a disabled job keeps its id.
LEMMA ServeLeaves ==
    ASSUME KeptIInv, NEW h \in Handlers, Serve(h), ~LeaveRemoves(h)
    PROVE  LeavesIds
<1> USE DEF LeavesIds, Reported, storeVars, queueVars, removeVars, cloudVars, KeptIInv, IdsInUse
<1>1. CASE EnterMarks(h)
  BY <1>1 DEF EnterMarks
<1>2. CASE EnterLists(h)
  BY <1>2 DEF EnterLists, NoSnapshot
<1>3. CASE EnterDisables(h)
  <2>1. PICK t \in handler[h].todo :
           \/ job[t[1]].id = t[2] /\ job' = [job EXCEPT ![t[1]].on = FALSE]
           \/ job' = job
    BY <1>3 DEF EnterDisables
  <2>2. t[1] \in Keys
    BY DEF Listed
  <2>3. /\ job' \in [Keys -> [id : 0 .. lastId, on : BOOLEAN]]
        /\ \A k \in Keys : job'[k].id = job[k].id
    BY <2>1, <2>2
  <2> QED
    BY <1>3, <2>3 DEF EnterDisables
<1>4. CASE EnterReturns(h)
  BY <1>4 DEF EnterReturns
<1>5. CASE LeaveConfirms(h)
  BY <1>5 DEF LeaveConfirms
<1>6. CASE LeaveLists(h)
  BY <1>6 DEF LeaveLists
<1>7. CASE LeaveFails(h)
  BY <1>7 DEF LeaveFails
<1>8. CASE LeaveEndsStandby(h)
  BY <1>8 DEF LeaveEndsStandby
<1>9. CASE LeaveReturns(h)
  BY <1>9 DEF LeaveReturns
<1> QED
  BY <1>1, <1>2, <1>3, <1>4, <1>5, <1>6, <1>7, <1>8, <1>9 DEF Serve

\* Snapshots' answers and aborts, restores and hook events report nothing new.
LEMMA QueuesLeave ==
    ASSUME IdsInUse,
           SnapshotAnswered \/ SnapshotAborted \/ RestoreBegins \/ RestoreDropped \/ RemovedEvent
             \/ GatewayRestarts
    PROVE  LeavesIds
<1> USE DEF LeavesIds, Reported, storeVars, queueVars, removeVars, cloudVars, IdsInUse
<1>1. CASE SnapshotAnswered
  BY <1>1 DEF SnapshotAnswered, NoSnapshot
<1>2. CASE SnapshotAborted
  BY <1>2 DEF SnapshotAborted, NoSnapshot
<1>3. CASE RestoreBegins \/ RestoreDropped
  BY <1>3 DEF RestoreBegins, RestoreDropped
<1>4. CASE RemovedEvent
  BY <1>4 DEF RemovedEvent
<1>5. CASE GatewayRestarts
  BY <1>5 DEF GatewayRestarts, NoSnapshot
<1> QED
  BY <1>1, <1>2, <1>3, <1>4, <1>5

\* A job leaves the store, and only its own id becomes an event: reported only for a task the
\* owner removed, or not at all.
LEMMA RemovalKeeps ==
    ASSUME KeptIInv, Listed', NEW k \in Keys, job[k].id # 0,
           job' = [job EXCEPT ![k] = NoJob],
           events' = events \cup {job[k].id},
           \/ resetIds' = resetIds \cup {job[k].id} /\ removedHere' = removedHere
           \/ resetIds' = resetIds /\ removedHere' = removedHere \cup {k},
           UNCHANGED <<lastId, snapshot, removals, tasks, known>>
    PROVE  KeptIInv'
<1> USE DEF KeptIInv
<1>1. IdsInUse'
  BY DEF IdsInUse, NoJob
<1>2. OwnIds'
  BY DEF OwnIds, IdsInUse, NoJob
<1>3. TasksKept'
  BY DEF TasksKept
<1>4. KeptUnreported'
  <2> SUFFICES ASSUME NEW i \in Keys \ removedHere' PROVE {known[i], job'[i].id} \cap Reported' = {}
    BY DEF KeptUnreported
  <2>1. i \notin removedHere /\ job'[i].id \in {0, job[i].id} /\ known[i] # 0
    BY DEF IdsInUse, NoJob
  <2>2. 0 \notin Reported'
    BY <1>1 DEF IdsInUse, Reported
  <2>3. {known[i], job[i].id} \cap Reported = {}
    BY <2>1 DEF KeptUnreported
  <2>4. CASE resetIds' = resetIds \cup {job[k].id} /\ removedHere' = removedHere
    <3>1. Reported' \subseteq Reported
      BY <2>4 DEF Reported
    <3> QED
      BY <2>1, <2>2, <2>3, <3>1
  <2>5. CASE resetIds' = resetIds /\ removedHere' = removedHere \cup {k}
    <3>1. Reported' \subseteq Reported \cup {job[k].id} /\ i # k
      BY <2>5 DEF Reported
    <3>2. job[k].id \notin {known[i], job[i].id}
      BY <3>1 DEF OwnIds
    <3> QED
      BY <2>1, <2>2, <2>3, <3>1, <3>2
  <2> QED
    BY <2>4, <2>5
<1> QED
  BY <1>1, <1>2, <1>3, <1>4

\* Coming back from standby: the id goes from the store to resetIds with its event, or the job
\* was gone, or stays.
LEMMA LeaveRemovesKeeps ==
    ASSUME KeptIInv, Listed', NEW h \in Handlers, LeaveRemoves(h)
    PROVE  KeptIInv'
<1> USE DEF queueVars, cloudVars
<1>1. PICK t \in handler[h].todo :
         /\ resetIds' = resetIds \cup {t[2]}
         /\ \/ /\ job[t[1]].id = t[2]
               /\ job' = [job EXCEPT ![t[1]] = NoJob] /\ events' = events \cup {t[2]}
            \/ UNCHANGED <<job, events>>
  BY DEF LeaveRemoves
<1>2. UNCHANGED <<lastId, snapshot, removals, removedHere, tasks, known>>
  BY DEF LeaveRemoves
<1>3. t[1] \in Keys /\ t[2] # 0
  BY DEF KeptIInv, Listed
<1>4. CASE job' = [job EXCEPT ![t[1]] = NoJob] /\ events' = events \cup {t[2]} /\ job[t[1]].id = t[2]
  BY <1>1, <1>2, <1>3, <1>4, RemovalKeeps
<1>5. CASE UNCHANGED <<job, events>>
  <2>1. LeavesIds
    BY <1>1, <1>2, <1>5 DEF LeavesIds, Reported, KeptIInv, IdsInUse
  <2> QED
    BY <2>1, LeavesIdsKeeps
<1> QED
  BY <1>1, <1>4, <1>5

\* OpenClaw removes a job.
LEMMA JobRemovedKeeps == KeptIInv /\ Listed' /\ JobRemoved => KeptIInv'
<1> SUFFICES ASSUME KeptIInv, Listed', JobRemoved PROVE KeptIInv'
  OBVIOUS
<1>1. PICK k \in Present :
         /\ job' = [job EXCEPT ![k] = NoJob]
         /\ events' = events \cup {job[k].id} /\ removedHere' = removedHere \cup {k}
  BY DEF JobRemoved
<1>2. UNCHANGED <<lastId, snapshot, removals, resetIds, tasks, known>>
  BY DEF JobRemoved, queueVars, cloudVars
<1> QED
  BY <1>1, <1>2, RemovalKeeps DEF Present

\* A job that is added gets an id nobody had.
LEMMA AddLandsKeeps == KeptIInv /\ Listed' /\ AddLands => KeptIInv'
<1> SUFFICES ASSUME KeptIInv, Listed', AddLands PROVE KeptIInv'
  OBVIOUS
<1> USE DEF queueVars, removeVars, cloudVars
<1>1. UNCHANGED <<snapshot, removals, events, resetIds, removedHere, tasks, known>>
  BY DEF AddLands
<1>2. CASE UNCHANGED <<job, lastId>>
  <2>1. LeavesIds
    BY <1>1, <1>2 DEF LeavesIds, Reported, KeptIInv, IdsInUse
  <2> QED
    BY <2>1, LeavesIdsKeeps
<1>3. ASSUME NEW k, lastId' = lastId + 1, job' = [job EXCEPT ![k] = [id |-> lastId + 1, on |-> TRUE]]
      PROVE  KeptIInv'
  <2> USE DEF KeptIInv
  <2>1. IdsInUse'
    <3>1. [id |-> lastId + 1, on |-> TRUE] \in [id : 0 .. lastId + 1, on : BOOLEAN]
      BY DEF IdsInUse
    <3>2. job \in [Keys -> [id : 0 .. lastId + 1, on : BOOLEAN]]
      BY DEF IdsInUse
    <3>3. job' \in [Keys -> [id : 0 .. lastId + 1, on : BOOLEAN]]
      BY <1>3, <3>1, <3>2
    <3> QED
      BY <1>1, <1>3, <3>3 DEF IdsInUse
  <2>2. \A i \in Keys : (job'[i].id = lastId + 1 /\ i = k) \/ job'[i] = job[i]
    BY <1>3 DEF IdsInUse
  <2>3. \A i \in Keys : lastId + 1 \notin {known[i], job[i].id}
    BY DEF IdsInUse
  <2>4. OwnIds'
    BY <1>1, <2>2, <2>3 DEF OwnIds
  <2>5. lastId + 1 \notin Reported /\ Reported' = Reported
    BY <1>1 DEF IdsInUse, Reported
  <2>6. KeptUnreported'
    BY <1>1, <2>2, <2>5 DEF KeptUnreported
  <2>7. TasksKept'
    BY <1>1 DEF TasksKept
  <2> QED
    BY <2>1, <2>4, <2>6, <2>7
<1> QED
  BY <1>2, <1>3 DEF AddLands

\* The cloud deletes by removed id, and learns the ids of the jobs it is shown.
LEMMA SnapshotPostedKeeps == KeptIInv /\ Listed' /\ SnapshotPosted => KeptIInv'
<1> SUFFICES ASSUME KeptIInv, Listed', SnapshotPosted PROVE KeptIInv'
  OBVIOUS
<1> USE DEF KeptIInv
<1>1. /\ tasks' = {k \in tasks : known[k] \notin removals}
      /\ known' = [k \in Keys |-> IF k \in Present THEN job[k].id ELSE known[k]]
      /\ snapshot'.removed = removals
      /\ UNCHANGED <<job, lastId, removals, events, resetIds, removedHere>>
  BY DEF SnapshotPosted, CloudTakesSnapshot, storeVars, removeVars
<1>2. \A k \in Keys : known'[k] \in {known[k], job[k].id} /\ known'[k] # 0
  BY <1>1 DEF Present, IdsInUse
<1>3. IdsInUse'
  BY <1>1, <1>2 DEF IdsInUse
<1>4. OwnIds'
  <2> SUFFICES ASSUME NEW i \in Keys, NEW k \in Keys, i # k
               PROVE  /\ known'[i] \notin {known'[k], job[k].id}
                      /\ job[i].id # 0 => job[i].id # job[k].id
    BY <1>1 DEF OwnIds
  <2> QED
    BY <1>2 DEF OwnIds, IdsInUse
<1>5. Reported' \subseteq Reported
  BY <1>1 DEF Reported
<1>6. KeptUnreported'
  BY <1>1, <1>2, <1>5 DEF KeptUnreported
<1>7. TasksKept'
  BY <1>1 DEF TasksKept, KeptUnreported, Reported
<1> QED
  BY <1>3, <1>4, <1>6, <1>7

\* Every step keeps it.
LEMMA StepKept == KeptIInv /\ [Next]_vars => KeptIInv'
<1> SUFFICES ASSUME KeptIInv, [Next]_vars PROVE KeptIInv'
  OBVIOUS
<1>1. IdsInUse /\ Listed'
  BY ListedKept DEF KeptIInv
<1>2. CASE Agent \/ ReconcileTimesOut \/ AgentRestarts \/ SessionMoves
  BY <1>1, <1>2, AgentLeaves, LeavesIdsKeeps
<1>3. ASSUME NEW h \in Handlers, Serve(h) PROVE KeptIInv'
  <2>1. CASE LeaveRemoves(h)
    BY <1>1, <2>1, LeaveRemovesKeeps
  <2>2. CASE ~LeaveRemoves(h)
    BY <1>1, <1>3, <2>2, ServeLeaves, LeavesIdsKeeps
  <2> QED
    BY <2>1, <2>2
<1>4. CASE SnapshotAnswered \/ SnapshotAborted \/ RestoreBegins \/ RestoreDropped \/ RemovedEvent
             \/ GatewayRestarts
  BY <1>1, <1>4, QueuesLeave, LeavesIdsKeeps
<1>5. CASE SnapshotPosted
  BY <1>1, <1>5, SnapshotPostedKeeps
<1>6. CASE AddLands
  BY <1>1, <1>6, AddLandsKeeps
<1>7. CASE JobRemoved
  BY <1>1, <1>7, JobRemovedKeeps
<1>8. CASE UNCHANGED vars
  <2>1. LeavesIds
    BY <1>1, <1>8 DEF vars, LeavesIds, Reported, IdsInUse, storeVars, queueVars, removeVars,
       cloudVars
  <2> QED
    BY <1>1, <2>1, LeavesIdsKeeps
<1> QED
  BY <1>2, <1>3, <1>4, <1>5, <1>6, <1>7, <1>8 DEF Next, Plugin, World

\* Coming back from standby removes every job of the store, yet none of them is reported to the
\* cloud as removed: it keeps every task the owner did not remove (CronStandby.TasksKept).
THEOREM TasksStayKept == Spec => []TasksKept
<1>1. KeptIInv => TasksKept
  BY DEF KeptIInv
<1> QED
  BY <1>1, InitKept, StepKept, PTL DEF Spec

-----------------------------------------------------------------------------
(* CronMirror: numbers and lists first.                                    *)

\* Naturals have a least one: what fails for some number fails for a first one.
LEMMA NatMin ==
  ASSUME NEW T, T \subseteq Nat, T # {}
  PROVE  \E x \in T : \A y \in T : x <= y
  <1>1. PICK t \in T : TRUE  OBVIOUS
  <1> DEFINE Low == {n \in T : n <= t}
             Sets == {0..n : n \in Low}
  <1>3. IsWellFoundedOn(StrictSubsetOrdering(0..t), FiniteSubsetsOf(0..t))
    BY FS_StrictSubsetOrderingWellFounded
  <1>2. \A n \in Low : IsFiniteSet(0..n)  BY FS_Interval
  <1>4. Sets \subseteq FiniteSubsetsOf(0..t) /\ Sets # {}
    <2>1. \A n \in Low : 0..n \in FiniteSubsetsOf(0..t)  BY <1>2 DEF FiniteSubsetsOf
    <2> QED BY <1>1, <2>1
  <1>5. PICK X \in Sets : \A Y \in Sets : ~(<<Y, X>> \in StrictSubsetOrdering(0..t))
    <2> HIDE DEF Sets
    <2> QED BY <1>3, <1>4, WFMin
  <1>6. PICK x \in Low : X = 0..x  OBVIOUS
  <1>7. \A y \in Low : x <= y
    <2> SUFFICES ASSUME NEW y \in Low, y < x  PROVE FALSE
      BY <1>6
    <2>1. 0..y \subseteq 0..x /\ x \in 0..x /\ x \notin 0..y  BY <1>6
    <2>2. <<0..y, 0..x>> \in StrictSubsetOrdering(0..t)
      BY <2>1, <1>4, <1>6 DEF FiniteSubsetsOf, StrictSubsetOrdering
    <2> QED BY <2>2, <1>5, <1>6
  <1> QED BY <1>6, <1>7

\* Cutting the list to its bound brings nothing new.
LEMMA BoundedIs ==
  ASSUME NEW S, NEW list \in Seq(S)
  PROVE  Bounded(list) \in Seq(S) /\ ToSet(Bounded(list)) \subseteq ToSet(list)
  <1> DEFINE from == IF Len(list) > MAX_PENDING_REMOVALS THEN Len(list) - MAX_PENDING_REMOVALS + 1 ELSE 1
  <1>1. from \in Nat /\ from >= 1 /\ Len(list) \in Nat  BY MirrorAssumption
  <1>2. \A i \in from..Len(list) : i \in DOMAIN list  BY <1>1
  <1>3. Bounded(list) = SubSeq(list, from, Len(list))  BY DEF Bounded
  <1> HIDE DEF from
  <1>4. Bounded(list) \in Seq(S)  BY <1>1, <1>3
  <1>5. \A i \in DOMAIN Bounded(list) : \E j \in DOMAIN list : Bounded(list)[i] = list[j]
    <2> TAKE i \in DOMAIN Bounded(list)
    <2>1. CASE from <= Len(list)
      <3>1. Len(Bounded(list)) = Len(list) - from + 1  BY <1>1, <1>3, <2>1
      <3>2. i \in 1..(Len(list) - from + 1)  BY <3>1, <1>4
      <3>3. Bounded(list)[i] = list[from + i - 1]  BY <1>1, <1>3, <2>1, <3>2
      <3> QED BY <1>1, <3>2, <3>3
    <2>2. CASE from > Len(list)
      <3>1. Len(Bounded(list)) = 0  BY <1>1, <1>3, <2>2
      <3> QED BY <3>1, <1>4
    <2> QED BY <1>1, <2>1, <2>2
  <1> QED BY <1>4, <1>5 DEF ToSet

\* The newest is never cut.
LEMMA BoundedKeepsLast ==
  ASSUME NEW S, NEW list \in Seq(S), Len(list) # 0
  PROVE  list[Len(list)] \in ToSet(Bounded(list))
  <1> DEFINE from == IF Len(list) > MAX_PENDING_REMOVALS THEN Len(list) - MAX_PENDING_REMOVALS + 1 ELSE 1
             last == Len(list) - from + 1
  <1>1. from \in Nat /\ from >= 1 /\ from <= Len(list) /\ Len(list) \in Nat  BY MirrorAssumption
  <1>2. Bounded(list) = SubSeq(list, from, Len(list))  BY DEF Bounded
  <1> HIDE DEF from
  <1>3. Len(Bounded(list)) = last /\ last \in 1..last /\ from + last - 1 = Len(list)  BY <1>1, <1>2
  <1>4. Bounded(list)[last] = list[Len(list)]
    <2>1. SubSeq(list, from, Len(list))[last] = list[from + last - 1]  BY <1>1, <1>3
    <2> QED BY <2>1, <1>2, <1>3
  <1>5. last \in DOMAIN Bounded(list)  BY <1>1, <1>2, <1>3
  <1> QED BY <1>4, <1>5 DEF ToSet

\* Appending brings one thing more.
LEMMA AppendIs ==
  ASSUME NEW S, NEW list \in Seq(S), NEW e \in S
  PROVE  Append(list, e) \in Seq(S) /\ ToSet(Append(list, e)) = ToSet(list) \cup {e}
  <1>1. Append(list, e) \in Seq(S)  OBVIOUS
  <1>2. DOMAIN Append(list, e) = 1..(Len(list) + 1) /\ DOMAIN list = 1..Len(list)  OBVIOUS
  <1>3. \A i \in 1..Len(list) : Append(list, e)[i] = list[i]  OBVIOUS
  <1>4. Append(list, e)[Len(list) + 1] = e  OBVIOUS
  <1>5. ToSet(Append(list, e)) \subseteq ToSet(list) \cup {e}
    <2> SUFFICES ASSUME NEW i \in 1..(Len(list) + 1)  PROVE Append(list, e)[i] \in ToSet(list) \cup {e}
      BY <1>2 DEF ToSet
    <2>1. CASE i \in 1..Len(list)  BY <2>1, <1>2, <1>3 DEF ToSet
    <2>2. CASE i = Len(list) + 1  BY <2>2, <1>4
    <2> QED BY <2>1, <2>2
  <1>6. ToSet(list) \cup {e} \subseteq ToSet(Append(list, e))
    <2>1. e \in ToSet(Append(list, e))  BY <1>2, <1>4 DEF ToSet
    <2>2. ASSUME NEW i \in 1..Len(list)  PROVE list[i] \in ToSet(Append(list, e))
      BY <1>2, <1>3 DEF ToSet
    <2> QED BY <1>2, <2>1, <2>2 DEF ToSet
  <1> QED BY <1>1, <1>5, <1>6

\* What kept is in Without.
Keeps(list, sent, g, m) ==
    g = [n \in 0..m |-> IF n = 0 THEN <<>>
                        ELSE IF list[n] \in sent THEN g[n - 1] ELSE Append(g[n - 1], list[n])]

\* Going through a list has a result, of any length.
LEMMA KeepsExists ==
  ASSUME NEW S, NEW list \in Seq(S), NEW sent
  PROVE  \A m \in Nat : \E g : Keeps(list, sent, g, m)
  <1> DEFINE Bad == {m \in Nat : ~ \E g : Keeps(list, sent, g, m)}
  <1> SUFFICES ASSUME Bad # {} PROVE FALSE  OBVIOUS
  <1>1. PICK m \in Bad : \A k \in Bad : m <= k
    <2>1. Bad \subseteq Nat  OBVIOUS
    <2> HIDE DEF Bad
    <2> QED BY <2>1, NatMin
  <1>2. CASE m = 0
    <2> DEFINE h == [n \in 0..0 |-> <<>>]
    <2>1. Keeps(list, sent, h, 0)
      <3> SUFFICES h = [n \in 0..0 |-> IF n = 0 THEN <<>>
                        ELSE IF list[n] \in sent THEN h[n - 1] ELSE Append(h[n - 1], list[n])]
        BY DEF Keeps
      <3> QED OBVIOUS
    <2> QED BY <1>1, <1>2, <2>1
  <1>3. CASE m # 0
    <2>1. m - 1 \in Nat /\ m - 1 \notin Bad  BY <1>1, <1>3
    <2>2. PICK g : Keeps(list, sent, g, m - 1)  BY <2>1
    <2> DEFINE last == IF list[m] \in sent THEN g[m - 1] ELSE Append(g[m - 1], list[m])
               h == [n \in 0..m |-> IF n = m THEN last ELSE g[n]]
    <2>3. \A n \in 0..(m - 1) :
             g[n] = (IF n = 0 THEN <<>> ELSE IF list[n] \in sent THEN g[n - 1] ELSE Append(g[n - 1], list[n]))
      <3> DEFINE rhs(n) == IF n = 0 THEN <<>> ELSE IF list[n] \in sent THEN g[n - 1] ELSE Append(g[n - 1], list[n])
      <3>1. g = [n \in 0..(m - 1) |-> rhs(n)]  BY <2>2 DEF Keeps
      <3> HIDE DEF rhs
      <3>2. \A n \in 0..(m - 1) : g[n] = rhs(n)  BY <3>1
      <3> QED BY <3>2 DEF rhs
    <2>4. ASSUME NEW n \in 0..m
          PROVE h[n] = (IF n = 0 THEN <<>> ELSE IF list[n] \in sent THEN h[n - 1] ELSE Append(h[n - 1], list[n]))
      <3>1. CASE n = m
        <4>1. h[n] = last /\ h[n - 1] = g[m - 1]  BY <2>1, <3>1, <1>3
        <4> QED BY <4>1, <3>1, <1>3
      <3>2. CASE n # m
        <4>1. n \in 0..(m - 1) /\ h[n] = g[n]  BY <2>1, <3>2
        <4>2. n # 0 => h[n - 1] = g[n - 1]  BY <2>1, <3>2
        <4> HIDE DEF h
        <4> QED BY <4>1, <4>2, <2>3
      <3> QED BY <3>1, <3>2
    <2>5. h = [n \in 0..m |-> h[n]]  OBVIOUS
    <2> HIDE DEF h
    <2>6. Keeps(list, sent, h, m)  BY <2>4, <2>5 DEF Keeps
    <2> QED BY <2>6, <1>1
  <1> QED BY <1>2, <1>3

\* Without leaves out what was sent, and nothing else.
LEMMA WithoutIs ==
  ASSUME NEW S, NEW list \in Seq(S), NEW sent
  PROVE  Without(list, sent) \in Seq(S) /\ ToSet(Without(list, sent)) = ToSet(list) \ sent
  <1> DEFINE L == Len(list)
             g == CHOOSE g : Keeps(list, sent, g, L)
  <1>1. L \in Nat  OBVIOUS
  <1>2. Keeps(list, sent, g, L)
    <2>1. \E x : Keeps(list, sent, x, L)  BY <1>1, KeepsExists
    <2> QED BY <2>1
  <1>3. Without(list, sent) = g[L]  BY DEF Without, Keeps
  <1> HIDE DEF g
  <1> DEFINE rhs(n) == IF n = 0 THEN <<>> ELSE IF list[n] \in sent THEN g[n - 1] ELSE Append(g[n - 1], list[n])
  <1>4. \A n \in 0..L : g[n] = rhs(n)
    <2>1. g = [n \in 0..L |-> rhs(n)]  BY <1>2 DEF Keeps
    <2> HIDE DEF rhs
    <2> QED BY <2>1
  <1> DEFINE First(n) == {list[i] : i \in 1..n}
             Good(n) == g[n] \in Seq(S) /\ ToSet(g[n]) = First(n) \ sent
             Bad == {n \in 0..L : ~Good(n)}
  <1> HIDE DEF Good
  <1>5. Bad = {}
    <2> SUFFICES ASSUME Bad # {} PROVE FALSE  OBVIOUS
    <2>1. PICK m \in Bad : \A k \in Bad : m <= k
      <3>1. Bad \subseteq Nat  BY <1>1
      <3> HIDE DEF Bad
      <3> QED BY <3>1, NatMin
    <2>2. CASE m = 0
      <3>1. g[0] = <<>>  BY <1>1, <1>4
      <3>2. First(0) = {}  OBVIOUS
      <3>3. ToSet(<<>>) = {} /\ <<>> \in Seq(S)  BY DEF ToSet
      <3>4. Good(0)  BY <3>1, <3>2, <3>3 DEF Good
      <3> QED BY <2>1, <2>2, <3>4
    <2>3. CASE m # 0
      <3>1. m \in 1..L /\ m - 1 \in 0..L /\ m - 1 \notin Bad  BY <1>1, <2>1, <2>3
      <3>2. Good(m - 1)  BY <3>1
      <3>3. First(m) = First(m - 1) \cup {list[m]}  BY <3>1, <1>1
      <3>4. g[m] = IF list[m] \in sent THEN g[m - 1] ELSE Append(g[m - 1], list[m])
        BY <1>4, <3>1, <2>3
      <3>5. list[m] \in S  BY <3>1
      <3> DEFINE prev == g[m - 1]
                 e == list[m]
      <3>6. prev \in Seq(S) /\ e \in S /\ ToSet(prev) = First(m - 1) \ sent  BY <3>2, <3>5 DEF Good
      <3>7. Append(prev, e) \in Seq(S) /\ ToSet(Append(prev, e)) = ToSet(prev) \cup {e}
        <4> HIDE DEF prev, e
        <4> QED BY <3>6, AppendIs
      <3>8. Good(m)
        <4> HIDE DEF First
        <4>1. CASE e \in sent  BY <4>1, <3>3, <3>4, <3>6 DEF Good
        <4>2. CASE e \notin sent  BY <4>2, <3>3, <3>4, <3>6, <3>7 DEF Good
        <4> QED BY <4>1, <4>2
      <3> QED BY <2>1, <3>8
    <2> QED BY <2>2, <2>3
  <1>6. Good(L)  BY <1>1, <1>5
  <1>7. First(L) = ToSet(list)  BY DEF ToSet
  <1> QED BY <1>3, <1>6, <1>7 DEF Good

\* What a request, a noted removal and the reported ones do to the state.
SupersedesOnly ==
    /\ behindBy' = TRUE /\ projection' \in Projections
    /\ projection'.at = projection.at /\ projection'.seq = projection.seq
    /\ projection'.has = projection.has /\ projection'.gone = projection.gone
    /\ projection'.restore = projection.restore
    /\ projection'.aborted \/ projection' = projection
NotesOnly(t) ==
    /\ file' \in SyncFiles /\ file'.epoch = file.epoch /\ file'.lastSeq = file.lastSeq
    /\ t \in Pending' /\ Pending' \subseteq Pending \cup {t}
    /\ forgiven' = forgiven \cup (Pending \ Pending') /\ forgiven' \subseteq Tasks
DropsOnlyReported ==
    /\ file' \in SyncFiles /\ file'.epoch = file.epoch /\ file'.lastSeq = file.lastSeq
    /\ Pending' = Pending \ projection.gone

\* The sync file names tasks.
LEMMA PendingAreTasks ==
  ASSUME MirrorTypeOK
  PROVE  Pending \subseteq Tasks
  <1>1. \A i \in DOMAIN file.removed : file.removed[i] \in Tasks  BY DEF MirrorTypeOK, SyncFiles
  <1> QED BY <1>1 DEF Pending, ToSet

\* No attempt under way is a projection too.
LEMMA NoProjectionIs == NoProjection \in Projections
  BY MirrorAssumption DEF NoProjection, Projections, Stages, Numbers

\* A request aborts the attempt under way, if there is one.
LEMMA RequestedIs ==
  ASSUME MirrorTypeOK, Requested
  PROVE  SupersedesOnly
  <1>1. CASE projection.at = "idle"
    <2>1. projection' = projection  BY <1>1 DEF Requested
    <2> QED BY <2>1 DEF MirrorTypeOK, Requested, Projections, SupersedesOnly
  <1>2. CASE projection.at # "idle"
    <2>1. projection' = [projection EXCEPT !.aborted = TRUE]  BY <1>2 DEF Requested
    <2>2. projection'.aborted = TRUE  BY <2>1 DEF MirrorTypeOK, Projections
    <2> QED BY <2>1, <2>2 DEF MirrorTypeOK, Requested, SupersedesOnly, Projections
  <1> QED BY <1>1, <1>2

\* A removal that is noted is on the list; what the list lost to it was cut.
LEMMA NotedIs ==
  ASSUME MirrorTypeOK, NEW t \in Tasks, Noted(t)
  PROVE  NotesOnly(t)
  <1> DEFINE list == IF t \in Pending THEN file.removed ELSE Bounded(Append(file.removed, t))
  <1>1. file' = [file EXCEPT !.removed = list] /\ forgiven' = forgiven \cup (Pending \ ToSet(list))
    BY DEF Noted
  <1>2. file.removed \in Seq(Tasks)  BY DEF MirrorTypeOK, SyncFiles
  <1>3. list \in Seq(Tasks) /\ t \in ToSet(list) /\ ToSet(list) \subseteq Pending \cup {t}
    <2>1. CASE t \in Pending  BY <2>1, <1>2 DEF Pending
    <2>2. CASE t \notin Pending
      <3> DEFINE more == Append(file.removed, t)
      <3>1. more \in Seq(Tasks) /\ ToSet(more) = Pending \cup {t}  BY <1>2, AppendIs DEF Pending
      <3>2. Len(more) # 0 /\ more[Len(more)] = t  BY <1>2
      <3> HIDE DEF more
      <3>3. Bounded(more) \in Seq(Tasks) /\ ToSet(Bounded(more)) \subseteq ToSet(more)
        BY <3>1, BoundedIs
      <3>4. t \in ToSet(Bounded(more))  BY <3>1, <3>2, BoundedKeepsLast
      <3>5. list = Bounded(more)  BY <2>2 DEF more
      <3> HIDE DEF list
      <3> QED BY <3>1, <3>3, <3>4, <3>5
    <2> QED BY <2>1, <2>2
  <1> HIDE DEF list
  <1>4. file'.removed = list  BY <1>1 DEF MirrorTypeOK, SyncFiles
  <1>5. Pending' = ToSet(list)  BY <1>4 DEF Pending
  <1>6. file' \in SyncFiles /\ file'.epoch = file.epoch /\ file'.lastSeq = file.lastSeq
    BY <1>1, <1>3 DEF MirrorTypeOK, SyncFiles
  <1>7. forgiven' \subseteq Tasks  BY <1>1, PendingAreTasks DEF MirrorTypeOK
  <1> QED BY <1>1, <1>3, <1>5, <1>6, <1>7 DEF NotesOnly

\* What an accepted snapshot told is dropped, and no more.
LEMMA DroppedIs ==
  ASSUME MirrorTypeOK, DropsReported
  PROVE  DropsOnlyReported
  <1>1. file.removed \in Seq(Tasks)  BY DEF MirrorTypeOK, SyncFiles
  <1>2. StillPending \in Seq(Tasks) /\ ToSet(StillPending) = Pending \ projection.gone
    BY <1>1, WithoutIs DEF StillPending, Pending
  <1>3. file' = [file EXCEPT !.removed = StillPending]  BY DEF DropsReported
  <1>4. file'.removed = StillPending  BY <1>3 DEF MirrorTypeOK, SyncFiles
  <1>5. Pending' = ToSet(StillPending)  BY <1>4 DEF Pending
  <1>6. file' \in SyncFiles /\ file'.epoch = file.epoch /\ file'.lastSeq = file.lastSeq
    BY <1>3, <1>2 DEF MirrorTypeOK, SyncFiles
  <1> QED BY <1>2, <1>5, <1>6 DEF DropsOnlyReported

\* The owner or the assistant adds a task.
LEMMA OwnerAddsKeeps ==
  ASSUME MirrorIInv, NEW t \in Tasks, OwnerAdds(t)
  PROVE  MirrorIInv'
  <1>1. MirrorTypeOK'
    <2>1. Requested /\ MirrorTypeOK  BY DEF MirrorIInv, OwnerAdds
    <2>2. SupersedesOnly  BY <2>1, RequestedIs
    <2> QED
      BY <2>2 DEF SupersedesOnly, MirrorIInv, commands, history, cloudSide, MirrorTypeOK, OwnerAdds
  <1>2. NumbersGrow'  BY DEF MirrorIInv, cloudSide, NumbersGrow, Ours, OwnerAdds, Requested
  <1>3. AnswerIsOwn'  BY DEF MirrorIInv, AnswerIsOwn, AnswerOf, OwnerAdds, Requested
  <1>4. OnlyTheDeleted'
    BY DEF MirrorIInv, commands, history, OnlyTheDeleted, Owed, Pending, OwnerAdds, Requested
  <1>5. GoneNotBack'
    BY DEF MirrorIInv, history, cloudSide, GoneNotBack, Gone, Restoring, OwnerAdds, Created,
       Requested
  <1>6. OldStoresApart'
    BY DEF MirrorIInv, history, cloudSide, OldStoresApart, Ours, IsNewer, Gone, OwnerAdds, Created,
       Requested
  <1>7. ShownIsOwed'
    BY DEF MirrorIInv, history, cloudSide, ShownIsOwed, IsNewer, Ours, Gone, Owed, Pending,
       OwnerAdds, Requested
  <1>8. ToldApart'  BY DEF MirrorIInv, history, cloudSide, ToldApart, Gone, OwnerAdds, Requested
  <1>9. DeletionReachesCloud'
    BY DEF MirrorIInv, history, cloudSide, DeletionReachesCloud, Pending, OwnerAdds
  <1> QED BY <1>1, <1>2, <1>3, <1>4, <1>5, <1>6, <1>7, <1>8, <1>9 DEF MirrorIInv

\* A task is deleted: its event is to come.
LEMMA OwnerDeletesKeeps ==
  ASSUME MirrorIInv, NEW t \in Tasks, OwnerDeletes(t)
  PROVE  MirrorIInv'
  <1>1. MirrorTypeOK'
    BY MirrorAssumption DEF MirrorIInv, commands, cloudSide, MirrorTypeOK, OwnerDeletes, Removal
  <1>2. NumbersGrow'  BY DEF MirrorIInv, cloudSide, NumbersGrow, Ours, OwnerDeletes
  <1>3. AnswerIsOwn'  BY DEF MirrorIInv, AnswerIsOwn, AnswerOf, OwnerDeletes
  <1>4. OnlyTheDeleted'
    BY DEF MirrorIInv, commands, OnlyTheDeleted, Owed, Pending, OwnerDeletes, Removal
  <1>5. GoneNotBack'
    BY DEF MirrorIInv, cloudSide, GoneNotBack, Gone, Restoring, OwnerDeletes, Removal
  <1>6. OldStoresApart'
    BY DEF MirrorIInv, cloudSide, OldStoresApart, Ours, IsNewer, Gone, OwnerDeletes, Removal
  <1>7. ShownIsOwed'
    BY DEF MirrorIInv, cloudSide, ShownIsOwed, IsNewer, Ours, Gone, Owed, Pending, OwnerDeletes,
       Removal
  <1>8. ToldApart'
    BY DEF MirrorIInv, cloudSide, ToldApart, Gone, Pending, OnlyTheDeleted, Owed, OwnerDeletes,
       Removal
  <1>9. DeletionReachesCloud'
    BY DEF MirrorIInv, cloudSide, DeletionReachesCloud, Pending, OwnerDeletes, Removal
  <1> QED BY <1>1, <1>2, <1>3, <1>4, <1>5, <1>6, <1>7, <1>8, <1>9 DEF MirrorIInv

\* The event of a deleted task: noted in the sync file.
LEMMA RemovedHookKeeps ==
  ASSUME MirrorIInv, NEW t \in Tasks, RemovedHook(t)
  PROVE  MirrorIInv'
  <1>a. Requested /\ Noted(t) /\ MirrorTypeOK  BY DEF MirrorIInv, RemovedHook
  <1>b. SupersedesOnly /\ NotesOnly(t)  BY <1>a, RequestedIs, NotedIs
  <1>1. MirrorTypeOK'
    <2>1. mirrored' = mirrored \ {t}  BY <1>a DEF Noted
    <2> QED
      BY <1>a, <1>b, <2>1 DEF SupersedesOnly, NotesOnly, commands, history, cloudSide,
         MirrorTypeOK, RemovedHook
  <1>2. NumbersGrow'  BY DEF MirrorIInv, cloudSide, NumbersGrow, Ours, RemovedHook, Noted, Requested
  <1>3. AnswerIsOwn'  BY DEF MirrorIInv, AnswerIsOwn, AnswerOf, RemovedHook, Noted, Requested
  <1>4. OnlyTheDeleted'
    BY <1>b DEF SupersedesOnly, NotesOnly, MirrorIInv, commands, OnlyTheDeleted, Owed, RemovedHook
  <1>5. GoneNotBack'
    BY DEF MirrorIInv, cloudSide, GoneNotBack, Gone, Restoring, RemovedHook, Noted, Requested
  <1>6. OldStoresApart'
    BY DEF MirrorIInv, cloudSide, OldStoresApart, Ours, IsNewer, Gone, RemovedHook, Noted, Requested
  <1>7. ShownIsOwed'
    BY <1>b DEF SupersedesOnly, NotesOnly, MirrorIInv, cloudSide, ShownIsOwed, IsNewer, Ours,
         Gone, Owed, RemovedHook
  <1>8. ToldApart'  BY DEF MirrorIInv, cloudSide, ToldApart, Gone, RemovedHook, Noted, Requested
  <1>9. DeletionReachesCloud'
    BY <1>b DEF NotesOnly, MirrorIInv, cloudSide, DeletionReachesCloud, RemovedHook
  <1> QED BY <1>1, <1>2, <1>3, <1>4, <1>5, <1>6, <1>7, <1>8, <1>9 DEF MirrorIInv

\* A refresh asks for one more snapshot.
LEMMA RefreshesKeeps ==
  ASSUME MirrorIInv, Refreshes
  PROVE  MirrorIInv'
  <1>1. MirrorTypeOK'
    BY MirrorAssumption DEF MirrorIInv, commands, history, cloudSide, MirrorTypeOK, Refreshes,
       Requested
  <1>2. NumbersGrow'  BY DEF MirrorIInv, cloudSide, NumbersGrow, Ours, Refreshes, Requested
  <1>3. AnswerIsOwn'  BY DEF AnswerIsOwn, AnswerOf, Refreshes, Requested
  <1>4. OnlyTheDeleted'
    BY DEF MirrorIInv, commands, history, OnlyTheDeleted, Owed, Pending, Refreshes, Requested
  <1>5. GoneNotBack'
    BY DEF MirrorIInv, history, cloudSide, GoneNotBack, Gone, Restoring, Refreshes, Requested
  <1>6. OldStoresApart'
    BY DEF MirrorIInv, history, cloudSide, OldStoresApart, Ours, IsNewer, Gone, Refreshes, Requested
  <1>7. ShownIsOwed'
    BY DEF MirrorIInv, history, cloudSide, ShownIsOwed, IsNewer, Ours, Gone, Owed, Pending,
       Refreshes, Requested
  <1>8. ToldApart'  BY DEF ToldApart, InHand, Refreshes, Requested
  <1>9. DeletionReachesCloud'
    BY DEF MirrorIInv, history, cloudSide, DeletionReachesCloud, Pending, Refreshes
  <1> QED BY <1>1, <1>2, <1>3, <1>4, <1>5, <1>6, <1>7, <1>8, <1>9 DEF MirrorIInv

\* The sync file reaches the disk.
LEMMA SavesKeeps ==
  ASSUME MirrorIInv, Saves
  PROVE  MirrorIInv'
  <1>1. MirrorTypeOK'
    BY MirrorAssumption DEF MirrorIInv, commands, history, cloudSide, MirrorTypeOK, Saves
  <1>2. NumbersGrow'
    BY DEF MirrorIInv, cloudSide, NumbersGrow, Ours, MirrorTypeOK, SyncFiles, Snapshots, Numbers,
       Saves
  <1>3. AnswerIsOwn'  BY DEF MirrorIInv, AnswerIsOwn, AnswerOf, Saves
  <1>4. OnlyTheDeleted'  BY DEF MirrorIInv, commands, history, OnlyTheDeleted, Owed, Pending, Saves
  <1>5. GoneNotBack'  BY DEF MirrorIInv, history, cloudSide, GoneNotBack, Gone, Restoring, Saves
  <1>6. OldStoresApart'
    BY DEF MirrorIInv, history, cloudSide, OldStoresApart, Ours, IsNewer, Gone, Saves
  <1>7. ShownIsOwed'
    BY DEF MirrorIInv, history, cloudSide, ShownIsOwed, IsNewer, Ours, Gone, Owed, Pending, Saves
  <1>8. ToldApart'  BY DEF MirrorIInv, history, cloudSide, ToldApart, Gone, Pending, Saves
  <1>9. DeletionReachesCloud'
    BY DEF MirrorIInv, history, cloudSide, DeletionReachesCloud, Pending, Saves
  <1> QED BY <1>1, <1>2, <1>3, <1>4, <1>5, <1>6, <1>7, <1>8, <1>9 DEF MirrorIInv

\* The scheduler's list is taken.
LEMMA ListsKeeps ==
  ASSUME MirrorIInv, Lists
  PROVE  MirrorIInv'
  <1>1. MirrorTypeOK'
    <2>1. projection' \in Projections
      BY NoProjectionIs DEF MirrorIInv, MirrorTypeOK, Lists, Projections, Stages
    <2> QED BY <2>1 DEF MirrorIInv, commands, history, cloudSide, MirrorTypeOK, Lists
  <1>2. NumbersGrow'  BY DEF MirrorIInv, cloudSide, NumbersGrow, InHand, Ours, Lists
  <1>3. AnswerIsOwn'  BY DEF AnswerIsOwn, AnswerOf, Lists
  <1>4. OnlyTheDeleted'
    BY DEF MirrorIInv, commands, history, OnlyTheDeleted, Owed, Pending, Lists, NoProjection
  <1>5. GoneNotBack'
    BY DEF MirrorIInv, history, cloudSide, GoneNotBack, Gone, Restoring, Lists, NoProjection
  <1>6. OldStoresApart'
    BY DEF MirrorIInv, history, cloudSide, OldStoresApart, Ours, IsNewer, Gone, Lists, NoProjection
  <1>7. ShownIsOwed'
    BY DEF MirrorIInv, history, cloudSide, ShownIsOwed, IsNewer, Ours, Gone, Owed, Pending,
       GoneNotBack, Lists
  <1>8. ToldApart'  BY DEF MirrorIInv, history, ToldApart, Gone, GoneNotBack, Lists
  <1>9. DeletionReachesCloud'
    BY DEF MirrorIInv, history, cloudSide, DeletionReachesCloud, Pending, Lists
  <1> QED BY <1>1, <1>2, <1>3, <1>4, <1>5, <1>6, <1>7, <1>8, <1>9 DEF MirrorIInv

\* The snapshot gets a number of its own, and the removals noted so far.
LEMMA TakesNumberKeeps ==
  ASSUME MirrorIInv, TakesNumber
  PROVE  MirrorIInv'
  <1>1. MirrorTypeOK'
    <2>1. PICK now \in Numbers : NextSeq(now) <= MaxSeqNo /\ file' = [file EXCEPT !.lastSeq = NextSeq(now)]
            /\ projection' = [projection EXCEPT !.at = "numbered", !.gone = Pending, !.seq = NextSeq(now), !.aborted = FALSE]
      BY DEF TakesNumber
    <2>2. NextSeq(now) \in Numbers
      BY <2>1, MirrorAssumption DEF MirrorIInv, MirrorTypeOK, SyncFiles, Numbers, NextSeq
    <2>3. Pending \subseteq Tasks
      <3>1. \A i \in DOMAIN file.removed : file.removed[i] \in Tasks
        BY DEF MirrorIInv, MirrorTypeOK, SyncFiles
      <3> QED BY <3>1 DEF Pending, ToSet
    <2>4. file' \in SyncFiles  BY <2>1, <2>2 DEF MirrorIInv, MirrorTypeOK, SyncFiles
    <2>5. projection' \in Projections
      BY <2>1, <2>2, <2>3 DEF MirrorIInv, MirrorTypeOK, Projections, Stages
    <2> QED
      BY <2>4, <2>5 DEF MirrorIInv, commands, history, cloudSide, MirrorTypeOK, Projections,
         TakesNumber
  <1>2. NumbersGrow'
    BY DEF MirrorIInv, cloudSide, NumbersGrow, Ours, MirrorTypeOK, SyncFiles, Snapshots, Numbers,
       TakesNumber, NextSeq
  <1>3. AnswerIsOwn'  BY DEF AnswerIsOwn, AnswerOf, TakesNumber
  <1>4. OnlyTheDeleted'
    BY DEF MirrorIInv, commands, history, OnlyTheDeleted, Owed, Pending, TakesNumber
  <1>5. GoneNotBack'
    BY DEF MirrorIInv, history, cloudSide, GoneNotBack, Gone, Restoring, TakesNumber
  <1>6. OldStoresApart'
    BY DEF MirrorIInv, history, cloudSide, OldStoresApart, Ours, IsNewer, Gone, TakesNumber
  <1>7. ShownIsOwed'
    BY DEF MirrorIInv, history, cloudSide, ShownIsOwed, IsNewer, Ours, Gone, Owed, Pending,
       TakesNumber
  <1>8. ToldApart'  BY DEF MirrorIInv, history, ToldApart, Gone, TakesNumber, Superseded
  <1>9. DeletionReachesCloud'
    BY DEF MirrorIInv, history, cloudSide, DeletionReachesCloud, Pending, TakesNumber
  <1> QED BY <1>1, <1>2, <1>3, <1>4, <1>5, <1>6, <1>7, <1>8, <1>9 DEF MirrorIInv

\* The snapshot goes out as it was put together.
LEMMA PostsSnapshotKeeps ==
  ASSUME MirrorIInv, PostsSnapshot
  PROVE  MirrorIInv'
  <1>1. MirrorTypeOK'
    <2> DEFINE sent == [epoch |-> file.epoch, seq |-> projection.seq, has |-> projection.has, gone |-> projection.gone]
    <2>1. projection' \in Projections
      BY DEF MirrorIInv, MirrorTypeOK, PostsSnapshot, Goes, Projections, Stages, Numbers
    <2>2. sent \in Snapshots  BY DEF MirrorIInv, MirrorTypeOK, Projections, SyncFiles, Snapshots
    <2>3. flying' = flying \cup {sent}  BY DEF PostsSnapshot
    <2> QED
      BY <2>1, <2>2, <2>3 DEF MirrorIInv, commands, history, cloudSide, MirrorTypeOK, PostsSnapshot
  <1>2. NumbersGrow'
    BY DEF MirrorIInv, cloudSide, NumbersGrow, InHand, Ours, MirrorTypeOK, SyncFiles, Snapshots,
       Numbers, Epochs, PostsSnapshot, Goes
  <1>3. AnswerIsOwn'
    <2> DEFINE sent == [epoch |-> file.epoch, seq |-> projection.seq, has |-> projection.has, gone |-> projection.gone]
    <2>1. flying' = flying \cup {sent} /\ file' = file /\ projection.at = "numbered"
      BY DEF PostsSnapshot
    <2>2. projection'.seq = projection.seq /\ projection'.has = projection.has /\ projection'.gone = projection.gone
      BY DEF MirrorIInv, MirrorTypeOK, Projections, PostsSnapshot, Goes
    <2>3. \A s \in flying : s.epoch = file.epoch => s.seq # projection.seq
      BY <2>1 DEF MirrorIInv, NumbersGrow, Ours, MirrorTypeOK, Snapshots, Projections, Numbers
    <2> QED BY <2>1, <2>2, <2>3 DEF AnswerIsOwn, AnswerOf
  <1>4. OnlyTheDeleted'
    BY DEF MirrorIInv, commands, history, OnlyTheDeleted, Owed, Pending, PostsSnapshot, Goes
  <1>5. GoneNotBack'
    BY DEF MirrorIInv, history, cloudSide, GoneNotBack, Gone, Restoring, PostsSnapshot, Goes
  <1>6. OldStoresApart'
    BY DEF MirrorIInv, history, cloudSide, OldStoresApart, Ours, IsNewer, Gone, PostsSnapshot, Goes
  <1>7. ShownIsOwed'
    BY DEF MirrorIInv, history, cloudSide, ShownIsOwed, IsNewer, Ours, Gone, Owed, Pending,
       PostsSnapshot, Goes
  <1>8. ToldApart'  BY DEF MirrorIInv, history, ToldApart, Gone, InHand, PostsSnapshot, Goes
  <1>9. DeletionReachesCloud'
    BY DEF MirrorIInv, history, cloudSide, DeletionReachesCloud, Pending, PostsSnapshot
  <1> QED BY <1>1, <1>2, <1>3, <1>4, <1>5, <1>6, <1>7, <1>8, <1>9 DEF MirrorIInv

\* An attempt that was aborted is dropped.
LEMMA StartsOverKeeps ==
  ASSUME MirrorIInv, StartsOver
  PROVE  MirrorIInv'
  <1>1. MirrorTypeOK'
    BY MirrorAssumption DEF MirrorIInv, commands, history, cloudSide, MirrorTypeOK, Projections,
       Stages, Numbers, StartsOver, NoProjection
  <1>2. NumbersGrow'
    <2>1. breaks' \in 0..MaxBreaks /\ breaks' >= breaks
      BY MirrorAssumption DEF MirrorIInv, NumbersGrow, StartsOver, Breaks
    <2> QED
      BY <2>1 DEF MirrorIInv, cloudSide, NumbersGrow, InHand, Ours, MirrorTypeOK, SyncFiles,
         Epochs, StartsOver, NoProjection
  <1>3. AnswerIsOwn'  BY DEF AnswerIsOwn, AnswerOf, StartsOver, NoProjection
  <1>4. OnlyTheDeleted'
    BY DEF MirrorIInv, commands, history, OnlyTheDeleted, Owed, Pending, StartsOver, NoProjection
  <1>5. GoneNotBack'
    BY DEF MirrorIInv, history, cloudSide, GoneNotBack, Gone, Restoring, StartsOver, NoProjection
  <1>6. OldStoresApart'
    BY DEF MirrorIInv, history, cloudSide, OldStoresApart, Ours, IsNewer, Gone, StartsOver,
       NoProjection
  <1>7. ShownIsOwed'
    BY DEF MirrorIInv, history, cloudSide, ShownIsOwed, IsNewer, Ours, Gone, Owed, Pending,
       StartsOver, NoProjection
  <1>8. ToldApart'  BY DEF ToldApart, StartsOver, NoProjection
  <1>9. DeletionReachesCloud'
    BY DEF MirrorIInv, history, cloudSide, DeletionReachesCloud, Pending, StartsOver
  <1> QED BY <1>1, <1>2, <1>3, <1>4, <1>5, <1>6, <1>7, <1>8, <1>9 DEF MirrorIInv

\* The cloud takes a snapshot newer than the last: what it tells is forgotten there.
LEMMA CloudAcceptsKeeps ==
  ASSUME MirrorIInv, NEW s \in flying, CloudAccepts(s)
  PROVE  MirrorIInv'
  <1> DEFINE own == AnswerOf(s) /\ ~projection.aborted
             back == Restored(knownIn', s.epoch)
             one(t) == IF t \in s.has THEN knownIn[t] \cup {s.epoch} ELSE IF t \in s.gone THEN {} ELSE knownIn[t]
  <1>1. /\ IsNewer(s) /\ flying' = flying \ {s} /\ newest' = [epoch |-> s.epoch, seq |-> s.seq]
        /\ knownIn' = [t \in Tasks |-> one(t)]
        /\ projection' = IF own THEN [projection EXCEPT !.at = "answered", !.restore = back] ELSE projection
        /\ UNCHANGED <<jobs, removedEvents, mirrored, file, disk, behindBy, restoreQueue, commands, history, breaks>>
    BY DEF CloudAccepts
  <1>2. MirrorTypeOK /\ s \in Snapshots /\ back \subseteq Tasks
    BY DEF MirrorIInv, MirrorTypeOK, Restored
  <1>3. knownIn' \in [Tasks -> SUBSET Epochs] /\ \A t \in Tasks : knownIn'[t] = one(t)
    BY <1>1, <1>2 DEF MirrorTypeOK, Snapshots
  <1> HIDE DEF back
  <1>4. /\ projection' \in Projections /\ projection'.seq = projection.seq /\ projection'.aborted = projection.aborted
        /\ projection'.has = projection.has /\ projection'.gone = projection.gone
        /\ projection'.at = IF own THEN "answered" ELSE projection.at
        /\ projection'.restore = IF own THEN back ELSE projection.restore
    BY <1>1, <1>2 DEF MirrorTypeOK, Projections, Stages
  <1>5. own => Ours(s) /\ s.seq = file.lastSeq /\ s.has = projection.has /\ s.gone = projection.gone
                /\ projection.at = "posted"
    BY DEF MirrorIInv, AnswerIsOwn, AnswerOf, Ours, NumbersGrow, InHand
  <1> HIDE DEF own
  <1>6. \A r \in flying : IsNewer(r)' => IsNewer(r)
    BY <1>1, <1>2 DEF IsNewer, MirrorTypeOK, Snapshots, Epochs, Numbers
  <1>7. \A t \in Gone : t \in s.has => Ours(s) /\ t \in Owed
    BY <1>1 DEF MirrorIInv, OldStoresApart, ShownIsOwed
  <1>8. \A t \in Gone \cap Tasks : \/ (knownIn'[t] \in {{}, knownIn[t]})
                        \/ (Ours(s) /\ t \in Owed /\ knownIn'[t] = knownIn[t] \cup {file.epoch})
    BY <1>3, <1>7 DEF Ours
  <1>9. MirrorTypeOK'
    <2>1. newest' \in [epoch : Epochs, seq : Numbers]  BY <1>1, <1>2 DEF Snapshots
    <2>2. knownIn' \in [Tasks -> SUBSET Epochs] /\ projection' \in Projections /\ flying' \subseteq flying
      BY <1>1, <1>3, <1>4
    <2>3. UNCHANGED <<jobs, removedEvents, mirrored, file, disk, behindBy, restoreQueue, commands, history>>
      BY <1>1
    <2> QED BY <1>2, <2>1, <2>2, <2>3 DEF commands, history, MirrorTypeOK
  <1>10. NumbersGrow'
    <2>1. newest'.epoch = s.epoch /\ newest'.seq = s.seq /\ UNCHANGED <<file, disk, breaks>> /\ flying' \subseteq flying
      BY <1>1
    <2>2. projection.at # "answered"
      BY <1>1, <1>2 DEF MirrorIInv, NumbersGrow, IsNewer, Ours, MirrorTypeOK, Snapshots, SyncFiles,
         Epochs, Numbers
    <2>3. projection'.at = "answered" => Ours(newest)' /\ newest'.seq = file.lastSeq
      BY <1>4, <1>5, <2>1, <2>2 DEF Ours
    <2> QED BY <1>4, <1>5, <2>1, <2>3 DEF MirrorIInv, NumbersGrow, Ours, InHand
  <1>11. AnswerIsOwn'  BY <1>1, <1>4 DEF MirrorIInv, AnswerIsOwn, AnswerOf
  <1>12. OnlyTheDeleted'
    BY <1>1, <1>4 DEF MirrorIInv, OnlyTheDeleted, Owed, Pending, commands, history
  <1>13. GoneNotBack'
    <2> SUFFICES ASSUME NEW t \in Gone  PROVE t \notin jobs /\ ~Restoring(t)'
      BY <1>1 DEF GoneNotBack, Gone, history
    <2>1. t \notin jobs /\ ~Restoring(t) /\ t \in Tasks
      BY <1>2 DEF MirrorIInv, GoneNotBack, Gone, MirrorTypeOK
    <2>2. knownIn'[t] = {} \/ file.epoch \in knownIn'[t]  BY <1>8, <2>1 DEF Restoring
    <2>3. own => t \notin back  BY <2>2, <1>5 DEF back, Restored, Ours
    <2> QED BY <1>1, <1>4, <2>1, <2>2, <2>3 DEF Restoring
  <1>14. OldStoresApart'
    <2>1. restoreQueue' \cup projection'.restore # {} => Ours(newest)'
      <3>1. Ours(newest) => s.epoch = file.epoch
        BY <1>1, <1>2 DEF MirrorIInv, NumbersGrow, IsNewer, Ours, MirrorTypeOK, Snapshots,
           SyncFiles, Epochs
      <3> QED BY <1>1, <1>4, <1>5, <3>1 DEF MirrorIInv, OldStoresApart, Ours
    <2> QED BY <1>1, <1>6, <2>1 DEF MirrorIInv, OldStoresApart, Ours, Gone, history
  <1>15. ShownIsOwed'
    BY <1>1, <1>4, <1>6 DEF MirrorIInv, ShownIsOwed, Ours, Gone, Owed, Pending, history
  <1>16. ToldApart'
    <2>1. own => \A t \in projection.gone \ projection.has : knownIn'[t] = {}
      BY <1>2, <1>3, <1>5 DEF MirrorTypeOK, Projections
    <2>2. projection.at # "answered"
      BY <1>1, <1>2 DEF MirrorIInv, NumbersGrow, IsNewer, Ours, MirrorTypeOK, Snapshots, SyncFiles,
         Epochs, Numbers
    <2> QED
      BY <1>1, <1>4, <1>5, <2>1, <2>2 DEF MirrorIInv, ToldApart, InHand, Gone, Pending, history
  <1>17. DeletionReachesCloud'
    <2> SUFFICES ASSUME NEW t \in Gone, knownIn'[t] # {}  PROVE t \in Owed
      BY <1>1 DEF DeletionReachesCloud, Gone, Owed, Pending, history
    <2> QED BY <1>2, <1>8 DEF MirrorIInv, DeletionReachesCloud, Gone, Owed, MirrorTypeOK
  <1> QED BY <1>9, <1>10, <1>11, <1>12, <1>13, <1>14, <1>15, <1>16, <1>17 DEF MirrorIInv

\* An old snapshot changes nothing at the cloud.
LEMMA CloudDropsStaleKeeps ==
  ASSUME MirrorIInv, NEW s \in flying, CloudDropsStale(s)
  PROVE  MirrorIInv'
  <1>1. MirrorTypeOK'
    <2>1. projection' \in {projection, NoProjection} /\ behindBy' \in {behindBy, FALSE}
      BY DEF CloudDropsStale
    <2> QED
      BY <2>1, NoProjectionIs DEF MirrorIInv, commands, history, cloudSide, MirrorTypeOK,
         CloudDropsStale
  <1>2. NumbersGrow'
    BY DEF MirrorIInv, cloudSide, NumbersGrow, InHand, Ours, CloudDropsStale, NoProjection
  <1>3. AnswerIsOwn'  BY DEF MirrorIInv, AnswerIsOwn, AnswerOf, CloudDropsStale, NoProjection
  <1>4. OnlyTheDeleted'
    BY DEF MirrorIInv, commands, history, OnlyTheDeleted, Owed, Pending, CloudDropsStale,
       NoProjection
  <1>5. GoneNotBack'
    BY DEF MirrorIInv, history, cloudSide, GoneNotBack, Gone, Restoring, CloudDropsStale,
       NoProjection
  <1>6. OldStoresApart'
    BY DEF MirrorIInv, history, cloudSide, OldStoresApart, Ours, IsNewer, Gone, CloudDropsStale,
       NoProjection
  <1>7. ShownIsOwed'
    BY DEF MirrorIInv, history, cloudSide, ShownIsOwed, IsNewer, Ours, Gone, Owed, Pending,
       CloudDropsStale, NoProjection
  <1>8. ToldApart'
    BY DEF MirrorIInv, history, cloudSide, ToldApart, Gone, Pending, CloudDropsStale, NoProjection
  <1>9. DeletionReachesCloud'
    BY DEF MirrorIInv, history, cloudSide, DeletionReachesCloud, Pending, CloudDropsStale
  <1> QED BY <1>1, <1>2, <1>3, <1>4, <1>5, <1>6, <1>7, <1>8, <1>9 DEF MirrorIInv

\* A post is lost, or its answer is.
LEMMA PostIsLostKeeps ==
  ASSUME MirrorIInv, NEW s \in flying, PostIsLost(s)
  PROVE  MirrorIInv'
  <1>1. MirrorTypeOK'
    BY MirrorAssumption DEF MirrorIInv, commands, history, cloudSide, MirrorTypeOK, Projections,
       Stages, Numbers, PostIsLost, NoProjection
  <1>2. NumbersGrow'
    <2>1. breaks' \in 0..MaxBreaks /\ breaks' >= breaks
      BY MirrorAssumption DEF MirrorIInv, NumbersGrow, PostIsLost, Breaks
    <2> QED
      BY <2>1 DEF MirrorIInv, cloudSide, NumbersGrow, InHand, Ours, MirrorTypeOK, SyncFiles,
         Epochs, PostIsLost, NoProjection
  <1>3. AnswerIsOwn'  BY DEF MirrorIInv, AnswerIsOwn, AnswerOf, PostIsLost, NoProjection
  <1>4. OnlyTheDeleted'
    BY DEF MirrorIInv, commands, history, OnlyTheDeleted, Owed, Pending, PostIsLost, NoProjection
  <1>5. GoneNotBack'
    BY DEF MirrorIInv, history, cloudSide, GoneNotBack, Gone, Restoring, PostIsLost, NoProjection
  <1>6. OldStoresApart'
    BY DEF MirrorIInv, history, cloudSide, OldStoresApart, Ours, IsNewer, Gone, PostIsLost,
       NoProjection
  <1>7. ShownIsOwed'
    BY DEF MirrorIInv, history, cloudSide, ShownIsOwed, IsNewer, Ours, Gone, Owed, Pending,
       PostIsLost, NoProjection
  <1>8. ToldApart'
    BY DEF MirrorIInv, history, cloudSide, ToldApart, Gone, Pending, PostIsLost, NoProjection
  <1>9. DeletionReachesCloud'
    BY DEF MirrorIInv, history, cloudSide, DeletionReachesCloud, Pending, PostIsLost
  <1> QED BY <1>1, <1>2, <1>3, <1>4, <1>5, <1>6, <1>7, <1>8, <1>9 DEF MirrorIInv

\* The answer is in: what that snapshot told is dropped from the file.
LEMMA DropsReportedKeeps ==
  ASSUME MirrorIInv, DropsReported
  PROVE  MirrorIInv'
  <1>1. MirrorTypeOK'
    <2>1. DropsReported /\ MirrorTypeOK  BY DEF MirrorIInv
    <2>2. file' \in SyncFiles  BY <2>1, DroppedIs DEF DropsOnlyReported
    <2>3. projection' \in Projections
      BY <2>1 DEF DropsReported, Goes, MirrorTypeOK, Projections, Stages
    <2> QED BY <2>1, <2>2, <2>3 DEF commands, history, cloudSide, MirrorTypeOK, DropsReported
  <1>2. NumbersGrow'  BY DEF MirrorIInv, cloudSide, NumbersGrow, InHand, Ours, DropsReported, Goes
  <1>3. AnswerIsOwn'  BY DEF AnswerIsOwn, AnswerOf, DropsReported, Goes
  <1>4. OnlyTheDeleted'
    <2>1. DropsReported /\ MirrorTypeOK  BY DEF MirrorIInv
    <2>2. DropsOnlyReported  BY <2>1, DroppedIs
    <2> QED
      BY <2>2 DEF DropsOnlyReported, MirrorIInv, commands, history, OnlyTheDeleted, Owed,
         DropsReported, Goes
  <1>5. GoneNotBack'
    BY DEF MirrorIInv, history, cloudSide, GoneNotBack, Gone, Restoring, DropsReported, Goes
  <1>6. OldStoresApart'
    BY DEF MirrorIInv, history, cloudSide, OldStoresApart, Ours, IsNewer, Gone, DropsReported, Goes
  <1>7. ShownIsOwed'
    BY DEF MirrorIInv, cloudSide, ShownIsOwed, IsNewer, Ours, MirrorTypeOK, NumbersGrow, Snapshots,
       SyncFiles, Epochs, Numbers, DropsReported, Goes
  <1>8. ToldApart'  BY DEF MirrorIInv, history, ToldApart, Gone, InHand, DropsReported, Goes
  <1>9. DeletionReachesCloud'
    <2>1. DropsReported /\ MirrorTypeOK  BY DEF MirrorIInv
    <2>2. DropsOnlyReported  BY <2>1, DroppedIs
    <2> QED
      BY <2>2 DEF DropsOnlyReported, MirrorIInv, history, cloudSide, DeletionReachesCloud, Gone,
         ToldApart, InHand, DropsReported
  <1> QED BY <1>1, <1>2, <1>3, <1>4, <1>5, <1>6, <1>7, <1>8, <1>9 DEF MirrorIInv

\* The tasks the cloud hands back are queued.
LEMMA EnqueuesRestoreKeeps ==
  ASSUME MirrorIInv, EnqueuesRestore
  PROVE  MirrorIInv'
  <1>1. MirrorTypeOK'
    BY MirrorAssumption DEF MirrorIInv, commands, history, cloudSide, MirrorTypeOK, Projections,
       Stages, Numbers, EnqueuesRestore, NoProjection
  <1>2. NumbersGrow'
    BY DEF MirrorIInv, cloudSide, NumbersGrow, InHand, Ours, EnqueuesRestore, NoProjection
  <1>3. AnswerIsOwn'  BY DEF AnswerIsOwn, AnswerOf, EnqueuesRestore, NoProjection
  <1>4. OnlyTheDeleted'
    BY DEF MirrorIInv, commands, history, OnlyTheDeleted, Owed, Pending, EnqueuesRestore,
       NoProjection
  <1>5. GoneNotBack'
    BY DEF MirrorIInv, history, cloudSide, GoneNotBack, Gone, Restoring, EnqueuesRestore,
       NoProjection
  <1>6. OldStoresApart'
    BY DEF MirrorIInv, history, cloudSide, OldStoresApart, Ours, IsNewer, Gone, EnqueuesRestore,
       NoProjection
  <1>7. ShownIsOwed'
    BY DEF MirrorIInv, history, cloudSide, ShownIsOwed, IsNewer, Ours, Gone, Owed, Pending,
       EnqueuesRestore, NoProjection
  <1>8. ToldApart'  BY DEF ToldApart, EnqueuesRestore, NoProjection
  <1>9. DeletionReachesCloud'
    BY DEF MirrorIInv, history, cloudSide, DeletionReachesCloud, Pending, EnqueuesRestore
  <1> QED BY <1>1, <1>2, <1>3, <1>4, <1>5, <1>6, <1>7, <1>8, <1>9 DEF MirrorIInv

\* A task is restored: it was not deleted, or it would not have been handed back.
LEMMA RestoreAddsKeeps ==
  ASSUME MirrorIInv, NEW t \in Tasks, RestoreAdds(t)
  PROVE  MirrorIInv'
  <1>1. MirrorTypeOK'
    <2>1. CASE jobs' = jobs \cup {t} /\ Requested /\ UNCHANGED breaks
      <3>1. MirrorTypeOK  BY DEF MirrorIInv
      <3>2. SupersedesOnly  BY <2>1, <3>1, RequestedIs
      <3> QED
        BY <2>1, <3>1, <3>2 DEF SupersedesOnly, commands, history, cloudSide, MirrorTypeOK,
           RestoreAdds
    <2>2. CASE UNCHANGED <<jobs, behindBy, projection, breaks>>
      BY <2>2 DEF MirrorIInv, commands, history, cloudSide, MirrorTypeOK, RestoreAdds
    <2> QED BY <2>1, <2>2 DEF RestoreAdds
  <1>2. NumbersGrow'
    BY DEF MirrorIInv, cloudSide, NumbersGrow, Ours, MirrorTypeOK, Projections, RestoreAdds,
       Requested
  <1>3. AnswerIsOwn'
    BY DEF MirrorIInv, AnswerIsOwn, AnswerOf, MirrorTypeOK, Projections, RestoreAdds, Requested
  <1>4. OnlyTheDeleted'
    BY DEF MirrorIInv, commands, history, OnlyTheDeleted, Owed, Pending, MirrorTypeOK, Projections,
       RestoreAdds, Requested
  <1>5. GoneNotBack'
    BY DEF MirrorIInv, history, cloudSide, GoneNotBack, Gone, Restoring, MirrorTypeOK, Projections,
       RestoreAdds, Requested
  <1>6. OldStoresApart'
    BY DEF MirrorIInv, cloudSide, OldStoresApart, Ours, IsNewer, MirrorTypeOK, NumbersGrow,
       Snapshots, Epochs, RestoreAdds
  <1>7. ShownIsOwed'
    BY DEF MirrorIInv, commands, history, cloudSide, ShownIsOwed, IsNewer, Ours, Gone, Owed,
       Pending, MirrorTypeOK, Projections, NumbersGrow, Snapshots, GoneNotBack, InHand, SyncFiles,
       Epochs, Numbers, RestoreAdds, Requested
  <1>8. ToldApart'
    BY DEF MirrorIInv, history, cloudSide, ToldApart, Gone, Pending, MirrorTypeOK, Projections,
       RestoreAdds, Requested
  <1>9. DeletionReachesCloud'
    BY DEF MirrorIInv, history, cloudSide, DeletionReachesCloud, Pending, RestoreAdds
  <1> QED BY <1>1, <1>2, <1>3, <1>4, <1>5, <1>6, <1>7, <1>8, <1>9 DEF MirrorIInv

\* A step of the commands alone keeps the rest, when it notes nothing.
LEMMA CommandStepKeeps ==
  ASSUME MirrorIInv, MirrorTypeOK', breaks' \in breaks..MaxBreaks,
         UNCHANGED <<jobs, removedEvents, file, disk, projection, flying, cloudSide, restoreQueue, history>>,
         \A t \in Tasks : command'[t] = "noting" => command[t] = "noting"
  PROVE  MirrorIInv'
  <1>1. NumbersGrow'
    BY MirrorAssumption DEF MirrorIInv, NumbersGrow, Ours, cloudSide, MirrorTypeOK, SyncFiles,
       Epochs
  <1>2. AnswerIsOwn'  BY DEF MirrorIInv, AnswerIsOwn, AnswerOf
  <1>3. OnlyTheDeleted'  BY DEF MirrorIInv, OnlyTheDeleted, Owed, Pending, history
  <1>4. GoneNotBack'  BY DEF MirrorIInv, GoneNotBack, Gone, Restoring, history, cloudSide
  <1>5. OldStoresApart'  BY DEF MirrorIInv, OldStoresApart, IsNewer, Ours, Gone, history, cloudSide
  <1>6. ShownIsOwed'
    BY DEF MirrorIInv, ShownIsOwed, IsNewer, Ours, Gone, Owed, Pending, history, cloudSide
  <1>7. ToldApart'  BY DEF MirrorIInv, ToldApart, Gone, Pending, history, cloudSide
  <1>8. DeletionReachesCloud'  BY DEF MirrorIInv, DeletionReachesCloud, Pending, history, cloudSide
  <1> QED BY <1>1, <1>2, <1>3, <1>4, <1>5, <1>6, <1>7, <1>8 DEF MirrorIInv

\* A command arrives, comes again, fails or is reported; the agent restarts.
LEMMA CommandsKeep ==
  ASSUME MirrorIInv, \/ \E t \in Tasks : \/ CommandArrives(t) \/ CommandRepeats(t)
                                         \/ CommandFails(t) \/ ReportsCommand(t)
                     \/ HandlerRestarts
  PROVE  MirrorIInv'
  <1> DEFINE Same == /\ UNCHANGED <<jobs, removedEvents, mirrored, file, disk, behindBy, projection, flying,
                                    cloudSide, restoreQueue, history>>
                     /\ breaks' \in breaks..MaxBreaks
             Commands == /\ command' \in [Tasks -> {"none", "queued", "late", "noting", "done", "failed"}]
                         /\ seenIds' \subseteq Tasks /\ commandTasks' \in Seq(Tasks)
                         /\ \A t \in Tasks : command'[t] = "noting" => command[t] = "noting"
  <1>1. MirrorTypeOK /\ breaks \in breaks..MaxBreaks /\ breaks \in Nat /\ MaxBreaks \in Nat
    BY MirrorAssumption DEF MirrorIInv, NumbersGrow
  <1>2. ASSUME NEW t \in Tasks, CommandArrives(t) \/ CommandRepeats(t)  PROVE Same /\ Commands
    <2>1. Same  BY <1>1, <1>2 DEF CommandArrives, CommandRepeats
    <2>2. /\ command' = [command EXCEPT ![t] = "queued"]
          /\ seenIds' = seenIds \cup {t} /\ commandTasks' = Append(commandTasks, t)
      BY <1>2 DEF CommandArrives, CommandRepeats
    <2>3. Commands  BY <1>1, <2>2 DEF MirrorTypeOK
    <2> QED BY <2>1, <2>3
  <1>3. ASSUME NEW t \in Tasks, CommandFails(t)  PROVE Same /\ Commands
    <2>1. Same  BY <1>1, <1>3 DEF CommandFails, Breaks
    <2>2. PICK as \in {"failed", "late"} : command' = [command EXCEPT ![t] = as]
      BY <1>3 DEF CommandFails
    <2>3. UNCHANGED <<seenIds, commandTasks>>  BY <1>3 DEF CommandFails
    <2>4. Commands  BY <1>1, <2>2, <2>3 DEF MirrorTypeOK
    <2> QED BY <2>1, <2>4
  <1>4. ASSUME NEW t \in Tasks, ReportsCommand(t)  PROVE Same /\ Commands
    <2>1. Same  BY <1>1, <1>4 DEF ReportsCommand
    <2>2. Tail(commandTasks) \in Seq(Tasks)  BY <1>1, <1>4 DEF ReportsCommand, Has, MirrorTypeOK
    <2>3. Commands  BY <1>1, <1>4, <2>2 DEF ReportsCommand, MirrorTypeOK
    <2> QED BY <2>1, <2>3
  <1>5. ASSUME HandlerRestarts  PROVE Same /\ Commands
    BY <1>1, <1>5 DEF HandlerRestarts, Breaks, MirrorTypeOK
  <1>6. Same /\ Commands  BY <1>2, <1>3, <1>4, <1>5
  <1>7. MirrorTypeOK'  BY <1>1, <1>6 DEF MirrorTypeOK, history, cloudSide
  <1> QED BY <1>6, <1>7, CommandStepKeeps

\* The cloud's command deletes a task.
LEMMA CommandRemovesKeeps ==
  ASSUME MirrorIInv, NEW t \in Tasks, CommandRemoves(t)
  PROVE  MirrorIInv'
  <1> DEFINE Deleted == /\ t \in jobs /\ Removal(t) /\ command' = [command EXCEPT ![t] = "noting"]
                        /\ UNCHANGED <<behindBy, projection>>
             Absent  == /\ Requested /\ SupersedesOnly /\ command' = [command EXCEPT ![t] = "done"]
                        /\ UNCHANGED <<jobs, removedEvents, deleted, forgiven>>
  <1>a. MirrorTypeOK  BY DEF MirrorIInv
  <1>b. Deleted \/ Absent  BY <1>a, RequestedIs DEF CommandRemoves
  <1>1. MirrorTypeOK'
    <2>1. CASE Deleted
      BY <2>1 DEF MirrorIInv, cloudSide, MirrorTypeOK, Removal, CommandRemoves
    <2>2. CASE Absent
      BY <1>a, <2>2 DEF SupersedesOnly, cloudSide, MirrorTypeOK, CommandRemoves
    <2> QED BY <1>b, <2>1, <2>2
  <1>2. NumbersGrow'
    BY DEF MirrorIInv, cloudSide, NumbersGrow, Ours, MirrorTypeOK, Projections, CommandRemoves,
       Requested
  <1>3. AnswerIsOwn'
    BY DEF MirrorIInv, AnswerIsOwn, AnswerOf, MirrorTypeOK, Projections, CommandRemoves, Requested
  <1>4. OnlyTheDeleted'
    BY DEF MirrorIInv, OnlyTheDeleted, Owed, Pending, MirrorTypeOK, Projections, CommandRemoves,
       Removal, Requested
  <1>5. GoneNotBack'
    BY DEF MirrorIInv, cloudSide, GoneNotBack, Gone, Restoring, MirrorTypeOK, Projections,
       CommandRemoves, Removal, Requested
  <1>6. OldStoresApart'
    <2>1. CASE Deleted
      BY <2>1 DEF MirrorIInv, cloudSide, OldStoresApart, IsNewer, Ours, Gone, Removal,
         CommandRemoves
    <2>2. CASE Absent
      BY <1>a, <2>2 DEF SupersedesOnly, MirrorIInv, cloudSide, OldStoresApart, IsNewer,
           Ours, Gone, CommandRemoves
    <2> QED BY <1>b, <2>1, <2>2
  <1>7. ShownIsOwed'
    <2>1. CASE Deleted
      BY <2>1 DEF MirrorIInv, cloudSide, ShownIsOwed, IsNewer, Ours, Gone, Owed, Pending, Removal,
         CommandRemoves
    <2>2. CASE Absent
      BY <1>a, <2>2 DEF SupersedesOnly, MirrorIInv, cloudSide, ShownIsOwed, IsNewer, Ours,
           Gone, Owed, Pending, CommandRemoves
    <2> QED BY <1>b, <2>1, <2>2
  <1>8. ToldApart'
    BY DEF MirrorIInv, cloudSide, ToldApart, Gone, Pending, MirrorTypeOK, Projections,
       OnlyTheDeleted, Owed, CommandRemoves, Removal, Requested
  <1>9. DeletionReachesCloud'
    BY DEF MirrorIInv, cloudSide, DeletionReachesCloud, Pending, CommandRemoves, Removal
  <1> QED BY <1>1, <1>2, <1>3, <1>4, <1>5, <1>6, <1>7, <1>8, <1>9 DEF MirrorIInv

\* The command's removal is noted, as the event's is.
LEMMA CommandNotesKeeps ==
  ASSUME MirrorIInv, NEW t \in Tasks, CommandNotes(t)
  PROVE  MirrorIInv'
  <1>a. MirrorTypeOK /\ Requested /\ command' = [command EXCEPT ![t] = "done"] /\ command[t] = "noting"
    BY DEF MirrorIInv, CommandNotes
  <1>b. SupersedesOnly  BY <1>a, RequestedIs
  <1>c. IF t \in mirrored THEN Noted(t) /\ NotesOnly(t) ELSE UNCHANGED <<mirrored, file, forgiven>>
    BY <1>a, NotedIs DEF CommandNotes
  <1>1. MirrorTypeOK'
    <2>1. file' \in SyncFiles /\ forgiven' \subseteq Tasks /\ mirrored' \subseteq mirrored
      BY <1>a, <1>c DEF NotesOnly, Noted, MirrorTypeOK
    <2> QED BY <1>a, <1>b, <2>1 DEF SupersedesOnly, cloudSide, MirrorTypeOK, CommandNotes
  <1>2. NumbersGrow'
    BY <1>a, <1>b, <1>c DEF SupersedesOnly, NotesOnly, MirrorIInv, cloudSide, NumbersGrow, Ours,
       CommandNotes
  <1>3. AnswerIsOwn'
    BY DEF MirrorIInv, AnswerIsOwn, AnswerOf, MirrorTypeOK, SyncFiles, CommandNotes, Noted,
       Requested
  <1>4. OnlyTheDeleted'
    <2>1. CASE t \in mirrored
      BY <1>a, <1>b, <1>c, <2>1 DEF SupersedesOnly, NotesOnly, MirrorIInv, OnlyTheDeleted, Owed,
         CommandNotes
    <2>2. CASE t \notin mirrored
      BY <1>a, <1>b, <1>c, <2>2 DEF SupersedesOnly, MirrorIInv, OnlyTheDeleted, Owed, Pending,
         CommandNotes
    <2> QED BY <2>1, <2>2
  <1>5. GoneNotBack'
    <2>1. file'.epoch = file.epoch /\ forgiven \subseteq forgiven'  BY <1>c DEF NotesOnly
    <2> QED
      BY <1>b, <2>1 DEF SupersedesOnly, MirrorIInv, history, cloudSide, GoneNotBack, Gone,
         Restoring, CommandNotes
  <1>6. OldStoresApart'
    BY DEF MirrorIInv, cloudSide, OldStoresApart, Ours, IsNewer, Gone, MirrorTypeOK, SyncFiles,
       CommandNotes, Noted, Requested
  <1>7. ShownIsOwed'
    BY DEF MirrorIInv, cloudSide, ShownIsOwed, IsNewer, Ours, Gone, Owed, Pending, MirrorTypeOK,
       SyncFiles, CommandNotes, Noted, Requested
  <1>8. ToldApart'  BY DEF MirrorIInv, cloudSide, ToldApart, Gone, CommandNotes, Noted, Requested
  <1>9. DeletionReachesCloud'
    <2>1. CASE t \in mirrored
      BY <1>a, <1>c, <2>1 DEF NotesOnly, MirrorIInv, cloudSide, DeletionReachesCloud, CommandNotes
    <2>2. CASE t \notin mirrored
      BY <1>a, <1>c, <2>2 DEF MirrorIInv, cloudSide, DeletionReachesCloud, Pending, CommandNotes
    <2> QED BY <2>1, <2>2
  <1> QED BY <1>1, <1>2, <1>3, <1>4, <1>5, <1>6, <1>7, <1>8, <1>9 DEF MirrorIInv

\* The plugin, the gateway or the machine comes back with what was on disk.
LEMMA MirrorRestartsKeeps ==
  ASSUME MirrorIInv, MirrorRestarts
  PROVE  MirrorIInv'
  <1> DEFINE fresh == [epoch |-> file.epoch + 1, lastSeq |-> 0, removed |-> <<>>]
  <1>1. /\ forgiven' = forgiven \cup ((Pending \cup removedEvents) \ ToSet(file'.removed))
        /\ removedEvents' = {} /\ mirrored' = {} /\ restoreQueue' = {} /\ behindBy' = TRUE
        /\ projection' = NoProjection /\ UNCHANGED <<flying, cloudSide, seenIds, commandTasks, deleted>>
        /\ command' = [t \in Tasks |-> IF command[t] \in {"noting", "late"} THEN "failed" ELSE command[t]]
    BY DEF MirrorRestarts
  <1>2. \/ (file' = disk /\ UNCHANGED <<jobs, disk>>)
        \/ (jobs' = {} /\ file' = fresh /\ disk' = file')
    BY DEF MirrorRestarts
  <1>3. breaks' = breaks + 1 /\ breaks < MaxBreaks /\ MirrorTypeOK
    BY DEF MirrorRestarts, Breaks, MirrorIInv
  <1>4. /\ projection'.at = "idle" /\ projection'.has = {} /\ projection'.gone = {} /\ projection'.restore = {}
        /\ projection' \in Projections
    BY <1>1, NoProjectionIs DEF NoProjection
  <1>5. fresh.epoch = file.epoch + 1 /\ fresh.lastSeq = 0 /\ ToSet(fresh.removed) = {} /\ fresh \in SyncFiles
    <2>1. fresh.removed = <<>> /\ <<>> \in Seq(Tasks) /\ ToSet(<<>>) = {}  BY DEF ToSet
    <2>2. file.epoch + 1 \in Epochs /\ 0 \in Numbers
      BY <1>3, MirrorAssumption DEF MirrorIInv, NumbersGrow, MirrorTypeOK, SyncFiles, Epochs,
         Numbers
    <2> QED BY <2>1, <2>2 DEF SyncFiles
  <1> HIDE DEF fresh
  <1>6. Pending' = ToSet(file'.removed) /\ Gone' \subseteq Gone /\ Gone' \cap Owed \subseteq Pending'
    BY <1>1 DEF Pending, Gone, Owed
  <1>7. MirrorTypeOK'  BY <1>1, <1>2, <1>3, <1>4, <1>5, PendingAreTasks DEF cloudSide, MirrorTypeOK
  <1>8. NumbersGrow'
    BY <1>1, <1>2, <1>3, <1>4, <1>5, MirrorAssumption DEF cloudSide, MirrorIInv, NumbersGrow, Ours,
       InHand,
       MirrorTypeOK, Snapshots, SyncFiles, Epochs, Numbers
  <1>9. AnswerIsOwn'  BY <1>4 DEF AnswerIsOwn, AnswerOf
  <1>10. OnlyTheDeleted'  BY <1>1, <1>2, <1>4, <1>5 DEF MirrorIInv, OnlyTheDeleted, Owed, Pending
  <1>11. \A t \in Gone' : knownIn[t] # {} => t \in Pending'
    BY <1>6 DEF MirrorIInv, DeletionReachesCloud, Gone, Owed
  <1>12. GoneNotBack'
    <2> SUFFICES ASSUME NEW t \in Gone'  PROVE t \notin jobs' /\ ~Restoring(t)'
      BY DEF GoneNotBack
    <2>1. t \notin jobs /\ ~Restoring(t)  BY <1>6 DEF MirrorIInv, GoneNotBack
    <2>2. CASE file' = disk /\ UNCHANGED <<jobs, disk>>
      BY <1>1, <1>4, <2>1, <2>2 DEF MirrorIInv, NumbersGrow, Restoring, cloudSide
    <2>3. CASE jobs' = {} /\ file' = fresh
      BY <1>1, <1>4, <1>5, <1>6, <1>11, <2>3 DEF Restoring, cloudSide
    <2> QED BY <1>2, <2>2, <2>3
  <1>13. OldStoresApart'
    <2> SUFFICES ASSUME NEW s \in flying, IsNewer(s), ~Ours(s)'
                 PROVE  s.has \cap (jobs' \cup Gone') = {}
      BY <1>1, <1>4 DEF OldStoresApart, IsNewer, cloudSide
    <2>1. CASE file' = disk /\ UNCHANGED <<jobs, disk>>
      BY <1>6, <2>1 DEF MirrorIInv, NumbersGrow, OldStoresApart, Ours
    <2>2. CASE jobs' = {} /\ file' = fresh
      BY <1>5, <1>6, <2>2 DEF MirrorIInv, OldStoresApart, ShownIsOwed
    <2> QED BY <1>2, <2>1, <2>2
  <1>14. ShownIsOwed'
    <2> SUFFICES ASSUME NEW s \in flying, IsNewer(s), Ours(s)'
                 PROVE  s.has \cap Gone' \subseteq Owed'
      BY <1>1, <1>4 DEF ShownIsOwed, IsNewer, cloudSide
    <2>1. CASE file' = disk  BY <1>6, <2>1 DEF MirrorIInv, NumbersGrow, ShownIsOwed, Ours, Owed
    <2>2. CASE file' = fresh
      BY <1>5, <2>2, <1>3 DEF MirrorIInv, NumbersGrow, Ours, MirrorTypeOK, Snapshots, SyncFiles,
         Epochs
    <2> QED BY <1>2, <2>1, <2>2
  <1>15. ToldApart'  BY <1>4 DEF ToldApart, InHand
  <1>16. DeletionReachesCloud'  BY <1>1, <1>11 DEF DeletionReachesCloud, Gone, cloudSide
  <1> QED BY <1>7, <1>8, <1>9, <1>10, <1>12, <1>13, <1>14, <1>15, <1>16 DEF MirrorIInv

\* At first nothing was deleted.
LEMMA MirrorInitIs == MirrorInit => MirrorIInv
  <1> SUFFICES ASSUME MirrorInit PROVE MirrorIInv  OBVIOUS
  <1> DEFINE first == [epoch |-> 0, lastSeq |-> 0, removed |-> <<>>]
  <1>1. 0 \in Epochs /\ 0 \in Numbers /\ <<>> \in Seq(Tasks) /\ ToSet(<<>>) = {}
    BY MirrorAssumption DEF Epochs, Numbers, ToSet
  <1>2. first \in SyncFiles /\ first.epoch = 0 /\ first.lastSeq = 0 /\ ToSet(first.removed) = {}
    BY <1>1 DEF SyncFiles
  <1>3. file = first /\ disk = first  BY DEF MirrorInit
  <1> HIDE DEF first
  <1>4. Pending = {}  BY <1>2, <1>3 DEF Pending
  <1>5. projection.at = "idle" /\ projection.gone = {} /\ projection.restore = {}
    BY DEF MirrorInit, NoProjection
  <1>6. newest.epoch = 0 /\ newest.seq = 0  BY DEF MirrorInit
  <1>7. MirrorTypeOK  BY <1>1, <1>2, <1>3, NoProjectionIs DEF MirrorInit, MirrorTypeOK
  <1>8. NumbersGrow
    BY <1>2, <1>3, <1>5, <1>6, MirrorAssumption DEF MirrorInit, NumbersGrow, InHand, Ours
  <1>9. AnswerIsOwn /\ OldStoresApart /\ ShownIsOwed /\ ToldApart
    BY <1>5 DEF MirrorInit, AnswerIsOwn, OldStoresApart, ShownIsOwed, ToldApart, InHand
  <1>10. OnlyTheDeleted  BY <1>2, <1>3, <1>4, <1>5 DEF MirrorInit, OnlyTheDeleted, Owed
  <1>11. GoneNotBack /\ DeletionReachesCloud
    BY DEF MirrorInit, GoneNotBack, Gone, DeletionReachesCloud
  <1> QED BY <1>7, <1>8, <1>9, <1>10, <1>11 DEF MirrorIInv

\* Every step keeps it.
LEMMA MirrorKept == MirrorIInv /\ [MirrorNext]_mirrorVars => MirrorIInv'
  <1> SUFFICES ASSUME MirrorIInv, [MirrorNext]_mirrorVars  PROVE MirrorIInv'  OBVIOUS
  <1>1. CASE UNCHANGED mirrorVars
    <2>1. UNCHANGED <<jobs, removedEvents, mirrored, file, disk, behindBy, projection, flying, cloudSide,
                      restoreQueue, commands, history, breaks>>
      BY <1>1 DEF mirrorVars
    <2>2. MirrorTypeOK'  BY <2>1 DEF MirrorIInv, MirrorTypeOK, cloudSide, commands, history
    <2>3. breaks' \in breaks..MaxBreaks /\ UNCHANGED command
      BY <2>1, MirrorAssumption DEF MirrorIInv, NumbersGrow, commands
    <2> QED BY <2>1, <2>2, <2>3, CommandStepKeeps
  <1>2. ASSUME NEW t \in Tasks,
               \/ OwnerAdds(t) \/ OwnerDeletes(t) \/ RemovedHook(t) \/ RestoreAdds(t)
               \/ CommandRemoves(t) \/ CommandNotes(t)
        PROVE  MirrorIInv'
    BY <1>2, OwnerAddsKeeps, OwnerDeletesKeeps, RemovedHookKeeps, RestoreAddsKeeps,
       CommandRemovesKeeps,
       CommandNotesKeeps
  <1>3. ASSUME NEW s \in flying, CloudAccepts(s) \/ CloudDropsStale(s) \/ PostIsLost(s)
        PROVE  MirrorIInv'
    BY <1>3, CloudAcceptsKeeps, CloudDropsStaleKeeps, PostIsLostKeeps
  <1>4. CASE \/ (\E t \in Tasks : CommandArrives(t) \/ CommandRepeats(t) \/ CommandFails(t) \/ ReportsCommand(t))
             \/ HandlerRestarts
    BY <1>4, CommandsKeep
  <1>5. CASE Refreshes \/ Saves \/ Lists \/ TakesNumber \/ PostsSnapshot \/ StartsOver
    BY <1>5, RefreshesKeeps, SavesKeeps, ListsKeeps, TakesNumberKeeps, PostsSnapshotKeeps,
       StartsOverKeeps
  <1>6. CASE DropsReported \/ EnqueuesRestore \/ MirrorRestarts
    BY <1>6, DropsReportedKeeps, EnqueuesRestoreKeeps, MirrorRestartsKeeps
  <1> QED BY <1>1, <1>2, <1>3, <1>4, <1>5, <1>6 DEF MirrorNext

(* A task that was deleted here, by its owner or by the cloud's command,   *)
(* is gone at the cloud, or its removal is still on its way there, for any *)
(* snapshots sent, lost or overtaken around it                             *)
(* (CronMirror.DeletionReachesCloud).                                      *)
THEOREM DeletionsArrive == MirrorSpec => []DeletionReachesCloud
  <1>1. MirrorIInv => DeletionReachesCloud  BY DEF MirrorIInv
  <1> QED BY MirrorInitIs, MirrorKept, <1>1, PTL DEF MirrorSpec

=============================================================================
