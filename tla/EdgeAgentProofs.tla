--------------------------- MODULE EdgeAgentProofs ---------------------------
(***************************************************************************)
(* Machine-checked facts about EdgeAgent, for any set of commands, any     *)
(* number of SSE loops, and any size of the queue.                         *)
(***************************************************************************)
EXTENDS EdgeAgent, TLAPS

USE ConstantsAssumption

\* Putting one element at the end.
LEMMA AppendOne ==
    ASSUME NEW S, NEW q \in Seq(S), NEW e \in S
    PROVE  Append(q, e) \in Seq(S) /\ Len(Append(q, e)) = Len(q) + 1
OBVIOUS

\* Taking the head of a non-empty queue.
LEMMA HeadAndTail ==
    ASSUME NEW S, NEW q \in Seq(S), q # <<>>
    PROVE  Head(q) \in S /\ Tail(q) \in Seq(S) /\ Len(Tail(q)) = Len(q) - 1
OBVIOUS

\* The invariant holds in the initial state.
LEMMA InitIInv == Init => IInv
<1> SUFFICES ASSUME Init PROVE IInv
  OBVIOUS
<1> USE DEF Init, Inst, Status, Codes, Work, NoWork, NoCall, Idle
<1>1. CloudTypeOK /\ FileTypeOK
  <2>1. 0 \in Inst /\ "absent" \in Status
    OBVIOUS
  <2>2. cmd \in [Cmds -> Status] /\ reported \subseteq Cmds
    OBVIOUS
  <2>3. QED
    BY <2>1, <2>2, Zenon DEF CloudTypeOK, FileTypeOK
<1>2. PingTypeOK
  BY DEF PingTypeOK
<1>3. ExecTypeOK
  <2>1. queue \in Seq(Work) /\ Len(queue) = 0
    OBVIOUS
  <2>2. QED
    BY <2>1 DEF ExecTypeOK
<1>4. RestTypeOK
  <2>1. stream \in [Streams -> Inst] /\ faults \in Nat
    OBVIOUS
  <2>2. QED
    BY <2>1, Zenon DEF RestTypeOK
<1>5. Len(queue) <= QueueMax
  OBVIOUS
<1>6. WorkInHand /\ RoomWhileUnacked /\ StopsOnlyAfterReport
  BY DEF WorkInHand, RoomWhileUnacked, StopsOnlyAfterReport, Probing
<1>7. QED
  BY <1>1, <1>2, <1>3, <1>4, <1>5, <1>6 DEF IInv, TypeOK

LEMMA PingLoopKeeps == IInv /\ PingLoop => IInv'
<1> SUFFICES ASSUME IInv, PingLoop PROVE IInv'
  OBVIOUS
<1> USE DEF IInv, TypeOK, CloudTypeOK, FileTypeOK, PingTypeOK, ExecTypeOK, RestTypeOK,
                     WorkInHand, RoomWhileUnacked, StopsOnlyAfterReport, Probing,
                    Inst, Status, Codes, Work, NoWork, NoCall, Idle, Disturb, Send, BackToTop, Answered,
                    ForgetDispatched, Waiting, Answer, GrantSession, Closed, Revoked,
                    cloudVars, fileVars, pingVars, execVars, history, others
<1>1. CASE DropAck
  BY <1>1 DEF DropAck
<1>2. CASE SendResult
  BY <1>2 DEF SendResult
<1>3. CASE BeginProbe
  BY <1>3 DEF BeginProbe
<1>4. CASE SendPing
  BY <1>4 DEF SendPing
<1>5. CASE ConnectGranted
  BY <1>5 DEF ConnectGranted
<1>6. CASE PingAccepted
  <2> USE <1>6 DEF PingAccepted
  <2> DEFINE work == [id |-> call.offer, inst |-> call.inst]
  <2>0. call.offer \notin {NoCmd, dispatched} => work \in Work
    OBVIOUS
  <2>1. TypeOK'
    <3>1. CloudTypeOK'
      OBVIOUS
    <3>2. FileTypeOK'
      OBVIOUS
    <3>3. PingTypeOK'
      OBVIOUS
    <3>4. ExecTypeOK'
      <4>1. queue' \in {queue, Append(queue, work)} /\ (queue' = queue \/ work \in Work)
        BY <2>0
      <4>2. queue \in Seq(Work)
        OBVIOUS
      <4>3. queue' \in Seq(Work)
        <5>1. CASE queue' = queue
          BY <4>2, <5>1
        <5>2. CASE work \in Work /\ queue' = Append(queue, work)
          <6> HIDE DEF work, Work
          <6>1. Append(queue, work) \in Seq(Work)
            BY <4>2, <5>2, AppendOne
          <6>2. QED
            BY <5>2, <6>1, Zenon
        <5>3. QED
          BY <4>1, <5>1, <5>2
      <4>4. QED
        BY <4>3
    <3>5. RestTypeOK'
      OBVIOUS
    <3>6. QED
      BY <3>1, <3>2, <3>3, <3>4, <3>5
  <2>2. (Len(queue) <= QueueMax)'
    OBVIOUS
  <2>3. WorkInHand'
    OBVIOUS
  <2>4. RoomWhileUnacked'
    OBVIOUS
  <2>5. StopsOnlyAfterReport'
    OBVIOUS
  <2>6. QED
    BY <2>1, <2>2, <2>3, <2>4, <2>5
<1>7. CASE PutUnblocked
  BY <1>7 DEF PutUnblocked
<1>8. CASE RefusedAlreadyActive
  BY <1>8 DEF RefusedAlreadyActive
<1>9. CASE SessionInvalidated
  BY <1>9 DEF SessionInvalidated
<1>10. CASE Unauthorized
  <2> USE <1>10 DEF Unauthorized
  <2>1. TypeOK'
    <3>1. CloudTypeOK'
      OBVIOUS
    <3>2. FileTypeOK'
      <4>1. creds' = FALSE /\ session' = 0
        BY Zenon
      <4>2. standbyWish' \in BOOLEAN
        BY Zenon
      <4>3. creds' \in BOOLEAN /\ session' \in Inst
        <5>1. creds' \in BOOLEAN
          BY <4>1, Zenon
        <5>2. session' \in Inst
          BY <4>1
        <5>3. QED
          BY <5>1, <5>2
      <4>4. QED
        BY <4>2, <4>3, Zenon
    <3>3. PingTypeOK'
      OBVIOUS
    <3>4. ExecTypeOK'
      OBVIOUS
    <3>5. RestTypeOK'
      OBVIOUS
    <3>6. QED
      BY <3>1, <3>2, <3>3, <3>4, <3>5
  <2>2. (Len(queue) <= QueueMax)'
    OBVIOUS
  <2>3. WorkInHand'
    OBVIOUS
  <2>4. RoomWhileUnacked'
    OBVIOUS
  <2>5. StopsOnlyAfterReport'
    OBVIOUS
  <2>6. QED
    BY <2>1, <2>2, <2>3, <2>4, <2>5
<1>11. CASE RetryLater
  BY <1>11 DEF RetryLater
<1>12. CASE ResultAccepted
  BY <1>12 DEF ResultAccepted
<1>13. CASE LoopEnds
  BY <1>13 DEF LoopEnds
<1>14. QED
  BY <1>1, <1>2, <1>3, <1>4, <1>5, <1>6, <1>7, <1>8, <1>9, <1>10, <1>11, <1>12, <1>13 DEF PingLoop

LEMMA ExecutorKeeps == IInv /\ Executor => IInv'
<1> SUFFICES ASSUME IInv, Executor PROVE IInv'
  OBVIOUS
<1> USE DEF IInv, TypeOK, CloudTypeOK, FileTypeOK, PingTypeOK, ExecTypeOK, RestTypeOK,
                     WorkInHand, RoomWhileUnacked, StopsOnlyAfterReport, Probing,
                    Inst, Status, Codes, Work, NoWork, NoCall, Idle, Disturb, Send, BackToTop, Answered,
                    ForgetDispatched, Waiting, Answer, GrantSession, Closed, Revoked,
                    cloudVars, fileVars, pingVars, execVars, history, others
<1>1. CASE TakeCommand
  <2> USE <1>1 DEF TakeCommand
  <2>0. Head(queue) \in Work /\ Tail(queue) \in Seq(Work) /\ Len(Tail(queue)) < QueueMax
    <3>1. queue \in Seq(Work) /\ queue # <<>> /\ Len(queue) \in Nat /\ Len(queue) <= QueueMax
      OBVIOUS
    <3>2. Head(queue) \in Work /\ Tail(queue) \in Seq(Work) /\ Len(Tail(queue)) = Len(queue) - 1
      BY <3>1, HeadAndTail, Zenon
    <3>3. QED
      BY <3>1, <3>2
  <2>1. TypeOK'
    <3>1. CloudTypeOK'
      OBVIOUS
    <3>2. FileTypeOK'
      OBVIOUS
    <3>3. PingTypeOK'
      OBVIOUS
    <3>4. ExecTypeOK'
      BY <2>0
    <3>5. RestTypeOK'
      BY <2>0
    <3>6. QED
      BY <3>1, <3>2, <3>3, <3>4, <3>5
  <2>2. (Len(queue) <= QueueMax)'
    OBVIOUS
  <2>3. WorkInHand'
    BY <2>0
  <2>4. RoomWhileUnacked'
    OBVIOUS
  <2>5. StopsOnlyAfterReport'
    OBVIOUS
  <2>6. QED
    BY <2>1, <2>2, <2>3, <2>4, <2>5
<1>2. CASE SwitchThread
  <2> USE <1>2 DEF SwitchThread
  <2>1. TypeOK'
    <3>1. CloudTypeOK'
      OBVIOUS
    <3>2. FileTypeOK'
      OBVIOUS
    <3>3. PingTypeOK'
      OBVIOUS
    <3>4. ExecTypeOK'
      OBVIOUS
    <3>5. RestTypeOK'
      OBVIOUS
    <3>6. QED
      BY <3>1, <3>2, <3>3, <3>4, <3>5
  <2>2. (Len(queue) <= QueueMax)'
    OBVIOUS
  <2>3. WorkInHand'
    OBVIOUS
  <2>4. RoomWhileUnacked'
    OBVIOUS
  <2>5. StopsOnlyAfterReport'
    OBVIOUS
  <2>6. QED
    BY <2>1, <2>2, <2>3, <2>4, <2>5
<1>3. CASE FinishCommand
  <2> USE <1>3 DEF FinishCommand
  <2>1. TypeOK'
    <3>1. CloudTypeOK'
      OBVIOUS
    <3>2. FileTypeOK'
      OBVIOUS
    <3>3. PingTypeOK'
      OBVIOUS
    <3>4. ExecTypeOK'
      OBVIOUS
    <3>5. RestTypeOK'
      OBVIOUS
    <3>6. QED
      BY <3>1, <3>2, <3>3, <3>4, <3>5
  <2>2. (Len(queue) <= QueueMax)'
    OBVIOUS
  <2>3. WorkInHand'
    OBVIOUS
  <2>4. RoomWhileUnacked'
    OBVIOUS
  <2>5. StopsOnlyAfterReport'
    OBVIOUS
  <2>6. QED
    BY <2>1, <2>2, <2>3, <2>4, <2>5
<1>4. CASE PublishResult
  BY <1>4 DEF PublishResult
<1>5. QED
  BY <1>1, <1>2, <1>3, <1>4 DEF Executor

\* What an accepted ping does to the commands.
LEMMA CloudTakesPingTypes ==
    ASSUME cmd \in [Cmds -> Status], reported \subseteq Cmds, CloudTakesPing,
           call.kind = "result" => ack.id \in Cmds
    PROVE  cmd' \in [Cmds -> Status] /\ reported' \subseteq Cmds
<1>1. Settled \in [Cmds -> Status]
  BY DEF Settled, Status
<1>2. PICK offer : cmd' = [c \in Cmds |-> IF c = offer THEN "delivered" ELSE Settled[c]]
  BY DEF CloudTakesPing
<1>3. cmd' \in [Cmds -> Status]
  BY <1>1, <1>2 DEF Status
<1>4. reported' \subseteq Cmds
  BY DEF CloudTakesPing, Results
<1>5. QED
  BY <1>3, <1>4

LEMMA CloudKeeps == IInv /\ Cloud => IInv'
<1> SUFFICES ASSUME IInv, Cloud PROVE IInv'
  OBVIOUS
<1> USE DEF IInv, TypeOK, CloudTypeOK, FileTypeOK, PingTypeOK, ExecTypeOK, RestTypeOK,
                     WorkInHand, RoomWhileUnacked, StopsOnlyAfterReport, Probing,
                    Inst, Status, Codes, Work, NoWork, NoCall, Idle, Disturb, Send, BackToTop, Answered,
                    ForgetDispatched, Waiting, Answer, GrantSession, Closed, Revoked,
                    cloudVars, fileVars, pingVars, execVars, history, others
<1>1. CASE CloudAnswersConnect
  <2> USE <1>1 DEF CloudAnswersConnect, CloudGrantsConnect, CloudRefusesConnect
  <2>1. TypeOK'
    <3>1. CloudTypeOK'
      <4>1. (cloudInst \in Inst /\ lastInst \in Inst)'
        OBVIOUS
      <4>2. (fresh \in BOOLEAN /\ otherActive \in BOOLEAN)'
        OBVIOUS
      <4>3. (tokenOk \in BOOLEAN /\ suspended \in BOOLEAN)'
        OBVIOUS
      <4>4. (cmd \in [Cmds -> Status] /\ reported \subseteq Cmds)'
        OBVIOUS
      <4>5. QED
        BY <4>1, <4>2, <4>3, <4>4
    <3>2. FileTypeOK'
      OBVIOUS
    <3>3. PingTypeOK'
      <4>1. \/ \E code \in Codes : call' = [call EXCEPT !.code = code]
            \/ /\ lastInst + 1 \in Inst
               /\ call' = [call EXCEPT !.code = "ok", !.inst = lastInst + 1]
        OBVIOUS
      <4>2. call' \in [kind : {"none", "connect", "ping", "result", "disconnect"},
                       inst : Inst, code : Codes, offer : Cmds \cup {NoCmd}]
        BY <4>1
      <4>3. QED
        BY <4>2
    <3>4. ExecTypeOK'
      OBVIOUS
    <3>5. RestTypeOK'
      OBVIOUS
    <3>6. QED
      BY <3>1, <3>2, <3>3, <3>4, <3>5
  <2>2. (Len(queue) <= QueueMax)'
    OBVIOUS
  <2>3. WorkInHand'
    OBVIOUS
  <2>4. RoomWhileUnacked'
    OBVIOUS
  <2>5. StopsOnlyAfterReport'
    OBVIOUS
  <2>6. QED
    BY <2>1, <2>2, <2>3, <2>4, <2>5
<1>2. CASE CloudAnswersPing
  <2> USE <1>2 DEF CloudAnswersPing, CloudTakesPing, CloudRefusesPing, Results
  <2>1. TypeOK'
    <3>1. CloudTypeOK'
      <4>1. (cloudInst \in Inst /\ lastInst \in Inst)'
        OBVIOUS
      <4>2. (fresh \in BOOLEAN /\ otherActive \in BOOLEAN)'
        OBVIOUS
      <4>3. (tokenOk \in BOOLEAN /\ suspended \in BOOLEAN)'
        OBVIOUS
      <4>4. (cmd \in [Cmds -> Status] /\ reported \subseteq Cmds)'
        BY CloudTakesPingTypes
      <4>5. QED
        BY <4>1, <4>2, <4>3, <4>4
    <3>2. FileTypeOK'
      OBVIOUS
    <3>3. PingTypeOK'
      OBVIOUS
    <3>4. ExecTypeOK'
      OBVIOUS
    <3>5. RestTypeOK'
      OBVIOUS
    <3>6. QED
      BY <3>1, <3>2, <3>3, <3>4, <3>5
  <2>2. (Len(queue) <= QueueMax)'
    OBVIOUS
  <2>3. WorkInHand'
    OBVIOUS
  <2>4. RoomWhileUnacked'
    OBVIOUS
  <2>5. StopsOnlyAfterReport'
    OBVIOUS
  <2>6. QED
    BY <2>1, <2>2, <2>3, <2>4, <2>5
<1>3. CASE CloudAnswersDisconnect
  <2> USE <1>3 DEF CloudAnswersDisconnect
  <2>1. TypeOK'
    <3>1. CloudTypeOK'
      <4>1. (cloudInst \in Inst /\ lastInst \in Inst)'
        OBVIOUS
      <4>2. (fresh \in BOOLEAN /\ otherActive \in BOOLEAN)'
        OBVIOUS
      <4>3. (tokenOk \in BOOLEAN /\ suspended \in BOOLEAN)'
        OBVIOUS
      <4>4. (cmd \in [Cmds -> Status] /\ reported \subseteq Cmds)'
        OBVIOUS
      <4>5. QED
        BY <4>1, <4>2, <4>3, <4>4
    <3>2. FileTypeOK'
      OBVIOUS
    <3>3. PingTypeOK'
      OBVIOUS
    <3>4. ExecTypeOK'
      OBVIOUS
    <3>5. RestTypeOK'
      OBVIOUS
    <3>6. QED
      BY <3>1, <3>2, <3>3, <3>4, <3>5
  <2>2. (Len(queue) <= QueueMax)'
    OBVIOUS
  <2>3. WorkInHand'
    OBVIOUS
  <2>4. RoomWhileUnacked'
    OBVIOUS
  <2>5. StopsOnlyAfterReport'
    OBVIOUS
  <2>6. QED
    BY <2>1, <2>2, <2>3, <2>4, <2>5
<1>4. QED
  BY <1>1, <1>2, <1>3 DEF Cloud

LEMMA WorldKeeps == IInv /\ World => IInv'
<1> SUFFICES ASSUME IInv, World PROVE IInv'
  OBVIOUS
<1> USE DEF IInv, TypeOK, CloudTypeOK, FileTypeOK, PingTypeOK, ExecTypeOK, RestTypeOK,
                     WorkInHand, RoomWhileUnacked, StopsOnlyAfterReport, Probing,
                    Inst, Status, Codes, Work, NoWork, NoCall, Idle, Disturb, Send, BackToTop, Answered,
                    ForgetDispatched, Waiting, Answer, GrantSession, Closed, Revoked,
                    cloudVars, fileVars, pingVars, execVars, history, others
<1>1. CASE OwnerEnqueues
  BY <1>1 DEF OwnerEnqueues
<1>2. CASE CommandCloses
  <2> USE <1>2 DEF CommandCloses
  <2>1. TypeOK'
    <3>1. CloudTypeOK'
      OBVIOUS
    <3>2. FileTypeOK'
      OBVIOUS
    <3>3. PingTypeOK'
      OBVIOUS
    <3>4. ExecTypeOK'
      OBVIOUS
    <3>5. RestTypeOK'
      OBVIOUS
    <3>6. QED
      BY <3>1, <3>2, <3>3, <3>4, <3>5
  <2>2. (Len(queue) <= QueueMax)'
    OBVIOUS
  <2>3. WorkInHand'
    OBVIOUS
  <2>4. RoomWhileUnacked'
    OBVIOUS
  <2>5. StopsOnlyAfterReport'
    OBVIOUS
  <2>6. QED
    BY <2>1, <2>2, <2>3, <2>4, <2>5
<1>3. CASE SessionGoesStale
  <2> USE <1>3 DEF SessionGoesStale
  <2>1. TypeOK'
    <3>1. CloudTypeOK'
      OBVIOUS
    <3>2. FileTypeOK'
      OBVIOUS
    <3>3. PingTypeOK'
      OBVIOUS
    <3>4. ExecTypeOK'
      OBVIOUS
    <3>5. RestTypeOK'
      OBVIOUS
    <3>6. QED
      BY <3>1, <3>2, <3>3, <3>4, <3>5
  <2>2. (Len(queue) <= QueueMax)'
    OBVIOUS
  <2>3. WorkInHand'
    OBVIOUS
  <2>4. RoomWhileUnacked'
    OBVIOUS
  <2>5. StopsOnlyAfterReport'
    OBVIOUS
  <2>6. QED
    BY <2>1, <2>2, <2>3, <2>4, <2>5
<1>4. CASE SessionExpires
  <2> USE <1>4 DEF SessionExpires
  <2>1. TypeOK'
    <3>1. CloudTypeOK'
      <4>1. (cloudInst \in Inst /\ lastInst \in Inst)'
        OBVIOUS
      <4>2. (fresh \in BOOLEAN /\ otherActive \in BOOLEAN)'
        OBVIOUS
      <4>3. (tokenOk \in BOOLEAN /\ suspended \in BOOLEAN)'
        OBVIOUS
      <4>4. (cmd \in [Cmds -> Status] /\ reported \subseteq Cmds)'
        OBVIOUS
      <4>5. QED
        BY <4>1, <4>2, <4>3, <4>4
    <3>2. FileTypeOK'
      OBVIOUS
    <3>3. PingTypeOK'
      OBVIOUS
    <3>4. ExecTypeOK'
      OBVIOUS
    <3>5. RestTypeOK'
      OBVIOUS
    <3>6. QED
      BY <3>1, <3>2, <3>3, <3>4, <3>5
  <2>2. (Len(queue) <= QueueMax)'
    OBVIOUS
  <2>3. WorkInHand'
    OBVIOUS
  <2>4. RoomWhileUnacked'
    OBVIOUS
  <2>5. StopsOnlyAfterReport'
    OBVIOUS
  <2>6. QED
    BY <2>1, <2>2, <2>3, <2>4, <2>5
<1>5. CASE OtherTakesOver
  BY <1>5 DEF OtherTakesOver
<1>6. CASE OwnerPauses
  BY <1>6 DEF OwnerPauses
<1>7. CASE OwnerResumes
  <2> USE <1>7 DEF OwnerResumes
  <2>1. TypeOK'
    <3>1. CloudTypeOK'
      OBVIOUS
    <3>2. FileTypeOK'
      OBVIOUS
    <3>3. PingTypeOK'
      OBVIOUS
    <3>4. ExecTypeOK'
      OBVIOUS
    <3>5. RestTypeOK'
      OBVIOUS
    <3>6. QED
      BY <3>1, <3>2, <3>3, <3>4, <3>5
  <2>2. (Len(queue) <= QueueMax)'
    OBVIOUS
  <2>3. WorkInHand'
    OBVIOUS
  <2>4. RoomWhileUnacked'
    OBVIOUS
  <2>5. StopsOnlyAfterReport'
    OBVIOUS
  <2>6. QED
    BY <2>1, <2>2, <2>3, <2>4, <2>5
<1>8. CASE TokenRevoked
  <2> USE <1>8 DEF TokenRevoked
  <2>1. TypeOK'
    <3>1. CloudTypeOK'
      <4>1. (cloudInst \in Inst /\ lastInst \in Inst)'
        OBVIOUS
      <4>2. (fresh \in BOOLEAN /\ otherActive \in BOOLEAN)'
        OBVIOUS
      <4>3. (tokenOk \in BOOLEAN /\ suspended \in BOOLEAN)'
        OBVIOUS
      <4>4. (cmd \in [Cmds -> Status] /\ reported \subseteq Cmds)'
        OBVIOUS
      <4>5. QED
        BY <4>1, <4>2, <4>3, <4>4
    <3>2. FileTypeOK'
      OBVIOUS
    <3>3. PingTypeOK'
      OBVIOUS
    <3>4. ExecTypeOK'
      OBVIOUS
    <3>5. RestTypeOK'
      OBVIOUS
    <3>6. QED
      BY <3>1, <3>2, <3>3, <3>4, <3>5
  <2>2. (Len(queue) <= QueueMax)'
    OBVIOUS
  <2>3. WorkInHand'
    OBVIOUS
  <2>4. RoomWhileUnacked'
    OBVIOUS
  <2>5. StopsOnlyAfterReport'
    OBVIOUS
  <2>6. QED
    BY <2>1, <2>2, <2>3, <2>4, <2>5
<1>9. CASE AnswerLost
  <2> USE <1>9 DEF AnswerLost
  <2>1. TypeOK'
    <3>1. CloudTypeOK'
      OBVIOUS
    <3>2. FileTypeOK'
      OBVIOUS
    <3>3. PingTypeOK'
      OBVIOUS
    <3>4. ExecTypeOK'
      OBVIOUS
    <3>5. RestTypeOK'
      OBVIOUS
    <3>6. QED
      BY <3>1, <3>2, <3>3, <3>4, <3>5
  <2>2. (Len(queue) <= QueueMax)'
    OBVIOUS
  <2>3. WorkInHand'
    OBVIOUS
  <2>4. RoomWhileUnacked'
    OBVIOUS
  <2>5. StopsOnlyAfterReport'
    OBVIOUS
  <2>6. QED
    BY <2>1, <2>2, <2>3, <2>4, <2>5
<1>10. CASE PingLoopCrashes
  BY <1>10 DEF PingLoopCrashes
<1>11. CASE ExecutorCrashes
  <2>1. exec' \in {Idle, [Idle EXCEPT !.phase = "dead"]}
    BY <1>11 DEF ExecutorCrashes
  <2>2. exec'.work = NoWork /\ exec'.phase \in {"idle", "dead"}
        /\ exec' \in [phase : {"idle", "remote", "thread", "publish", "dead"}, work : Work \cup {NoWork}]
    BY <2>1
  <2>3. ExecTypeOK' /\ WorkInHand'
    BY <1>11, <2>2 DEF ExecutorCrashes
  <2>4. CloudTypeOK' /\ FileTypeOK' /\ PingTypeOK' /\ RestTypeOK'
    <3>1. CloudTypeOK' /\ FileTypeOK'
      BY <1>11 DEF ExecutorCrashes
    <3>2. PingTypeOK'
      BY <1>11 DEF ExecutorCrashes
    <3>3. exec.work.id \in Cmds
      BY <1>11 DEF ExecutorCrashes
    <3>4. RestTypeOK'
      BY <1>11, <3>3 DEF ExecutorCrashes
    <3> QED
      BY <3>1, <3>2, <3>4
  <2>5. (Len(queue) <= QueueMax)' /\ StopsOnlyAfterReport'
    BY <1>11 DEF ExecutorCrashes
  <2>6. RoomWhileUnacked'
    BY <1>11, <2>2 DEF ExecutorCrashes
  <2> QED
    BY <2>3, <2>4, <2>5, <2>6
<1>12. QED
  BY <1>1, <1>2, <1>3, <1>4, <1>5, <1>6, <1>7, <1>8, <1>9, <1>10, <1>11 DEF World

LEMMA LocalKeeps == IInv /\ Local => IInv'
<1> SUFFICES ASSUME IInv, Local PROVE IInv'
  OBVIOUS
<1> USE DEF IInv, TypeOK, CloudTypeOK, FileTypeOK, PingTypeOK, ExecTypeOK, RestTypeOK,
                     WorkInHand, RoomWhileUnacked, StopsOnlyAfterReport, Probing,
                    Inst, Status, Codes, Work, NoWork, NoCall, Idle, Disturb, Send, BackToTop, Answered,
                    ForgetDispatched, Waiting, Answer, GrantSession, Closed, Revoked,
                    cloudVars, fileVars, pingVars, execVars, history, others
<1>1. ASSUME NEW s \in Streams, StreamReadsSession(s) PROVE IInv'
  BY <1>1 DEF StreamReadsSession
<1>2. ASSUME NEW s \in Streams, StreamRejected(s) PROVE IInv'
  BY <1>2 DEF StreamRejected
<1>3. ASSUME NEW s \in Streams, StreamEnds(s) PROVE IInv'
  BY <1>3 DEF StreamEnds
<1>4. CASE SignIn
  BY <1>4 DEF SignIn
<1>5. CASE SignOutBegins
  <2> USE <1>5 DEF SignOutBegins
  <2>1. TypeOK'
    <3>1. CloudTypeOK'
      <4>1. (cloudInst \in Inst /\ lastInst \in Inst)'
        OBVIOUS
      <4>2. (fresh \in BOOLEAN /\ otherActive \in BOOLEAN)'
        OBVIOUS
      <4>3. (tokenOk \in BOOLEAN /\ suspended \in BOOLEAN)'
        OBVIOUS
      <4>4. (cmd \in [Cmds -> Status] /\ reported \subseteq Cmds)'
        OBVIOUS
      <4>5. QED
        BY <4>1, <4>2, <4>3, <4>4
    <3>2. FileTypeOK'
      OBVIOUS
    <3>3. PingTypeOK'
      OBVIOUS
    <3>4. ExecTypeOK'
      OBVIOUS
    <3>5. RestTypeOK'
      OBVIOUS
    <3>6. QED
      BY <3>1, <3>2, <3>3, <3>4, <3>5
  <2>2. (Len(queue) <= QueueMax)'
    OBVIOUS
  <2>3. WorkInHand' /\ RoomWhileUnacked' /\ StopsOnlyAfterReport'
    OBVIOUS
  <2>4. QED
    BY <2>1, <2>2, <2>3
<1>6. CASE SignOutEnds
  <2> USE <1>6 DEF SignOutEnds
  <2>1. TypeOK'
    <3>1. CloudTypeOK'
      <4>1. (cloudInst \in Inst /\ lastInst \in Inst)'
        OBVIOUS
      <4>2. (fresh \in BOOLEAN /\ otherActive \in BOOLEAN)'
        OBVIOUS
      <4>3. (tokenOk \in BOOLEAN /\ suspended \in BOOLEAN)'
        OBVIOUS
      <4>4. (cmd \in [Cmds -> Status] /\ reported \subseteq Cmds)'
        OBVIOUS
      <4>5. QED
        BY <4>1, <4>2, <4>3, <4>4
    <3>2. FileTypeOK'
      <4>1. session' \in Inst
        OBVIOUS
      <4>2. creds' \in BOOLEAN /\ standbyWish' \in BOOLEAN
        OBVIOUS
      <4>3. QED
        BY <4>1, <4>2
    <3>3. PingTypeOK'
      OBVIOUS
    <3>4. ExecTypeOK'
      OBVIOUS
    <3>5. RestTypeOK'
      OBVIOUS
    <3>6. QED
      BY <3>1, <3>2, <3>3, <3>4, <3>5
  <2>2. (Len(queue) <= QueueMax)'
    OBVIOUS
  <2>3. WorkInHand' /\ RoomWhileUnacked' /\ StopsOnlyAfterReport'
    OBVIOUS
  <2>4. QED
    BY <2>1, <2>2, <2>3
<1>7. CASE AgentRestarts
  <2> USE <1>7 DEF AgentRestarts
  <2>1. TypeOK'
    <3>1. CloudTypeOK'
      <4>1. (cloudInst \in Inst /\ lastInst \in Inst)'
        OBVIOUS
      <4>2. (fresh \in BOOLEAN /\ otherActive \in BOOLEAN)'
        OBVIOUS
      <4>3. (tokenOk \in BOOLEAN /\ suspended \in BOOLEAN)'
        OBVIOUS
      <4>4. (cmd \in [Cmds -> Status] /\ reported \subseteq Cmds)'
        OBVIOUS
      <4>5. QED
        BY <4>1, <4>2, <4>3, <4>4
    <3>2. FileTypeOK'
      OBVIOUS
    <3>3. PingTypeOK'
      OBVIOUS
    <3>4. ExecTypeOK'
      OBVIOUS
    <3>5. RestTypeOK'
      <4>1. stream' \in [Streams -> Inst] /\ faults' \in Nat
        OBVIOUS
      <4>2. signingOut' \in BOOLEAN
        OBVIOUS
      <4>3. (ran \subseteq Cmds /\ ranAgain \subseteq Cmds /\ forgotten \subseteq Cmds /\ lost \subseteq Cmds)'
        OBVIOUS
      <4>4. QED
        BY <4>1, <4>2, <4>3
    <3>6. QED
      BY <3>1, <3>2, <3>3, <3>4, <3>5
  <2>2. (Len(queue) <= QueueMax)'
    OBVIOUS
  <2>3. WorkInHand' /\ RoomWhileUnacked' /\ StopsOnlyAfterReport'
    OBVIOUS
  <2>4. QED
    BY <2>1, <2>2, <2>3
<1>8. QED
  BY <1>1, <1>2, <1>3, <1>4, <1>5, <1>6, <1>7 DEF Local

LEMMA StutterKeeps == IInv /\ UNCHANGED vars => IInv'
BY DEF vars, cloudVars, fileVars, pingVars, execVars, others, history, IInv, TypeOK, CloudTypeOK,
       FileTypeOK, PingTypeOK, ExecTypeOK, RestTypeOK, WorkInHand, RoomWhileUnacked, Probing,
       StopsOnlyAfterReport

\* The invariant holds in every reachable state: it holds at the start, and every action keeps it.
THEOREM Invariant == Spec => []IInv
<1>1. IInv /\ [Next]_vars => IInv'
  BY PingLoopKeeps, ExecutorKeeps, LocalKeeps, CloudKeeps, WorldKeeps, StutterKeeps DEF Next
<1>2. QED
  BY InitIInv, <1>1, PTL DEF Spec

\* Every variable keeps its type.
THEOREM TypeCorrect == Spec => []TypeOK
<1>1. IInv => TypeOK
  BY DEF IInv
<1>2. QED
  BY Invariant, <1>1, PTL

\* asyncio.Queue.put in the ping loop and set_pending_ack in the executor never wait for each
\* other, for any size of the queue and any number of commands.
THEOREM PutNeverMeetsPublish == Spec => []NoPutPublishDeadlock
<1>1. IInv => NoPutPublishDeadlock
  BY DEF IInv, TypeOK, RoomWhileUnacked, NoPutPublishDeadlock
<1>2. QED
  BY Invariant, <1>1, PTL

\* set_pending_ack waits for the slot: a result not yet reported is never replaced by another.
THEOREM AckKept == Spec => AckNotOverwritten
<1>1. [Next]_vars => [ack # NoWork => ack' \in {ack, NoWork}]_vars
  <2> SUFFICES ASSUME Next, ack # NoWork PROVE ack' \in {ack, NoWork}
    OBVIOUS
  <2> USE DEF execVars
  <2>1. CASE PingLoop
    BY <2>1 DEF PingLoop, DropAck, SendResult, BeginProbe, SendPing, ConnectGranted, PingAccepted,
       PutUnblocked, RefusedAlreadyActive, SessionInvalidated, Unauthorized, RetryLater,
       ResultAccepted, LoopEnds
  <2>2. CASE Executor
    BY <2>2 DEF Executor, TakeCommand, SwitchThread, FinishCommand, PublishResult
  <2>3. CASE Local
    BY <2>3 DEF Local, StreamReadsSession, StreamRejected, StreamEnds, SignIn, SignOutBegins,
       SignOutEnds, AgentRestarts
  <2>4. CASE Cloud
    BY <2>4 DEF Cloud, CloudAnswersConnect, CloudAnswersPing, CloudAnswersDisconnect
  <2>5. CASE World
    BY <2>5 DEF World, OwnerEnqueues, CommandCloses, SessionGoesStale, SessionExpires,
       OtherTakesOver, OwnerPauses, OwnerResumes, TokenRevoked, AnswerLost, PingLoopCrashes,
       ExecutorCrashes
  <2>6. QED
    BY <2>1, <2>2, <2>3, <2>4, <2>5 DEF Next
<1>2. QED
  BY <1>1, PTL DEF Spec, AckNotOverwritten

\* The ping loop ends for good only once the cloud has the result of a disconnect command.
THEOREM StopsReported == Spec => []StopsOnlyAfterReport
<1>1. IInv => StopsOnlyAfterReport
  BY DEF IInv
<1>2. QED
  BY Invariant, <1>1, PTL

=============================================================================
