------------------------ MODULE CommandDeliveryProofs ------------------------
(***************************************************************************)
(* EdgeAgent implements CommandDelivery, for any set of commands, any       *)
(* number of sessions and faults, and any size of the queue; and what the  *)
(* agent remembers of commands is right: none runs twice unless forgotten, *)
(* none is ignored for good, and no result is lost without a reason.       *)
(***************************************************************************)
EXTENDS EdgeAgentProofs

\* Steps at which the commands are as they were.
StandStill == UNCHANGED <<cmd, ran, reported>>

\* The ping loop leaves the commands to the cloud and the executor.
LEMMA PingLoopStandsStill == PingLoop => StandStill
BY DEF PingLoop, StandStill, cloudVars, history, DropAck, SendResult, BeginProbe, SendPing,
       ConnectGranted, PingAccepted, PutUnblocked, ResultAccepted, LoopEnds,
       RefusedAlreadyActive, SessionInvalidated, Unauthorized, RetryLater

\* The executor begins commands, and only those from the queue.
LEMMA ExecutorRuns ==
    ASSUME DInv, Executor
    PROVE  [Delivery!Next]_Delivery!vars
<1>1. CASE TakeCommand
  <2>1. Head(queue) = queue[1] /\ 1 \in 1 .. Len(queue)
    BY <1>1 DEF TakeCommand, DInv, IInv, TypeOK, ExecTypeOK
  <2>2. Head(queue).id \in Given
    BY <2>1 DEF DInv, HandedOver
  <2>3. Delivery!Run(Head(queue).id)
    BY <1>1, <2>2 DEF TakeCommand, Given, Delivery!Run, cloudVars
  <2> QED
    BY <2>2, <2>3 DEF Delivery!Next, Given
<1>2. CASE SwitchThread \/ FinishCommand \/ PublishResult
  BY <1>2 DEF SwitchThread, FinishCommand, PublishResult, cloudVars, history, Delivery!vars
<1> QED
  BY <1>1, <1>2 DEF Executor

\* A session that begins ends every active command.
LEMMA GrantCloses ==
    ASSUME DInv, NEW other, GrantSession(other), UNCHANGED <<ran, reported>>
    PROVE  Delivery!Next
<1>1. Delivery!Close(Cmds)
  BY DEF GrantSession, Closed, Delivery!Close, Delivery!Active, DInv, IInv, TypeOK, CloudTypeOK
<1> QED
  BY <1>1 DEF Delivery!Next

\* A ping the cloud takes reports a command that ran and offers an active one.
LEMMA PingExchanges ==
    ASSUME DInv, Waiting({"ping", "result"}), CloudTakesPing, UNCHANGED ran
    PROVE  Delivery!Next
<1>1. PICK offer \in {c \in Cmds : Settled[c] \in {"pending", "delivered"}} \cup {NoCmd} :
        cmd' = [c \in Cmds |-> IF c = offer THEN "delivered" ELSE Settled[c]]
  BY DEF CloudTakesPing
<1>2. Results \subseteq ran /\ Results \in Delivery!Single
  <2>1. CASE call.kind = "result"
    <3>1. ack.id \in Cmds
      BY <2>1 DEF DInv, IInv, WorkInHand, Waiting, Work
    <3>2. ack.id \in ran
      BY <3>1, ConstantsAssumption DEF DInv, HandedOver
    <3> QED  BY <2>1, <3>1, <3>2 DEF Results, Delivery!Single
  <2>2. CASE call.kind # "result"
    BY <2>2 DEF Results, Delivery!Single
  <2> QED  BY <2>1, <2>2
<1>3. \A c \in Cmds : Settled[c] = IF c \in Results /\ cmd[c] = "delivered" THEN "done" ELSE cmd[c]
  BY DEF Settled
<1>4. CASE offer \in Cmds
  <2>1. Settled[offer] \in {"pending", "delivered"}
    BY <1>1, <1>4, ConstantsAssumption
  <2>2. offer \in Delivery!Active /\ (offer \in Results => cmd[offer] = "pending")
    BY <1>3, <1>4, <2>1 DEF Delivery!Active
  <2>3. Delivery!Exchange(Results, {offer})
    BY <1>1, <1>2, <1>3, <1>4, <2>2 DEF Delivery!Exchange, CloudTakesPing
  <2> QED
    BY <1>2, <1>4, <2>3 DEF Delivery!Next, Delivery!Single
<1>5. CASE offer = NoCmd
  <2>1. \A c \in Cmds : c # offer
    BY <1>5, ConstantsAssumption
  <2>2. Delivery!Exchange(Results, {})
    BY <1>1, <1>2, <1>3, <2>1 DEF Delivery!Exchange, CloudTakesPing
  <2> QED
    BY <1>2, <2>2 DEF Delivery!Next, Delivery!Single
<1> QED
  BY <1>1, <1>4, <1>5

\* The cloud's answers.
LEMMA CloudDelivers ==
    ASSUME DInv, Cloud
    PROVE  [Delivery!Next]_Delivery!vars
<1>1. CASE CloudAnswersConnect
  <2>1. CASE CloudGrantsConnect
    BY <1>1, <2>1, GrantCloses DEF CloudAnswersConnect, CloudGrantsConnect, history
  <2>2. CASE CloudRefusesConnect
    BY <1>1, <2>2 DEF CloudAnswersConnect, CloudRefusesConnect, cloudVars, history, Delivery!vars
  <2> QED  BY <1>1, <2>1, <2>2 DEF CloudAnswersConnect
<1>2. CASE CloudAnswersPing
  <2>1. CASE CloudTakesPing
    BY <1>2, <2>1, PingExchanges DEF CloudAnswersPing, history
  <2>2. CASE CloudRefusesPing
    BY <1>2, <2>2 DEF CloudAnswersPing, CloudRefusesPing, cloudVars, history, Delivery!vars
  <2> QED  BY <1>2, <2>1, <2>2 DEF CloudAnswersPing
<1>3. CASE CloudAnswersDisconnect
  BY <1>3 DEF CloudAnswersDisconnect, history, Delivery!vars
<1> QED
  BY <1>1, <1>2, <1>3 DEF Cloud

\* The owner enqueues and cancels; everything else outside leaves the commands as they are.
LEMMA WorldDelivers ==
    ASSUME DInv, World
    PROVE  [Delivery!Next]_Delivery!vars
<1>1. CASE OwnerEnqueues
  <2>1. PICK c \in Cmds : cmd[c] = "absent" /\ cmd' = [cmd EXCEPT ![c] = "pending"]
    BY <1>1 DEF OwnerEnqueues
  <2>2. Delivery!Enqueue(c)
    BY <1>1, <2>1 DEF OwnerEnqueues, Active, Delivery!Active, Delivery!Enqueue, history
  <2> QED  BY <2>2 DEF Delivery!Next
<1>2. CASE CommandCloses
  <2>1. PICK c \in Active : cmd' = [cmd EXCEPT ![c] = "closed"]
    BY <1>2 DEF CommandCloses
  <2>2. Delivery!Close({c})
    BY <1>2, <2>1 DEF CommandCloses, Active, Delivery!Active, Delivery!Close, history,
                      DInv, IInv, TypeOK, CloudTypeOK
  <2> QED  BY <2>1, <2>2 DEF Delivery!Next, Active
<1>3. CASE OtherTakesOver
  BY <1>3, GrantCloses DEF OtherTakesOver, history
<1>4. CASE \/ SessionGoesStale \/ SessionExpires \/ OwnerPauses \/ OwnerResumes \/ TokenRevoked
           \/ AnswerLost \/ PingLoopCrashes \/ ExecutorCrashes
  BY <1>4 DEF SessionGoesStale, SessionExpires, OwnerPauses, OwnerResumes, TokenRevoked,
              AnswerLost, PingLoopCrashes, ExecutorCrashes, cloudVars, history, Delivery!vars
<1> QED
  BY <1>1, <1>2, <1>3, <1>4 DEF World

\* Sign-in, sign-out, streams and restarts leave the commands as they are.
LEMMA LocalStandsStill == Local => StandStill
BY DEF Local, StandStill, cloudVars, history, StreamReadsSession, StreamRejected, StreamEnds,
       SignIn, SignOutBegins, SignOutEnds, AgentRestarts

\* Every step of the agent, the cloud and the world is one of CommandDelivery's or none.
LEMMA StepDelivers == DInv /\ [Next]_vars => [Delivery!Next]_Delivery!vars
<1>1. ASSUME DInv, Next PROVE [Delivery!Next]_Delivery!vars
  BY <1>1, PingLoopStandsStill, ExecutorRuns, LocalStandsStill, CloudDelivers, WorldDelivers
  DEF Next, StandStill, Delivery!vars
<1>2. ASSUME UNCHANGED vars PROVE UNCHANGED Delivery!vars
  BY <1>2 DEF vars, cloudVars, history, Delivery!vars
<1> QED
  BY <1>1, <1>2

-----------------------------------------------------------------------------
(* HandedOver is kept.                                                     *)

\* What was handed over or has run stays so.
LEMMA GivenGrows ==
    ASSUME DInv, [Delivery!Next]_Delivery!vars
    PROVE  Given \subseteq Given' /\ ran \subseteq ran' /\ ran' \subseteq Given'
<1> USE DEF Given, DInv, HandedOver
<1>1. ASSUME NEW c \in Cmds, Delivery!Enqueue(c) PROVE Given \subseteq Given' /\ ran' = ran
  BY <1>1 DEF Delivery!Enqueue, IInv, TypeOK, CloudTypeOK
<1>2. ASSUME NEW c \in Cmds, Delivery!Run(c) PROVE Given' = Given /\ ran' = ran \cup {c} /\ c \in Given
  BY <1>2 DEF Delivery!Run
<1>3. ASSUME NEW results, NEW offers, Delivery!Exchange(results, offers)
      PROVE  Given \subseteq Given' /\ ran' = ran
  BY <1>3 DEF Delivery!Exchange
<1>4. ASSUME NEW closing, Delivery!Close(closing) PROVE Given \subseteq Given' /\ ran' = ran
  BY <1>4 DEF Delivery!Close, Delivery!Active
<1>5. CASE UNCHANGED Delivery!vars
  BY <1>5 DEF Delivery!vars
<1>6. CASE Delivery!Next
  BY <1>1, <1>2, <1>3, <1>4, <1>6 DEF Delivery!Next
<1> QED
  BY <1>5, <1>6

\* The ping loop queues only what it was offered, and of results it only drops some.
LEMMA PingLoopHolds ==
    ASSUME DInv, PingLoop, Given \subseteq Given', ran \subseteq ran', ran' \subseteq Given'
    PROVE  HandedOver'
<1> USE DEF HandedOver, NoCall, NoWork, Send, BackToTop, Answered, execVars, ForgetDispatched
<1>0. HandedOver /\ held.id \in Given \cup {NoCmd}
  BY DEF DInv
<1>1. CASE DropAck
  BY <1>0, <1>1 DEF DropAck
<1>2. CASE SendResult \/ BeginProbe \/ SendPing \/ ConnectGranted
  BY <1>0, <1>2 DEF SendResult, BeginProbe, SendPing, ConnectGranted
<1>3. CASE PingAccepted
  <2> DEFINE work == [id |-> call.offer, inst |-> call.inst]
  <2>1. \/ UNCHANGED <<held, queue>>
        \/ call.offer \in Given /\ held' = held /\ queue' = Append(queue, work)
        \/ call.offer \in Given /\ held' = work /\ queue' = queue
    BY <1>0, <1>3 DEF PingAccepted
  <2>2. held'.id \in Given' \cup {NoCmd}
    BY <1>0, <2>1
  <2>3. \A i \in 1 .. Len(queue') : queue'[i].id \in Given'
    <3>1. CASE queue' = queue
      BY <1>0, <3>1
    <3>2. CASE call.offer \in Given /\ queue' = Append(queue, work)
      BY <1>0, <3>2, ConstantsAssumption DEF DInv, IInv, TypeOK, ExecTypeOK
    <3> QED  BY <2>1, <3>1, <3>2
  <2>4. call'.offer = NoCmd /\ exec' = exec /\ ack' = ack
    BY <1>3 DEF PingAccepted
  <2>5. dispatched' \in {dispatched, call.offer}
    BY <1>3 DEF PingAccepted
  <2> QED
    BY <1>0, <2>2, <2>3, <2>4, <2>5
<1>4. CASE PutUnblocked
  <2>1. held.id \in Given
    BY <1>0, <1>4, ConstantsAssumption DEF PutUnblocked, DInv, IInv, WorkInHand, Work
  <2>2. \A i \in 1 .. Len(queue') : queue'[i].id \in Given'
    BY <1>0, <1>4, <2>1 DEF PutUnblocked, DInv, IInv, TypeOK, ExecTypeOK
  <2> QED
    BY <1>0, <1>4, <2>2 DEF PutUnblocked
<1>5. CASE ResultAccepted \/ LoopEnds
  BY <1>0, <1>5 DEF ResultAccepted, LoopEnds
<1>6. CASE RefusedAlreadyActive \/ SessionInvalidated \/ Unauthorized \/ RetryLater
  BY <1>0, <1>6 DEF RefusedAlreadyActive, SessionInvalidated, Unauthorized, RetryLater
<1> QED
  BY <1>1, <1>2, <1>3, <1>4, <1>5, <1>6 DEF PingLoop

\* The executor takes the head of the queue, and publishes what it has run.
LEMMA ExecutorHolds ==
    ASSUME DInv, Executor, Given \subseteq Given', ran \subseteq ran', ran' \subseteq Given'
    PROVE  HandedOver'
<1> USE DEF HandedOver, NoWork, Idle
<1>0. HandedOver
  BY DEF DInv
<1>1. CASE TakeCommand
  <2>1. queue \in Seq(Work) /\ queue # <<>>
    BY <1>1 DEF TakeCommand, DInv, IInv, TypeOK, ExecTypeOK
  <2>2. \A i \in 1 .. Len(Tail(queue)) : Tail(queue)[i] = queue[i + 1] /\ i + 1 \in 1 .. Len(queue)
    BY <2>1
  <2>3. exec'.work.id \in ran' /\ queue' = Tail(queue)
    BY <1>1 DEF TakeCommand
  <2>4. \A i \in 1 .. Len(queue') : queue'[i].id \in Given'
    BY <1>0, <2>2, <2>3
  <2> QED
    BY <1>0, <1>1, <2>3, <2>4 DEF TakeCommand, pingVars
<1>2. CASE SwitchThread \/ FinishCommand
  <2>1. exec'.work = exec.work
    BY <1>2 DEF SwitchThread, FinishCommand, DInv, IInv, TypeOK, ExecTypeOK
  <2> QED
    BY <1>0, <1>2, <2>1 DEF SwitchThread, FinishCommand, pingVars
<1>3. CASE PublishResult
  BY <1>0, <1>3 DEF PublishResult, pingVars
<1> QED
  BY <1>1, <1>2, <1>3 DEF Executor

\* An answer offers nothing but a command it marks delivered.
LEMMA CloudHolds ==
    ASSUME DInv, Cloud, Given \subseteq Given', ran \subseteq ran', ran' \subseteq Given'
    PROVE  HandedOver'
<1>0. HandedOver /\ call = [call EXCEPT !.code = call.code]
  BY DEF DInv, IInv, TypeOK, PingTypeOK
<1>1. UNCHANGED <<dispatched, held, execVars>>
  BY DEF Cloud, CloudAnswersConnect, CloudAnswersPing, CloudAnswersDisconnect
<1>2. call'.offer \in Given' \cup {NoCmd}
  <2>1. CASE call'.offer = call.offer
    BY <1>0, <2>1 DEF HandedOver
  <2>2. CASE CloudAnswersPing /\ CloudTakesPing
    <3>1. PICK offer \in {c \in Cmds : Settled[c] \in {"pending", "delivered"}} \cup {NoCmd} :
            /\ call' = [call EXCEPT !.code = "ok", !.offer = offer]
            /\ cmd' = [c \in Cmds |-> IF c = offer THEN "delivered" ELSE Settled[c]]
      BY <2>2 DEF CloudTakesPing
    <3>2. call'.offer = offer
      BY <3>1 DEF DInv, IInv, TypeOK, PingTypeOK
    <3>3. offer \in Cmds => offer \in Given'
      BY <3>1 DEF Given
    <3> QED  BY <3>2, <3>3
  <2>3. CASE ~(CloudAnswersPing /\ CloudTakesPing)
    <3>1. \/ \E code : call' = [call EXCEPT !.code = code]
          \/ call' = [call EXCEPT !.code = "ok", !.inst = lastInst + 1]
      BY <2>3 DEF Cloud, CloudAnswersConnect, CloudGrantsConnect, CloudRefusesConnect,
                  CloudAnswersPing, CloudRefusesPing, CloudAnswersDisconnect, Answer
    <3>2. call'.offer = call.offer
      BY <3>1 DEF DInv, IInv, TypeOK, PingTypeOK
    <3> QED  BY <2>1, <3>2
  <2> QED  BY <2>2, <2>3
<1> QED
  BY <1>0, <1>1, <1>2 DEF HandedOver, execVars

\* A lost answer offers nothing new, a crash and a restart only forget.
LEMMA RestHolds ==
    ASSUME DInv, World \/ Local, Given \subseteq Given', ran \subseteq ran', ran' \subseteq Given'
    PROVE  HandedOver'
<1> USE DEF HandedOver, NoCall, NoWork, Idle, pingVars, execVars
<1>0. HandedOver
  BY DEF DInv
<1>1. CASE AnswerLost
  <2>1. call'.offer = call.offer
    BY <1>1 DEF AnswerLost, DInv, IInv, TypeOK, PingTypeOK
  <2> QED  BY <1>0, <1>1, <2>1 DEF AnswerLost
<1>2. CASE PingLoopCrashes
  BY <1>0, <1>2 DEF PingLoopCrashes
<1>3. CASE ExecutorCrashes
  <2>1. exec'.work.id = NoCmd
    BY <1>3 DEF ExecutorCrashes
  <2> QED  BY <1>0, <1>3, <2>1 DEF ExecutorCrashes
<1>4. CASE AgentRestarts
  BY <1>0, <1>4 DEF AgentRestarts
<1>5. CASE UNCHANGED <<pingVars, execVars>>
  BY <1>0, <1>5
<1>6. CASE \/ OwnerEnqueues \/ CommandCloses \/ SessionGoesStale \/ SessionExpires \/ OtherTakesOver
           \/ OwnerPauses \/ OwnerResumes \/ TokenRevoked
  BY <1>5, <1>6 DEF OwnerEnqueues, CommandCloses, SessionGoesStale, SessionExpires, OtherTakesOver,
                    OwnerPauses, OwnerResumes, TokenRevoked
<1>7. CASE (\E s \in Streams : StreamReadsSession(s) \/ StreamRejected(s) \/ StreamEnds(s))
           \/ SignIn \/ SignOutBegins \/ SignOutEnds
  BY <1>5, <1>7 DEF StreamReadsSession, StreamRejected, StreamEnds, SignIn, SignOutBegins,
     SignOutEnds
<1> QED
  BY <1>1, <1>2, <1>3, <1>4, <1>6, <1>7 DEF World, Local

\* Every step keeps what the refinement rests on.
LEMMA NextHolds == DInv /\ [Next]_vars => DInv'
<1> SUFFICES ASSUME DInv, [Next]_vars PROVE DInv'
  OBVIOUS
<1>1. IInv'
  BY PingLoopKeeps, ExecutorKeeps, LocalKeeps, CloudKeeps, WorldKeeps, StutterKeeps DEF Next, DInv
<1>2. Given \subseteq Given' /\ ran \subseteq ran' /\ ran' \subseteq Given'
  BY StepDelivers, GivenGrows
<1>3. CASE Next
  BY <1>1, <1>2, <1>3, PingLoopHolds, ExecutorHolds, CloudHolds, RestHolds DEF Next, DInv
<1>4. CASE UNCHANGED vars
  BY <1>1, <1>2, <1>4 DEF vars, pingVars, execVars, DInv, HandedOver
<1> QED
  BY <1>3, <1>4

\* At first nothing is handed over, and nothing is enqueued.
LEMMA InitHolds == Init => DInv /\ Delivery!Init
<1>1. Init => IInv  BY InitIInv
<1>2. Init => HandedOver
  BY DEF Init, HandedOver, NoCall, NoWork, Idle
<1>3. Init => Delivery!Init
  BY DEF Init, Delivery!Init
<1> QED
  BY <1>1, <1>2, <1>3 DEF DInv

\* Sessions replaced, requests lost, loops respawned, the agent restarted: the commands go
\* through CommandDelivery's steps and no others.
THEOREM DeliveryKept == Spec => KeepsDelivery
<1>1. Spec => []DInv
  BY InitHolds, NextHolds, PTL DEF Spec
<1> QED
  BY <1>1, InitHolds, StepDelivers, PTL DEF Spec, KeepsDelivery, Delivery!Spec

\* CommandDelivery's own promise is kept by each of its steps.
LEMMA PromiseKept == Delivery!Promised /\ [Delivery!Next]_Delivery!vars => Delivery!Promised'
<1> SUFFICES ASSUME Delivery!Promised, [Delivery!Next]_Delivery!vars PROVE Delivery!Promised'
  OBVIOUS
<1> USE DEF Delivery!Promised
<1>1. ASSUME NEW c \in Cmds, Delivery!Enqueue(c) PROVE Delivery!Promised'
  BY <1>1 DEF Delivery!Enqueue
<1>2. ASSUME NEW c \in Cmds, Delivery!Run(c) PROVE Delivery!Promised'
  BY <1>2 DEF Delivery!Run
<1>3. ASSUME NEW results \in Delivery!Single, NEW offers \in Delivery!Single,
             Delivery!Exchange(results, offers)
      PROVE  Delivery!Promised'
  BY <1>3 DEF Delivery!Exchange, Delivery!Active, Delivery!Single
<1>4. ASSUME NEW closing \in SUBSET Cmds, Delivery!Close(closing) PROVE Delivery!Promised'
  BY <1>4 DEF Delivery!Close, Delivery!Active
<1>5. CASE UNCHANGED Delivery!vars
  BY <1>5 DEF Delivery!vars
<1> QED
  BY <1>1, <1>2, <1>3, <1>4, <1>5 DEF Delivery!Next

\* And each moves a command on, never back.
LEMMA MovesOn ==
    ASSUME Delivery!Promised, [Delivery!Next]_Delivery!vars, NEW c \in Cmds, cmd'[c] # cmd[c]
    PROVE  \/ cmd[c] = "absent" /\ cmd'[c] = "pending"
           \/ cmd[c] = "pending" /\ cmd'[c] \in {"delivered", "closed"}
           \/ cmd[c] = "delivered" /\ cmd'[c] = "done" /\ c \in ran
           \/ cmd[c] = "delivered" /\ cmd'[c] = "closed"
<1> USE DEF Delivery!Promised
<1>1. ASSUME NEW d \in Cmds, Delivery!Enqueue(d) PROVE cmd[c] = "absent" /\ cmd'[c] = "pending"
  BY <1>1 DEF Delivery!Enqueue
<1>2. ASSUME NEW d \in Cmds, Delivery!Run(d) PROVE FALSE
  BY <1>2 DEF Delivery!Run
<1>3. ASSUME NEW results \in Delivery!Single, NEW offers \in Delivery!Single,
             Delivery!Exchange(results, offers)
      PROVE  \/ cmd[c] = "pending" /\ cmd'[c] = "delivered"
             \/ cmd[c] = "delivered" /\ cmd'[c] = "done" /\ c \in ran
  BY <1>3 DEF Delivery!Exchange, Delivery!Active, Delivery!Single
<1>4. ASSUME NEW closing \in SUBSET Cmds, Delivery!Close(closing)
      PROVE  cmd[c] \in {"pending", "delivered"} /\ cmd'[c] = "closed"
  BY <1>4 DEF Delivery!Close, Delivery!Active
<1>5. CASE UNCHANGED Delivery!vars
  BY <1>5 DEF Delivery!vars
<1> QED
  BY <1>1, <1>2, <1>3, <1>4, <1>5 DEF Delivery!Next

\* What the cloud shows done has run here and reported its own result, and what has run was handed
\* over: EdgeAgent has of CommandDelivery whatever follows of it.
THEOREM DoneHasRun == Spec => []Delivery!Promised
<1>1. Delivery!Init => Delivery!Promised
  BY DEF Delivery!Init, Delivery!Promised
<1> QED
  BY <1>1, PromiseKept, DeliveryKept, PTL DEF KeepsDelivery, Delivery!Spec

\* A command ends once: lost answers, repeated results and new sessions never reopen one that is
\* over, and none is done without having run.
THEOREM CommandsEndOnce == Spec => Delivery!EndsOnce
<1>1. Delivery!Promised /\ [Delivery!Next]_Delivery!vars =>
        [\A c \in Cmds : cmd'[c] # cmd[c] =>
            \/ cmd[c] = "absent" /\ cmd'[c] = "pending"
            \/ cmd[c] = "pending" /\ cmd'[c] \in {"delivered", "closed"}
            \/ cmd[c] = "delivered" /\ cmd'[c] = "done" /\ c \in ran
            \/ cmd[c] = "delivered" /\ cmd'[c] = "closed"]_Delivery!vars
  BY MovesOn
<1> QED
  BY <1>1, DoneHasRun, DeliveryKept, PTL DEF KeepsDelivery, Delivery!Spec, Delivery!EndsOnce

-----------------------------------------------------------------------------
(* The agent and the cloud agree about sessions: SInv.                     *)

\* Work moves on from place to place in the agent; only an offer taken brings in another piece.
LEMMA HandsMove ==
    ASSUME DInv, Next, ~PingAccepted
    PROVE  InHand' \subseteq InHand
<1> USE DEF InHand
<1>0. queue \in Seq(Work) /\ NoWork.id = NoCmd /\ Idle.work = NoWork
  BY DEF DInv, IInv, TypeOK, ExecTypeOK, NoWork, Idle
<1>1. CASE PutUnblocked
  <2>1. \A i \in 1 .. Len(queue') : queue'[i] \in {queue[j] : j \in 1 .. Len(queue)} \cup {held}
    <3>1. held \in Work
      BY <1>1 DEF PutUnblocked, DInv, IInv, WorkInHand
    <3> QED
      BY <1>0, <1>1, <3>1 DEF PutUnblocked
  <2> QED
    BY <1>0, <1>1, <2>1 DEF PutUnblocked
<1>2. CASE TakeCommand
  <2>1. queue # <<>> /\ queue' = Tail(queue) /\ exec'.work = Head(queue) /\ UNCHANGED <<held, ack>>
    BY <1>2 DEF TakeCommand, pingVars
  <2>2. Head(queue) = queue[1] /\ 1 \in 1 .. Len(queue)
    BY <1>0, <2>1
  <2>3. \A i \in 1 .. Len(queue') : queue'[i] = queue[i + 1] /\ i + 1 \in 1 .. Len(queue)
    BY <1>0, <2>1
  <2> QED
    BY <2>1, <2>2, <2>3
<1>3. CASE SwitchThread \/ FinishCommand
  <2>1. exec'.work = exec.work
    BY <1>3 DEF SwitchThread, FinishCommand, DInv, IInv, TypeOK, ExecTypeOK
  <2> QED
    BY <1>3, <2>1 DEF SwitchThread, FinishCommand, pingVars
<1>4. CASE PublishResult
  BY <1>0, <1>4 DEF PublishResult, pingVars
<1>5. CASE ExecutorCrashes
  <2>1. exec'.work = NoWork
    BY <1>5, <1>0 DEF ExecutorCrashes, Idle
  <2> QED
    BY <1>5, <2>1 DEF ExecutorCrashes, pingVars
<1>6. CASE AgentRestarts
  BY <1>0, <1>6 DEF AgentRestarts
<1>7. CASE UNCHANGED <<queue, held, exec>> /\ ack' \in {ack, NoWork}
  BY <1>7
<1>8. CASE PingLoop /\ ~PutUnblocked
  BY <1>7, <1>8 DEF PingLoop, DropAck, SendResult, BeginProbe, SendPing, ConnectGranted,
     ResultAccepted, LoopEnds, RefusedAlreadyActive, SessionInvalidated, Unauthorized, RetryLater,
     execVars
<1>9. CASE Cloud \/ (Local /\ ~AgentRestarts) \/ (World /\ ~ExecutorCrashes)
  BY <1>7, <1>9 DEF Cloud, CloudAnswersConnect, CloudAnswersPing, CloudAnswersDisconnect, Local,
     StreamReadsSession, StreamRejected, StreamEnds, SignIn, SignOutBegins, SignOutEnds, World,
     OwnerEnqueues, CommandCloses, SessionGoesStale, SessionExpires, OtherTakesOver,
     OwnerPauses, OwnerResumes, TokenRevoked, AnswerLost, PingLoopCrashes, pingVars, execVars
<1> QED
  BY <1>1, <1>2, <1>3, <1>4, <1>5, <1>6, <1>8, <1>9 DEF Next, Executor

LEMMA HandsTakeOffer ==
    ASSUME DInv, PingAccepted
    PROVE  LET work == [id |-> call.offer, inst |-> call.inst] IN
           \/ InHand' = InHand
           \/ call.offer \notin {NoCmd, dispatched} /\ InHand' \subseteq InHand \cup {work}
<1> DEFINE work == [id |-> call.offer, inst |-> call.inst]
<1>0. queue \in Seq(Work)
  BY DEF DInv, IInv, TypeOK, ExecTypeOK
<1>1. CASE call.offer \in {NoCmd, dispatched}
  BY <1>1 DEF PingAccepted, InHand
<1>2. CASE call.offer \notin {NoCmd, dispatched}
  <2>1. \A i \in 1 .. Len(Append(queue, work)) :
           Append(queue, work)[i] \in {queue[j] : j \in 1 .. Len(queue)} \cup {work}
    BY <1>0
  <2>2. \/ queue' = Append(queue, work) /\ held' = held
        \/ queue' = queue /\ held' = work
    BY <1>2 DEF PingAccepted
  <2>3. UNCHANGED <<exec, ack>>
    BY DEF PingAccepted
  <2> HIDE DEF work
  <2>4. InHand' \subseteq InHand \cup {work}
    BY <2>1, <2>2, <2>3 DEF InHand
  <2> QED
    BY <1>2, <2>4 DEF work
<1> QED
  BY <1>1, <1>2

\* All the agent holds was handed over.
LEMMA HandsGiven ==
    ASSUME DInv
    PROVE  /\ \A w \in InHand : w \in Work /\ w.id \in Given
           /\ ack # NoWork => ack \in InHand
<1>1. ASSUME NEW w \in InHand PROVE w \in Work /\ w.id \in Given
  <2>1. w \in Work
    BY DEF DInv, IInv, TypeOK, ExecTypeOK, PingTypeOK, InHand
  <2>2. w.id \in Cmds /\ w.id # NoCmd
    BY <2>1, ConstantsAssumption DEF Work
  <2>3. w.id \in Given \cup ran \cup {NoCmd} /\ ran \subseteq Given
    BY DEF DInv, HandedOver, InHand
  <2> QED
    BY <2>1, <2>2, <2>3
<1> QED
  BY <1>1 DEF InHand

LEMMA PingLoopInSession ==
    ASSUME DInv, SInv, PingLoop, InHand' \subseteq InHand, ~PingAccepted
    PROVE  SInv'
<1> USE DEF SInv, InstsKnown, CallsOwnSession, OneActive, OffersTheOne, TouchIsMutual, OpenInItsSession,
            InTouch, Pinging, NoCall, Send, BackToTop, Answered, Active, Over
<1>0. /\ lastInst \in Nat /\ session \in Nat /\ call.inst \in Nat /\ cloudInst \in Nat
      /\ ack # NoWork => ack \in InHand
  BY HandsGiven DEF DInv, IInv, TypeOK, CloudTypeOK, FileTypeOK, PingTypeOK, Inst
<1>1. CASE DropAck
  BY <1>0, <1>1 DEF DropAck, cloudVars, fileVars
<1>2. CASE SendResult
  BY <1>0, <1>2 DEF SendResult, cloudVars, fileVars, execVars
<1>3. CASE BeginProbe
  BY <1>0, <1>3 DEF BeginProbe, cloudVars, fileVars, execVars
<1>4. CASE SendPing
  BY <1>0, <1>4 DEF SendPing, cloudVars, fileVars, execVars
<1>5. CASE ConnectGranted
  BY <1>0, <1>5 DEF ConnectGranted, cloudVars, fileVars, execVars
<1>6. CASE PutUnblocked
  BY <1>0, <1>6 DEF PutUnblocked, cloudVars, fileVars, execVars
<1>7. CASE RefusedAlreadyActive
  BY <1>0, <1>7 DEF RefusedAlreadyActive, cloudVars, fileVars, execVars
<1>8. CASE SessionInvalidated
  BY <1>0, <1>8 DEF SessionInvalidated, cloudVars, fileVars, execVars
<1>9. CASE Unauthorized
  BY <1>0, <1>9 DEF Unauthorized, cloudVars, fileVars, execVars
<1>10. CASE RetryLater
  BY <1>0, <1>10 DEF RetryLater, cloudVars, fileVars, execVars
<1>11. CASE ResultAccepted
  BY <1>0, <1>11 DEF ResultAccepted, cloudVars, fileVars, execVars
<1>12. CASE LoopEnds
  BY <1>0, <1>12 DEF LoopEnds, cloudVars, fileVars, execVars
<1> QED
  BY <1>1, <1>2, <1>3, <1>4, <1>5, <1>6, <1>7, <1>8, <1>9, <1>10, <1>11, <1>12 DEF PingLoop

\* An offer is taken: a piece of work more, in the session the call was made with.
LEMMA PingAcceptedInSession ==
    ASSUME DInv, SInv, PingAccepted
    PROVE  SInv'
<1> USE DEF SInv, InstsKnown, CallsOwnSession, OneActive, OffersTheOne, TouchIsMutual, OpenInItsSession,
            InTouch, Pinging, NoCall, Answered, Active, Over, cloudVars
<1> DEFINE work == [id |-> call.offer, inst |-> call.inst]
<1>0. /\ lastInst \in Nat /\ session \in Nat /\ call.inst \in Nat /\ cloudInst \in Nat
      /\ ack # NoWork => ack \in InHand
  BY HandsGiven DEF DInv, IInv, TypeOK, CloudTypeOK, FileTypeOK, PingTypeOK, Inst
<1>1. UNCHANGED <<cloudVars, session, ack>> /\ call' = NoCall /\ call.kind = "ping" /\ call.code = "ok"
      /\ pc' \in {"top", "put"}
  BY DEF PingAccepted
<1>2. InHand' = InHand \/ (call.offer # NoCmd /\ InHand' \subseteq InHand \cup {work})
  BY HandsTakeOffer
<1>3. \A w \in InHand' : w \in InHand \/ (w.id = call.offer /\ w.inst = call.inst /\ call.offer # NoCmd)
  BY <1>2
<1>4. InstsKnown'
  BY <1>0, <1>1, <1>3
<1>5. CallsOwnSession' /\ OneActive' /\ OffersTheOne'
  BY <1>0, <1>1
<1>6. InTouch' => InTouch
  BY <1>1, <1>3
<1>7. TouchIsMutual'
  BY <1>1, <1>6
<1>8. OpenInItsSession'
  BY <1>1, <1>3
<1> QED
  BY <1>4, <1>5, <1>7, <1>8

\* The executor passes work on.
LEMMA ExecutorInSession ==
    ASSUME DInv, SInv, Executor, InHand' \subseteq InHand
    PROVE  SInv'
<1> USE DEF SInv, InstsKnown, CallsOwnSession, OneActive, OffersTheOne, TouchIsMutual, OpenInItsSession,
            InTouch, Pinging, Active, Over
<1>1. /\ UNCHANGED <<cloudVars, fileVars, pingVars>>
      /\ ack # NoWork => ack' = ack
  BY DEF Executor, TakeCommand, SwitchThread, FinishCommand, PublishResult
<1> QED
  BY <1>1 DEF cloudVars, fileVars, pingVars

\* A session that begins is nobody's yet, and every command is over.
LEMMA GrantInSession ==
    ASSUME DInv, SInv, NEW other, GrantSession(other), UNCHANGED <<session, pc, ack>>,
           InHand' \subseteq InHand,
           \/ call' = call
           \/ /\ call.kind = "connect" /\ call.code = "none"
              /\ call' = [call EXCEPT !.code = "ok", !.inst = lastInst + 1]
    PROVE  SInv'
<1> USE DEF SInv, InstsKnown, CallsOwnSession, OneActive, OffersTheOne, TouchIsMutual, OpenInItsSession,
            InTouch, Pinging, Active, Over
<1>0. /\ lastInst \in Nat /\ session \in Nat /\ call.inst \in Nat /\ cloudInst \in Nat
      /\ ack # NoWork => ack \in InHand
      /\ \A w \in InHand : w.inst \in Nat /\ w.id \in Cmds
      /\ ack # NoWork => ack.id \in Cmds
  BY HandsGiven DEF DInv, IInv, TypeOK, CloudTypeOK, FileTypeOK, PingTypeOK, Inst, Work
<1>1. /\ cloudInst' = lastInst + 1 /\ lastInst' = lastInst + 1
      /\ \A c \in Cmds : cmd'[c] \notin {"pending", "delivered"} /\ (Over(c) => cmd'[c] = cmd[c])
  BY DEF GrantSession, Closed
<1>2. call'.kind = call.kind /\ call'.offer = call.offer /\ (call' = call \/ call.kind = "connect")
      /\ call'.inst \in {call.inst, lastInst + 1} /\ (call.kind # "connect" => call' = call)
  BY DEF DInv, IInv, TypeOK, PingTypeOK
<1>3. InstsKnown' 
  BY <1>0, <1>1, <1>2
<1>4. CallsOwnSession'
  <2>1. CASE call' = call
    BY <1>0, <1>1, <2>1
  <2>2. CASE call.kind = "connect" /\ call'.kind = "connect" /\ call'.inst = lastInst + 1
    BY <1>0, <2>2 DEF NoCall
  <2> QED
    BY <2>1, <2>2 DEF DInv, IInv, TypeOK, PingTypeOK
<1>5. OneActive' /\ OffersTheOne'
  BY <1>1
<1>6. ~InTouch'
  BY <1>0, <1>1, <1>2
<1>7. OpenInItsSession'
  <2>1. call'.offer = NoCmd \/ call'.offer \in Cmds
    BY <1>2 DEF DInv, IInv, TypeOK, PingTypeOK
  <2> QED
    BY <1>0, <1>1, <2>1
<1> QED
  BY <1>3, <1>4, <1>5, <1>6, <1>7

\* Nothing the agent knows changes, and the cloud's session only goes.
LEMMA CloudLetsGo ==
    ASSUME DInv, SInv, InHand' \subseteq InHand, UNCHANGED <<lastInst, cmd, session, call, pc, ack>>,
           \/ UNCHANGED <<cloudInst, tokenOk>>
           \/ cloudInst' = 0
           \/ cloudInst' = cloudInst /\ tokenOk' = TRUE
           \/ cloudInst' = cloudInst /\ tokenOk' = FALSE /\ session \notin {0, cloudInst}
    PROVE  SInv'
BY DEF SInv, InstsKnown, CallsOwnSession, OneActive, OffersTheOne, TouchIsMutual, OpenInItsSession,
       InTouch, Pinging, Active, Over

\* An answer that says nothing new about commands.
LEMMA AnswerInSession ==
    ASSUME DInv, SInv, InHand' \subseteq InHand, UNCHANGED <<lastInst, cmd, session, pc, ack>>,
           pc = "call", NEW code, call' = [call EXCEPT !.code = code],
           \/ UNCHANGED <<cloudInst, tokenOk>> /\ code \in {"lost", "suspended", "already_active"}
           \/ UNCHANGED <<cloudInst, tokenOk>> /\ code = "unauthorized" /\ ~tokenOk
           \/ UNCHANGED <<cloudInst, tokenOk>> /\ code = "invalidated" /\ Pinging /\ call.inst # cloudInst
           \/ call.kind = "disconnect" /\ code = "ok" /\ Revoked(call.inst)
    PROVE  SInv'
<1> USE DEF SInv, InstsKnown, CallsOwnSession, OneActive, OffersTheOne, TouchIsMutual, OpenInItsSession,
            InTouch, Pinging, Active, Over
<1>1. call'.kind = call.kind /\ call'.inst = call.inst /\ call'.offer = call.offer /\ call'.code = code
  BY DEF DInv, IInv, TypeOK, PingTypeOK
<1> QED
  BY <1>1 DEF Revoked, NoCall

\* A ping taken: the result's command is over, and the active one may be offered.
LEMMA PingInSession ==
    ASSUME DInv, SInv, Waiting({"ping", "result"}), CloudTakesPing, InHand' = InHand,
           UNCHANGED <<session, pc, ack>>
    PROVE  SInv'
<1> USE DEF SInv, InstsKnown, CallsOwnSession, OneActive, OffersTheOne, TouchIsMutual, OpenInItsSession,
            InTouch, Pinging, Active, Over
<1>0. /\ call.kind \in {"ping", "result"} /\ call.code = "none" /\ pc = "call"
      /\ call.inst # 0 /\ session \in {0, call.inst} /\ call.inst = cloudInst /\ tokenOk
      /\ UNCHANGED <<cloudInst, lastInst, tokenOk>>
      /\ \A w \in InHand : w.id \in Given /\ w \in Work
      /\ ack # NoWork => ack \in InHand
      /\ call.kind = "result" => ack # NoWork
  BY HandsGiven DEF Waiting, CloudTakesPing
<1>1. PICK offer \in {c \in Cmds : Settled[c] \in {"pending", "delivered"}} \cup {NoCmd} :
         /\ call' = [call EXCEPT !.code = "ok", !.offer = offer]
         /\ cmd' = [c \in Cmds |-> IF c = offer THEN "delivered" ELSE Settled[c]]
  BY DEF CloudTakesPing
<1>2. call'.kind = call.kind /\ call'.inst = call.inst /\ call'.offer = offer /\ call'.code = "ok"
  BY <1>1 DEF DInv, IInv, TypeOK, PingTypeOK
<1>3. \A c \in Cmds : Settled[c] = IF c \in Results /\ cmd[c] = "delivered" THEN "done" ELSE cmd[c]
  BY DEF Settled
<1>4. \A c \in Cmds : \/ /\ cmd'[c] = cmd[c] /\ c # offer
                         /\ ~(c \in Results /\ cmd[c] = "delivered")
                      \/ cmd[c] = "delivered" /\ c \in Results /\ cmd'[c] = "done" /\ c # offer
                      \/ /\ c = offer /\ cmd[c] \in {"pending", "delivered"} /\ cmd'[c] = "delivered"
                         /\ ~(c \in Results /\ cmd[c] = "delivered")
  BY <1>1, <1>3, ConstantsAssumption
<1>5. Active' \subseteq Active
  BY <1>4
<1>6. OneActive'
  BY <1>5
<1>7. OffersTheOne'
  BY <1>2, <1>4, <1>6
<1>8. InstsKnown'
  BY <1>0, <1>2
<1>9. CallsOwnSession'
  <2>1. call.kind = "result" => Over(ack.id)'
    <3> SUFFICES ASSUME call.kind = "result" PROVE cmd'[ack.id] \in {"done", "closed"}
      BY <1>0
    <3>1. ack.id \in Results /\ ack.id \in Given /\ ack.id \in Cmds
      BY <1>0 DEF Results, Given
    <3>2. cmd[ack.id] \in {"delivered", "done", "closed"}
      BY <3>1 DEF Given, DInv, IInv, TypeOK, CloudTypeOK, Status
    <3>3. CASE cmd[ack.id] = "delivered"
      BY <1>4, <3>1, <3>3
    <3>4. CASE cmd[ack.id] \in {"done", "closed"}
      BY <1>4, <3>1, <3>4
    <3> QED
      BY <3>2, <3>3, <3>4
  <2> QED
    BY <1>0, <1>2, <2>1
<1>10. TouchIsMutual'
  BY <1>0, <1>2
<1>11. OpenInItsSession'
  <2>1. ASSUME NEW w \in InHand, cmd'[w.id] = "delivered" PROVE cloudInst \in {0, w.inst}
    <3>1. w.id \in Cmds /\ cmd[w.id] # "pending"
      BY <1>0 DEF Given
    <3>2. cmd[w.id] = "delivered"
      BY <1>4, <2>1, <3>1
    <3> QED
      BY <3>2
  <2> QED
    BY <1>0, <1>2, <2>1
<1> QED
  BY <1>6, <1>7, <1>8, <1>9, <1>10, <1>11

\* The owner's doings: one command at a time, and a cancelled one is over.
LEMMA OwnerInSession ==
    ASSUME DInv, SInv, OwnerEnqueues \/ CommandCloses, InHand' \subseteq InHand
    PROVE  SInv'
<1> USE DEF SInv, InstsKnown, CallsOwnSession, OneActive, OffersTheOne, TouchIsMutual, OpenInItsSession,
            InTouch, Pinging, Active, Over, fileVars, pingVars, execVars, DInv, IInv, TypeOK, CloudTypeOK
<1>0. /\ \A w \in InHand : w.id \in Given
      /\ call.offer \in Given \cup {NoCmd} /\ (ack # NoWork => ack.id \in Given)
  BY HandsGiven DEF HandedOver
<1>1. CASE OwnerEnqueues
  <2>1. PICK c \in Cmds : cmd[c] = "absent" /\ cmd' = [cmd EXCEPT ![c] = "pending"]
    BY <1>1 DEF OwnerEnqueues
  <2>2. \A d \in Cmds : d # c => cmd'[d] = cmd[d]
    BY <2>1
  <2>3. Active = {} /\ cmd'[c] = "pending" /\ c \notin Given
    BY <1>1, <2>1 DEF OwnerEnqueues, Given
  <2>4. \A d \in Given : cmd'[d] = cmd[d]
    BY <2>2, <2>3 DEF Given
  <2>5. Given \subseteq Cmds
    BY DEF Given
  <2>6. OneActive' /\ OffersTheOne'
    BY <1>1, <2>2, <2>3 DEF OwnerEnqueues
  <2>7. InstsKnown' /\ CallsOwnSession'
    BY <1>0, <1>1, <2>4 DEF OwnerEnqueues
  <2>8. InTouch' => InTouch
    BY <1>1, <2>2, <2>3 DEF OwnerEnqueues
  <2>9. TouchIsMutual'
    BY <1>1, <2>8 DEF OwnerEnqueues
  <2>10. OpenInItsSession'
    BY <1>0, <1>1, <2>4 DEF OwnerEnqueues
  <2> QED
    BY <2>6, <2>7, <2>9, <2>10
<1>2. CASE CommandCloses
  <2>1. PICK c \in Active : cmd' = [cmd EXCEPT ![c] = "closed"]
    BY <1>2 DEF CommandCloses
  <2>2. \A d \in Cmds : IF d = c THEN cmd'[d] = "closed" ELSE cmd'[d] = cmd[d]
    BY <2>1
  <2>3. Given \subseteq Cmds
    BY DEF Given
  <2>4. \A d \in Cmds : (Over(d) => Over(d)') /\ (cmd'[d] # "closed" => cmd'[d] = cmd[d])
    BY <2>2
  <2> QED
    BY <1>0, <1>2, <2>3, <2>4 DEF CommandCloses
<1> QED
  BY <1>1, <1>2

\* The process begins anew: it holds nothing and calls nobody.
LEMMA RestartInSession ==
    ASSUME DInv, SInv, AgentRestarts, InHand' \subseteq InHand
    PROVE  SInv'
BY DEF SInv, InstsKnown, CallsOwnSession, OneActive, OffersTheOne, TouchIsMutual, OpenInItsSession,
       InTouch, Pinging, Active, Over, AgentRestarts, fileVars, NoCall, NoWork, DInv, IInv, TypeOK,
       CloudTypeOK, FileTypeOK, Inst

\* Every step keeps the agent and the cloud in agreement about sessions.
LEMMA SessionsAgree ==
    ASSUME DInv, SInv, [Next]_vars
    PROVE  SInv'
<1>1. CASE PingAccepted
  BY <1>1, PingAcceptedInSession
<1>2. CASE UNCHANGED vars
  BY <1>2 DEF vars, cloudVars, fileVars, pingVars, execVars, SInv, InstsKnown, CallsOwnSession,
     OneActive, OffersTheOne, TouchIsMutual, OpenInItsSession, InTouch, InHand, Pinging, Active, Over
<1>3. CASE Next /\ ~PingAccepted
  <2>0. InHand' \subseteq InHand
    BY <1>3, HandsMove
  <2>1. CASE PingLoop
    BY <1>3, <2>0, <2>1, PingLoopInSession
  <2>2. CASE Executor
    BY <2>0, <2>2, ExecutorInSession
  <2>3. CASE CloudAnswersConnect
    <3>1. call.kind = "connect" /\ call.code = "none" /\ pc = "call"
          /\ UNCHANGED <<session, pc, ack>>
      BY <2>3 DEF CloudAnswersConnect, Waiting, fileVars, execVars
    <3>2. CASE CloudGrantsConnect
      BY <2>0, <3>1, <3>2, GrantInSession DEF CloudGrantsConnect
    <3>3. CASE CloudRefusesConnect
      BY <2>0, <3>1, <3>3, AnswerInSession DEF CloudRefusesConnect, Answer, cloudVars
    <3> QED
      BY <2>3, <3>2, <3>3 DEF CloudAnswersConnect
  <2>4. CASE CloudAnswersPing
    <3>1. /\ call.kind \in {"ping", "result"} /\ pc = "call"
          /\ UNCHANGED <<session, pc, held, queue, exec, ack>>
      BY <2>4 DEF CloudAnswersPing, Waiting, fileVars, execVars
    <3>2. CASE CloudTakesPing
      BY <2>4, <3>1, <3>2, PingInSession DEF CloudAnswersPing, InHand
    <3>3. CASE CloudRefusesPing
      BY <2>0, <3>1, <3>3, AnswerInSession DEF CloudRefusesPing, Answer, cloudVars, Pinging
    <3> QED
      BY <2>4, <3>2, <3>3 DEF CloudAnswersPing
  <2>5. CASE CloudAnswersDisconnect
    BY <2>0, <2>5, AnswerInSession DEF CloudAnswersDisconnect, Waiting, Answer, fileVars, execVars
  <2>6. CASE AnswerLost
    BY <2>0, <2>6, AnswerInSession DEF AnswerLost, cloudVars, fileVars, execVars
  <2>7. CASE OwnerEnqueues \/ CommandCloses
    BY <2>0, <2>7, OwnerInSession
  <2>8. CASE OtherTakesOver
    BY <2>0, <2>8, GrantInSession DEF OtherTakesOver, fileVars, pingVars, execVars
  <2>9. CASE SessionGoesStale \/ SessionExpires \/ OwnerPauses \/ OwnerResumes
    BY <2>0, <2>9, CloudLetsGo
       DEF SessionGoesStale, SessionExpires, OwnerPauses, OwnerResumes, fileVars, pingVars, execVars
  <2>10. CASE TokenRevoked
    BY <2>0, <2>10, CloudLetsGo DEF TokenRevoked, Revoked, fileVars, pingVars, execVars
  <2>11. CASE ExecutorCrashes
    BY <2>0, <2>11, CloudLetsGo DEF ExecutorCrashes, cloudVars, fileVars, pingVars
  <2>12. CASE PingLoopCrashes
    BY <2>0, <2>12 DEF PingLoopCrashes, SInv, InstsKnown, CallsOwnSession, OneActive, OffersTheOne,
       TouchIsMutual, OpenInItsSession, InTouch, Pinging, NoCall, Active, Over, cloudVars, fileVars,
       execVars, DInv, IInv, TypeOK, CloudTypeOK, Inst
  <2>13. CASE Local
    <3>1. CASE \E s \in Streams : StreamReadsSession(s) \/ StreamEnds(s)
      BY <2>0, <3>1, CloudLetsGo
         DEF StreamReadsSession, StreamEnds, cloudVars, fileVars, pingVars, execVars
    <3>2. CASE (\E s \in Streams : StreamRejected(s)) \/ SignOutEnds
      BY <2>0, <3>2 DEF StreamRejected, SignOutEnds, SInv, InstsKnown, CallsOwnSession, OneActive,
         OffersTheOne, TouchIsMutual, OpenInItsSession, InTouch, Pinging, Active, Over, cloudVars,
         pingVars, execVars, DInv, IInv, TypeOK, CloudTypeOK, Inst
    <3>3. CASE SignIn
      BY <2>0, <3>3, CloudLetsGo DEF SignIn, pingVars, execVars
    <3>4. CASE SignOutBegins
      BY <2>0, <3>4, CloudLetsGo DEF SignOutBegins, Revoked, fileVars, pingVars, execVars
    <3>5. CASE AgentRestarts
      BY <2>0, <3>5, RestartInSession
    <3> QED
      BY <2>13, <3>1, <3>2, <3>3, <3>4, <3>5 DEF Local
  <2> QED
    BY <1>3, <2>1, <2>2, <2>3, <2>4, <2>5, <2>6, <2>7, <2>8, <2>9, <2>10, <2>11, <2>12, <2>13
       DEF Next, Cloud, World
<1> QED
  BY <1>1, <1>2, <1>3

-----------------------------------------------------------------------------
(* What the agent remembers, and what it used: MInv.                       *)

\* A command handed over is open until it is over, and over it stays.
LEMMA OverStays ==
    ASSUME DInv, [Next]_vars
    PROVE  \A c \in Given : /\ c \in Cmds /\ c # NoCmd
                            /\ cmd[c] = "delivered" \/ Over(c)
                            /\ Over(c) => Over(c)'
<1> USE DEF Given, Over
<1>0. \A c \in Given : c \in Cmds /\ c # NoCmd /\ (cmd[c] = "delivered" \/ Over(c))
  BY ConstantsAssumption DEF DInv, IInv, TypeOK, CloudTypeOK, Status
<1>1. ASSUME NEW c \in Cmds, Delivery!Enqueue(c) PROVE \A d \in Given : Over(d) => Over(d)'
  BY <1>1 DEF Delivery!Enqueue, DInv, IInv, TypeOK, CloudTypeOK
<1>2. ASSUME NEW results, NEW offers, Delivery!Exchange(results, offers)
      PROVE  \A d \in Given : Over(d) => Over(d)'
  BY <1>2 DEF Delivery!Exchange, Delivery!Active
<1>3. ASSUME NEW closing, Delivery!Close(closing) PROVE \A d \in Given : Over(d) => Over(d)'
  BY <1>3 DEF Delivery!Close, Delivery!Active
<1>4. CASE UNCHANGED Delivery!vars
  BY <1>0, <1>4 DEF Delivery!vars
<1>5. CASE Delivery!Next
  BY <1>0, <1>1, <1>2, <1>3, <1>5 DEF Delivery!Next, Delivery!Run
<1> QED
  BY <1>0, <1>4, <1>5, StepDelivers

\* What was used was handed over.
LEMMA UsedWasGiven == DInv => Used \subseteq Given
BY DEF DInv, HandedOver, Used

\* Only a session granted to a connect comes within reach again, and it begins with all commands over.
\* The same holds of a session the cloud comes to hold when it held none.
LEMMA ReachLasts ==
    ASSUME DInv, SInv, [Next]_vars
    PROVE  \/ \A c \in Given : Over(c)'
           \/ (Reach' => Reach) /\ (cloudInst = 0 => cloudInst' = 0)
<1> USE DEF Reach
<1>0. /\ lastInst \in Nat /\ session \in Nat /\ call.inst \in Nat /\ cloudInst \in Nat
      /\ session <= lastInst /\ call.inst <= lastInst
      /\ call = [call EXCEPT !.code = call.code] /\ NoCall.inst = 0
  BY DEF SInv, InstsKnown, DInv, IInv, TypeOK, CloudTypeOK, FileTypeOK, PingTypeOK, Inst, NoCall
<1>1. ASSUME NEW other, GrantSession(other) PROVE \A c \in Given : Over(c)'
  <2>1. \A c \in Cmds : cmd'[c] = IF cmd[c] \in {"pending", "delivered"} THEN "closed" ELSE cmd[c]
    BY <1>1 DEF GrantSession, Closed
  <2>2. \A c \in Given : c \in Cmds /\ (cmd[c] = "delivered" \/ Over(c))
    BY OverStays
  <2> QED
    BY <2>1, <2>2 DEF Over
<1>2. CASE OtherTakesOver \/ (CloudAnswersConnect /\ CloudGrantsConnect)
  BY <1>1, <1>2 DEF OtherTakesOver, CloudGrantsConnect
<1>3. CASE PingLoop \/ PingLoopCrashes
  <2>1. cloudInst' = cloudInst
    BY <1>3 DEF PingLoop, DropAck, SendResult, BeginProbe, SendPing, ConnectGranted, PingAccepted,
       PutUnblocked, ResultAccepted, LoopEnds, RefusedAlreadyActive, SessionInvalidated,
       Unauthorized, RetryLater, PingLoopCrashes, cloudVars
  <2>2. CASE session' \in {0, session} /\ call'.inst \in {0, call.inst, session}
    BY <1>0, <2>1, <2>2
  <2>3. CASE ConnectGranted
    BY <2>1, <2>3 DEF ConnectGranted, Send
  <2>4. CASE ResultAccepted
    BY <1>0, <2>1, <2>4 DEF ResultAccepted, Send, BackToTop, Answered, SInv, CallsOwnSession,
       fileVars
  <2>5. CASE (PingLoop /\ ~ConnectGranted /\ ~ResultAccepted) \/ PingLoopCrashes
    BY <1>0, <2>2, <2>5 DEF PingLoop, DropAck, SendResult, BeginProbe, SendPing, PingAccepted,
       PutUnblocked, LoopEnds, RefusedAlreadyActive, SessionInvalidated,
       Unauthorized, RetryLater, PingLoopCrashes, fileVars, Send, BackToTop
  <2> QED
    BY <1>3, <2>3, <2>4, <2>5
<1>4. CASE \/ Executor \/ Local \/ UNCHANGED vars
           \/ World /\ ~OtherTakesOver /\ ~PingLoopCrashes
           \/ Cloud /\ ~(CloudAnswersConnect /\ CloudGrantsConnect)
  <2>1. cloudInst' \in {0, cloudInst} /\ session' \in {0, session}
    BY <1>4 DEF vars, cloudVars, fileVars, Executor, TakeCommand, SwitchThread, FinishCommand,
       PublishResult, Local, StreamReadsSession, StreamRejected, StreamEnds, SignIn, SignOutBegins,
       SignOutEnds, AgentRestarts, Revoked, World, OwnerEnqueues, CommandCloses, SessionGoesStale,
       SessionExpires, OwnerPauses, OwnerResumes, TokenRevoked, AnswerLost, ExecutorCrashes, Cloud,
       CloudAnswersConnect, CloudRefusesConnect, CloudAnswersPing, CloudTakesPing,
       CloudRefusesPing, CloudAnswersDisconnect
  <2>2. call'.inst \in {0, call.inst}
    <3>1. CASE AgentRestarts
      BY <1>0, <3>1 DEF AgentRestarts
    <3>2. CASE Cloud /\ ~(CloudAnswersConnect /\ CloudGrantsConnect)
      <4>1. \/ \E code : call' = [call EXCEPT !.code = code]
            \/ \E offer : call' = [call EXCEPT !.code = "ok", !.offer = offer]
        BY <3>2 DEF Cloud, CloudAnswersConnect, CloudRefusesConnect, CloudAnswersPing,
           CloudTakesPing,
           CloudRefusesPing, CloudAnswersDisconnect, Answer
      <4> QED
        BY <4>1 DEF DInv, IInv, TypeOK, PingTypeOK
    <3>3. CASE AnswerLost
      BY <1>0, <3>3 DEF AnswerLost
    <3>4. CASE \/ Executor \/ (Local /\ ~AgentRestarts) \/ UNCHANGED vars
               \/ World /\ ~OtherTakesOver /\ ~PingLoopCrashes /\ ~AnswerLost
      <4>1. call' = call
        BY <3>4 DEF vars, pingVars, Executor, TakeCommand, SwitchThread, FinishCommand,
           PublishResult, Local, StreamReadsSession, StreamRejected, StreamEnds, SignIn,
           SignOutBegins, SignOutEnds, World, OwnerEnqueues, CommandCloses, SessionGoesStale,
           SessionExpires, OwnerPauses, OwnerResumes, TokenRevoked, ExecutorCrashes
      <4> QED
        BY <4>1
    <3> QED
      BY <1>4, <3>1, <3>2, <3>3, <3>4 DEF Local
  <2> QED
    BY <1>0, <2>1, <2>2
<1> QED
  BY <1>2, <1>3, <1>4 DEF Next, World, Cloud

\* What was used stays accounted for, unless the loop lets go of the command it remembers.
LEMMA MemoryStays ==
    ASSUME DInv, SInv, UsedIsKnown, [Next]_vars, Used' \ forgotten' \subseteq Used \ forgotten,
           \/ dispatched' = dispatched
           \/ dispatched \notin Used \ forgotten' \/ Over(dispatched) \/ ~Reach
    PROVE  \A c \in Used' \ forgotten' : c = dispatched' \/ Over(c)' \/ ~Reach'
<1> SUFFICES ASSUME NEW c \in Used' \ forgotten' PROVE c = dispatched' \/ Over(c)' \/ ~Reach'
  OBVIOUS
<1>1. c \in Used \ forgotten /\ c \in Given
  BY UsedWasGiven
<1>2. Over(c) => Over(c)'
  BY <1>1, OverStays
<1>3. ~Reach => ~Reach' \/ Over(c)'
  BY <1>1, ReachLasts
<1>4. c = dispatched \/ Over(c) \/ ~Reach
  BY <1>1 DEF UsedIsKnown
<1> QED
  BY <1>1, <1>2, <1>3, <1>4

\* The remembered command is in the agent as before, or over, or was lost: as it was.
LEMMA NotIgnored ==
    ASSUME DInv, SInv, NoCommandIgnored, [Next]_vars, dispatched' = dispatched, lost \subseteq lost',
           InPipeline(dispatched) => InPipeline(dispatched)' \/ dispatched \in lost' \cup {NoCmd}
                                     \/ Over(dispatched) \/ cloudInst = 0
    PROVE  NoCommandIgnored'
<1> SUFFICES ASSUME dispatched # NoCmd, ~InPipeline(dispatched)'
             PROVE  dispatched \in lost' \/ Over(dispatched)' \/ cloudInst' = 0
  BY DEF NoCommandIgnored, Over, InPipeline, InQueue
<1>1. dispatched \in Given
  BY DEF DInv, HandedOver
<1>2. dispatched \in lost' \/ Over(dispatched) \/ cloudInst = 0
  BY DEF NoCommandIgnored, Over
<1> QED
  BY <1>1, <1>2, OverStays, ReachLasts

\* A quiet step: what is queued, dispatched, run and forgotten stays as it is, and no offer comes in.
LEMMA QuietRemembers ==
    ASSUME DInv, SInv, MInv, [Next]_vars, lost \subseteq lost',
           UNCHANGED <<queue, held, ran, ranAgain, dispatched, forgotten>>,
           call'.offer \in {call.offer, NoCmd} \/ (call'.offer \in Active /\ Reach),
           InPipeline(dispatched) => InPipeline(dispatched)' \/ dispatched \in lost' \cup {NoCmd}
                                     \/ Over(dispatched) \/ cloudInst = 0
    PROVE  MInv'
<1>1. QueuedAfresh' /\ RunsOnceUnlessForgotten'
  BY DEF MInv, QueuedAfresh, RunsOnceUnlessForgotten
<1>2. Used' = Used
  BY DEF Used
<1>3. NoCommandIgnored'
  BY NotIgnored DEF MInv
<1>4. \A c \in Used' \ forgotten' : c = dispatched' \/ Over(c)' \/ ~Reach'
  BY <1>2, MemoryStays DEF MInv
<1>5. ASSUME call'.offer \in Used \ forgotten PROVE call'.offer = dispatched
  <2>1. call'.offer \in Given /\ call'.offer # NoCmd
    BY <1>5, UsedWasGiven, OverStays
  <2>2. CASE call'.offer \in Active /\ Reach
    BY <1>5, <2>2 DEF MInv, UsedIsKnown, Over, Active
  <2>3. CASE call'.offer = call.offer
    BY <1>5, <2>3 DEF MInv, UsedIsKnown
  <2> QED
    BY <2>1, <2>2, <2>3
<1> QED
  BY <1>1, <1>2, <1>3, <1>4, <1>5 DEF MInv, UsedIsKnown

\* The loop drops or reports a result: the command it lets go of is the very one of the result, which
\* is over then or out of reach, or it counts as forgotten.
LEMMA ForgettingIsSafe ==
    ASSUME DInv, SInv, MInv, BInv, [Next]_vars, ForgetDispatched(ack.id), ack # NoWork,
           UNCHANGED <<queue, held, ran, ranAgain>>, call'.offer = NoCmd,
           dispatched = ack.id => Over(dispatched) \/ ~Reach
    PROVE  MInv'
<1>1. /\ dispatched' = NoCmd /\ forgotten \subseteq forgotten'
      /\ dispatched \in {ack.id, NoCmd} \cup forgotten'
  <2>1. ack.id = dispatched \/ Belated(ack.id)
    BY HandsGiven DEF BInv, BehindClosed
  <2> QED
    BY <2>1 DEF ForgetDispatched
<1>2. QueuedAfresh' /\ RunsOnceUnlessForgotten'
  BY <1>1 DEF MInv, QueuedAfresh, RunsOnceUnlessForgotten
<1>3. NoCommandIgnored'
  BY <1>1 DEF NoCommandIgnored
<1>4. Used' = Used /\ NoCmd \notin Used
  BY UsedWasGiven, OverStays DEF Used
<1>5. \A c \in Used' \ forgotten' : c = dispatched' \/ Over(c)' \/ ~Reach'
  <2>1. dispatched \notin Used \ forgotten' \/ Over(dispatched) \/ ~Reach
    BY <1>1, <1>4
  <2>2. Used' \ forgotten' \subseteq Used \ forgotten
    BY <1>1, <1>4
  <2> QED
    BY <2>1, <2>2, MemoryStays DEF MInv
<1> QED
  BY <1>2, <1>3, <1>4, <1>5 DEF MInv, UsedIsKnown

\* A result of another session than the file's is over, or its session is out of reach.
LEMMA DropAckRemembers ==
    ASSUME DInv, SInv, MInv, BInv, [Next]_vars, DropAck
    PROVE  MInv'
<1>1. call' = NoCall /\ call = NoCall
  BY DEF DropAck, SInv, CallsOwnSession
<1>2. ack \in InHand /\ ack.inst # 0 /\ ack.id \in Given /\ cloudInst \in Nat
  BY HandsGiven DEF DropAck, SInv, InstsKnown, DInv, IInv, TypeOK, CloudTypeOK, Inst
<1>3. Over(ack.id) \/ ~Reach
  <2>1. SUFFICES ASSUME cmd[ack.id] = "delivered", Reach PROVE FALSE
    BY <1>2, OverStays
  <2>2. cloudInst = ack.inst
    BY <1>2, <2>1 DEF SInv, OpenInItsSession, Reach
  <2> QED
    BY <1>1, <1>2, <2>1, <2>2 DEF Reach, DropAck, NoCall
<1> QED
  BY <1>1, <1>3, ForgettingIsSafe DEF DropAck, NoCall

\* A result reported: the cloud has settled its command.
LEMMA ResultRemembers ==
    ASSUME DInv, SInv, MInv, BInv, [Next]_vars, ResultAccepted
    PROVE  MInv'
<1>1. Over(ack.id) /\ ack # NoWork /\ call'.offer = NoCmd
  BY DEF ResultAccepted, SInv, CallsOwnSession, Answered, Send, BackToTop, NoCall
<1> QED
  BY <1>1, ForgettingIsSafe DEF ResultAccepted

\* A refused ping takes its result with it, which is of no more use to the cloud.
LEMMA RefusalRemembers ==
    ASSUME DInv, SInv, MInv, [Next]_vars, SessionInvalidated \/ Unauthorized
    PROVE  MInv'
<1>1. /\ UNCHANGED <<queue, held, exec, ran, ranAgain, dispatched, forgotten, lost>>
      /\ call'.offer = NoCmd
  BY DEF SessionInvalidated, Unauthorized, BackToTop, NoCall, history
<1>2. ack' = ack \/ (call.kind = "result" /\ ack' = NoWork)
  BY DEF SessionInvalidated, Unauthorized
<1>3. ASSUME call.kind = "result", ack.id = dispatched PROVE Over(dispatched) \/ cloudInst = 0
  <2>1. ~InTouch
    BY DEF SessionInvalidated, Unauthorized, Answered, SInv, TouchIsMutual
  <2>2. ack.id \in Given
    BY <1>3, HandsGiven DEF SInv, CallsOwnSession
  <2> QED
    BY <1>3, <2>1, <2>2, OverStays DEF InTouch
<1>4. InPipeline(dispatched) => InPipeline(dispatched)' \/ Over(dispatched) \/ cloudInst = 0
  BY <1>1, <1>2, <1>3 DEF InPipeline, InQueue
<1> QED
  BY <1>1, <1>4, QuietRemembers

\* An offer taken: if it was used before, it was forgotten; the command remembered till then is over.
LEMMA OfferRemembered ==
    ASSUME DInv, SInv, MInv, [Next]_vars, PingAccepted
    PROVE  MInv'
<1>0. /\ queue \in Seq(Work) /\ UNCHANGED <<exec, ack, ran, ranAgain, forgotten, lost, cmd>>
      /\ call' = NoCall /\ call'.offer = NoCmd
  BY DEF PingAccepted, history, cloudVars, NoCall, DInv, IInv, TypeOK, ExecTypeOK
<1>1. CASE call.offer \in {NoCmd, dispatched}
  BY <1>0, <1>1, QuietRemembers DEF PingAccepted, InPipeline, InQueue
<1>2. CASE call.offer \notin {NoCmd, dispatched}
  <2> DEFINE work == [id |-> call.offer, inst |-> call.inst]
  <2>0. /\ dispatched' = call.offer /\ call.offer # NoCmd
        /\ call.offer \in Used => call.offer \in forgotten
    BY <1>2 DEF PingAccepted, MInv, UsedIsKnown
  <2>1. \/ queue' = Append(queue, work) /\ held' = held
        \/ queue' = queue /\ held' = work
    BY <1>2 DEF PingAccepted
  <2>2. Used' \subseteq Used \cup {call.offer} /\ InPipeline(dispatched)' /\ QueuedAfresh'
    <3>1. CASE queue' = Append(queue, work) /\ held' = held
      <4>1. /\ Len(queue') = Len(queue) + 1 /\ queue'[Len(queue) + 1].id = call.offer
            /\ Len(queue) + 1 \in 1 .. Len(queue')
            /\ \A i \in 1 .. Len(queue) : queue'[i].id = queue[i].id
            /\ \A i \in 1 .. Len(queue') : i \in 1 .. Len(queue) \/ i = Len(queue) + 1
        BY <1>0, <3>1
      <4>2. /\ \A i \in 1 .. Len(queue) : queue[i].id = call.offer => call.offer \in forgotten
            /\ held.id = call.offer => call.offer \in forgotten
            /\ call.offer \in ran => call.offer \in forgotten
        BY <2>0 DEF Used
      <4>3. QueuedAfresh'
        <5>1. Len(queue) \in Nat
          BY <1>0
        <5>2. \A i, j \in 1 .. Len(queue') : i < j => i \in 1 .. Len(queue)
          BY <4>1, <5>1
        <5> QED
          BY <1>0, <3>1, <4>1, <4>2, <5>2 DEF QueuedAfresh, MInv
      <4>4. Used' \subseteq Used \cup {call.offer}
        BY <1>0, <3>1, <4>1 DEF Used
      <4> QED
        BY <2>0, <4>1, <4>3, <4>4 DEF InPipeline, InQueue
    <3>2. CASE queue' = queue /\ held' = work
      <4>1. held'.id = call.offer
        BY <3>2
      <4>2. /\ \A i \in 1 .. Len(queue) : queue[i].id = call.offer => call.offer \in forgotten
            /\ call.offer \in ran => call.offer \in forgotten
        BY <2>0 DEF Used
      <4>3. QueuedAfresh'
        BY <1>0, <3>2, <4>1, <4>2 DEF QueuedAfresh, MInv
      <4>4. Used' \subseteq Used \cup {call.offer}
        BY <1>0, <3>2, <4>1 DEF Used
      <4> QED
        BY <2>0, <4>1, <4>3, <4>4 DEF InPipeline
    <3> QED
      BY <2>1, <3>1, <3>2
  <2>3. dispatched = NoCmd \/ Over(dispatched)
    <3>1. dispatched \in Given \cup {NoCmd}
      BY DEF DInv, HandedOver
    <3> QED
      BY <1>2, <3>1, OverStays DEF SInv, OffersTheOne
  <2>4. NoCmd \notin Used /\ NoCmd # call.offer
    BY <1>2, UsedWasGiven, OverStays
  <2>5. ASSUME NEW c \in Used' \ forgotten' PROVE c = dispatched' \/ Over(c)' \/ ~Reach'
    <3>1. CASE c = call.offer
      BY <2>0, <3>1
    <3>2. CASE c # call.offer
      <4>1. c \in Used \ forgotten /\ c \in Given /\ c # NoCmd
        BY <1>0, <2>2, <2>5, <3>2, <2>4, UsedWasGiven
      <4>2. Over(c) \/ ~Reach
        BY <4>1, <2>3 DEF MInv, UsedIsKnown
      <4>3. Over(c) => Over(c)'
        BY <1>0 DEF Over
      <4>4. ~Reach => ~Reach' \/ Over(c)'
        BY <4>1, ReachLasts
      <4> QED
        BY <4>2, <4>3, <4>4
    <3> QED
      BY <3>1, <3>2
  <2>6. UsedIsKnown'
    BY <1>0, <2>2, <2>4, <2>5 DEF UsedIsKnown
  <2>7. NoCommandIgnored' /\ RunsOnceUnlessForgotten'
    BY <1>0, <2>2 DEF NoCommandIgnored, RunsOnceUnlessForgotten, MInv
  <2> QED
    BY <2>2, <2>6, <2>7 DEF MInv
<1> QED
  BY <1>1, <1>2

\* The held piece of work finds room.
LEMMA PutRemembers ==
    ASSUME DInv, SInv, MInv, [Next]_vars, PutUnblocked
    PROVE  MInv'
<1>0. /\ queue \in Seq(Work) /\ held \in Work /\ NoWork.id = NoCmd /\ held.id # NoCmd
      /\ UNCHANGED <<exec, ack, ran, ranAgain, forgotten, lost, cmd, call, dispatched>>
      /\ queue' = Append(queue, held) /\ held' = NoWork
  BY ConstantsAssumption
     DEF PutUnblocked, history, cloudVars, NoWork, Work, DInv, IInv, TypeOK, ExecTypeOK, WorkInHand
<1>1. /\ Len(queue') = Len(queue) + 1 /\ queue'[Len(queue) + 1].id = held.id
      /\ Len(queue) + 1 \in 1 .. Len(queue') /\ Len(queue) \in Nat
      /\ \A i \in 1 .. Len(queue) : queue'[i].id = queue[i].id /\ i \in 1 .. Len(queue')
      /\ \A i \in 1 .. Len(queue') : i \in 1 .. Len(queue) \/ i = Len(queue) + 1
  BY <1>0
<1>2. \A i \in 1 .. Len(queue') : queue'[i].id \in Cmds /\ queue'[i].id # NoCmd
  <2>1. \A i \in 1 .. Len(queue) : queue[i] \in Work
    BY <1>0
  <2>2. \A w \in Work : w.id \in Cmds /\ w.id # NoCmd
    BY ConstantsAssumption DEF Work
  <2> QED
    BY <1>0, <1>1, <2>1, <2>2
<1>3. QueuedAfresh'
  <2>1. \A i, j \in 1 .. Len(queue') : i < j => i \in 1 .. Len(queue)
    BY <1>1
  <2>2. held'.id = NoCmd /\ NoCmd \notin ran
    BY <1>0, OverStays DEF DInv, HandedOver
  <2> QED
    BY <1>0, <1>1, <1>2, <2>1, <2>2 DEF QueuedAfresh, MInv
<1>4. Used' \subseteq Used
  BY <1>0, <1>1 DEF Used
<1>5. InPipeline(dispatched) => InPipeline(dispatched)'
  BY <1>0, <1>1 DEF InPipeline, InQueue
<1>6. NoCommandIgnored'
  BY <1>0, <1>5, NotIgnored DEF MInv
<1>7. Used' \ forgotten' \subseteq Used \ forgotten
  BY <1>0, <1>4
<1>8. \A c \in Used' \ forgotten' : c = dispatched' \/ Over(c)' \/ ~Reach'
  BY <1>0, <1>7, MemoryStays DEF MInv
<1>9. UsedIsKnown' /\ RunsOnceUnlessForgotten'
  BY <1>0, <1>7, <1>8 DEF UsedIsKnown, MInv, RunsOnceUnlessForgotten
<1> QED
  BY <1>3, <1>6, <1>9 DEF MInv

\* A command begins to run: what is behind it in the queue is another one, or was forgotten.
LEMMA TakingRemembers ==
    ASSUME DInv, SInv, MInv, [Next]_vars, TakeCommand
    PROVE  MInv'
<1>0. /\ queue \in Seq(Work) /\ queue # <<>> /\ exec.work = NoWork
      /\ UNCHANGED <<held, ack, forgotten, lost, cmd, call, dispatched>>
      /\ queue' = Tail(queue) /\ exec'.work = Head(queue)
      /\ ran' = ran \cup {Head(queue).id}
      /\ ranAgain' = IF Head(queue).id \in ran THEN ranAgain \cup {Head(queue).id} ELSE ranAgain
  BY DEF TakeCommand, pingVars, cloudVars, DInv, IInv, TypeOK, ExecTypeOK, WorkInHand
<1>1. /\ Head(queue) = queue[1] /\ 1 \in 1 .. Len(queue) /\ queue[1] \in Work
      /\ \A i \in 1 .. Len(queue') : queue'[i] = queue[i + 1] /\ i + 1 \in 1 .. Len(queue) /\ 1 < i + 1
      /\ \A i, j \in 1 .. Len(queue') : i < j => i + 1 < j + 1
      /\ \A i \in 1 .. Len(queue) : i = 1 \/ (i - 1 \in 1 .. Len(queue') /\ queue[i] = queue'[i - 1])
  BY <1>0
<1> HIDE DEF TakeCommand
<1>2. QueuedAfresh'
  <2>1. ASSUME NEW i \in 1 .. Len(queue'), queue'[i].id \in ran' PROVE queue'[i].id \in forgotten
    BY <1>0, <1>1, <2>1 DEF QueuedAfresh, MInv
  <2>2. ASSUME NEW i \in 1 .. Len(queue'), NEW j \in 1 .. Len(queue'), i < j, queue'[i].id = queue'[j].id
        PROVE  queue'[i].id \in forgotten
    BY <1>1, <2>2 DEF QueuedAfresh, MInv
  <2>3. held.id \in ran' => held.id \in forgotten
    BY <1>0, <1>1 DEF QueuedAfresh, MInv
  <2>4. ASSUME NEW i \in 1 .. Len(queue'), queue'[i].id = held.id PROVE held.id \in forgotten
    BY <1>1, <2>4 DEF QueuedAfresh, MInv
  <2> QED
    BY <1>0, <2>1, <2>2, <2>3, <2>4 DEF QueuedAfresh
<1>3. RunsOnceUnlessForgotten'
  BY <1>0, <1>1 DEF RunsOnceUnlessForgotten, MInv, QueuedAfresh
<1>4. Used' \ forgotten' \subseteq Used \ forgotten
  BY <1>0, <1>1 DEF Used
<1>5. UsedIsKnown'
  <2>1. \A c \in Used' \ forgotten' : c = dispatched' \/ Over(c)' \/ ~Reach'
    BY <1>0, <1>4, MemoryStays DEF MInv
  <2> QED
    BY <1>0, <1>4, <2>1 DEF UsedIsKnown, MInv
<1>6. InPipeline(dispatched) => InPipeline(dispatched)' \/ dispatched = NoCmd
  BY <1>0, <1>1 DEF InPipeline, InQueue, NoWork
<1>7. NoCommandIgnored'
  <2>1. CASE dispatched = NoCmd
    BY <1>0, <2>1 DEF NoCommandIgnored
  <2>2. CASE dispatched # NoCmd
    BY <1>0, <1>6, <2>2, NotIgnored DEF MInv
  <2> QED
    BY <2>1, <2>2
<1> QED
  BY <1>2, <1>3, <1>5, <1>7 DEF MInv

\* The process comes back empty-handed, and everything it ran or held counts as forgotten.
LEMMA RestartRemembers ==
    ASSUME DInv, MInv, AgentRestarts
    PROVE  MInv'
<1>1. /\ queue' = <<>> /\ held' = NoWork /\ UNCHANGED <<ran, ranAgain>> /\ dispatched' = NoCmd
      /\ ran \subseteq forgotten' /\ forgotten \subseteq forgotten' /\ call' = NoCall
  BY DEF AgentRestarts
<1>2. held'.id = NoCmd /\ call'.offer = NoCmd /\ Len(queue') = 0 /\ NoCmd \notin ran
  BY <1>1, ConstantsAssumption DEF NoWork, NoCall, DInv, IInv, TypeOK, RestTypeOK
<1>3. Used' = ran
  BY <1>1, <1>2 DEF Used
<1> QED
  BY <1>1, <1>2, <1>3 DEF MInv, QueuedAfresh, UsedIsKnown, RunsOnceUnlessForgotten, NoCommandIgnored

\* The executor and its end on an exception.
LEMMA ExecutorRemembers ==
    ASSUME DInv, SInv, MInv, [Next]_vars, SwitchThread \/ FinishCommand \/ PublishResult \/ ExecutorCrashes
    PROVE  MInv'
<1>1. /\ UNCHANGED <<queue, held, ran, ranAgain, dispatched, forgotten>> /\ lost \subseteq lost'
      /\ call' = call
  BY DEF SwitchThread, FinishCommand, PublishResult, ExecutorCrashes, pingVars, history
<1>2. InPipeline(dispatched) => InPipeline(dispatched)' \/ dispatched \in lost' \/ dispatched = NoCmd
  <2>1. CASE SwitchThread \/ FinishCommand
    <3>1. exec'.work = exec.work /\ ack' = ack
      BY <2>1 DEF SwitchThread, FinishCommand, DInv, IInv, TypeOK, ExecTypeOK
    <3> QED
      BY <1>1, <3>1 DEF InPipeline, InQueue
  <2>2. CASE PublishResult
    BY <1>1, <2>2 DEF PublishResult, InPipeline, InQueue, NoWork
  <2>3. CASE ExecutorCrashes
    BY <1>1, <2>3 DEF ExecutorCrashes, InPipeline, InQueue
  <2> QED
    BY <2>1, <2>2, <2>3
<1> QED
  BY <1>1, <1>2, QuietRemembers

\* Every step keeps what the agent remembers in line with what it used.
LEMMA MemoryKept ==
    ASSUME DInv, SInv, MInv, BInv, [Next]_vars
    PROVE  MInv'
<1>1. CASE DropAck \/ ResultAccepted \/ SessionInvalidated \/ Unauthorized
  BY <1>1, DropAckRemembers, ResultRemembers, RefusalRemembers
<1>2. CASE PingAccepted \/ PutUnblocked \/ TakeCommand \/ AgentRestarts
  BY <1>2, OfferRemembered, PutRemembers, TakingRemembers, RestartRemembers
<1>3. CASE SwitchThread \/ FinishCommand \/ PublishResult \/ ExecutorCrashes
  BY <1>3, ExecutorRemembers
<1>4. CASE UNCHANGED <<queue, held, exec, ack, ran, ranAgain, dispatched, forgotten, lost>>
           /\ (call'.offer \in {call.offer, NoCmd} \/ (call'.offer \in Active /\ Reach))
  BY <1>4, QuietRemembers DEF InPipeline, InQueue
<1>5. CASE CloudAnswersPing /\ CloudTakesPing
  <2>1. PICK offer \in {c \in Cmds : Settled[c] \in {"pending", "delivered"}} \cup {NoCmd} :
           call' = [call EXCEPT !.code = "ok", !.offer = offer]
    BY <1>5 DEF CloudTakesPing
  <2>2. call'.offer = offer /\ call.inst # 0 /\ cloudInst = call.inst
    BY <1>5, <2>1 DEF CloudAnswersPing, CloudTakesPing, Waiting, SInv, CallsOwnSession, Pinging,
       DInv, IInv, TypeOK, PingTypeOK
  <2>3. offer = NoCmd \/ offer \in Active
    BY DEF Settled, Active
  <2> QED
    BY <1>4, <1>5, <2>2, <2>3 DEF CloudAnswersPing, execVars, history, Reach
<1>6. CASE PingLoopCrashes
  BY <1>4, <1>6 DEF PingLoopCrashes, execVars, history, NoCall
<1>7. CASE PingLoop
  BY <1>1, <1>2, <1>4, <1>7 DEF PingLoop, SendResult, BeginProbe, SendPing, ConnectGranted,
     RefusedAlreadyActive, RetryLater, LoopEnds, Send, BackToTop, NoCall, execVars, history
<1>8. CASE (Cloud /\ ~(CloudAnswersPing /\ CloudTakesPing)) \/ AnswerLost
  <2>1. call'.offer = call.offer
    <3>1. \/ \E code : call' = [call EXCEPT !.code = code]
          \/ call' = [call EXCEPT !.code = "ok", !.inst = lastInst + 1]
      BY <1>8 DEF Cloud, CloudAnswersConnect, CloudGrantsConnect, CloudRefusesConnect,
         CloudAnswersPing, CloudRefusesPing, CloudAnswersDisconnect, Answer, AnswerLost
    <3> QED
      BY <3>1 DEF DInv, IInv, TypeOK, PingTypeOK
  <2> QED
    BY <1>4, <1>8, <2>1 DEF Cloud, CloudAnswersConnect, CloudAnswersPing, CloudAnswersDisconnect,
       AnswerLost, execVars, history
<1>9. CASE (Local /\ ~AgentRestarts) \/ UNCHANGED vars
  BY <1>4, <1>9 DEF Local, StreamReadsSession, StreamRejected, StreamEnds, SignIn, SignOutBegins,
     SignOutEnds, vars, pingVars, execVars, history
<1>10. CASE World /\ ~AnswerLost /\ ~PingLoopCrashes /\ ~ExecutorCrashes
  BY <1>4, <1>10 DEF World, OwnerEnqueues, CommandCloses, SessionGoesStale, SessionExpires,
     OtherTakesOver, OwnerPauses, OwnerResumes, TokenRevoked, pingVars, execVars, history
<1> QED
  BY <1>2, <1>3, <1>5, <1>6, <1>7, <1>8, <1>9, <1>10 DEF Next, Executor, World, Local

-----------------------------------------------------------------------------
(* What the loop may forget: BInv.                                         *)

\* Closed stays closed, and only a result makes a command done.
LEMMA StatusMoves ==
    ASSUME DInv, [Next]_vars, NEW c \in Cmds
    PROVE  /\ cmd[c] = "closed" => cmd'[c] = "closed"
           /\ cmd'[c] = "done" => cmd[c] = "done" \/ (CloudAnswersPing /\ CloudTakesPing /\ c \in Results)
<1>0. cmd \in [Cmds -> Status]
  BY DEF DInv, IInv, TypeOK, CloudTypeOK
<1>1. CASE CloudAnswersPing /\ CloudTakesPing
  <2>1. PICK offer \in {d \in Cmds : Settled[d] \in {"pending", "delivered"}} \cup {NoCmd} :
           cmd' = [d \in Cmds |-> IF d = offer THEN "delivered" ELSE Settled[d]]
    BY <1>1 DEF CloudTakesPing
  <2>2. Settled[c] = IF c \in Results /\ cmd[c] = "delivered" THEN "done" ELSE cmd[c]
    BY DEF Settled
  <2>3. c = offer => Settled[c] \in {"pending", "delivered"}
    BY <2>1, ConstantsAssumption
  <2> QED
    BY <1>1, <2>1, <2>2, <2>3
<1>2. CASE cmd' = Closed(cmd)
  BY <1>2 DEF Closed
<1>3. CASE OwnerEnqueues \/ CommandCloses
  BY <1>0, <1>3 DEF OwnerEnqueues, CommandCloses, Active
<1>4. CASE UNCHANGED cmd
  BY <1>4
<1>5. CASE PingLoop \/ Executor \/ Local \/ UNCHANGED vars
  BY <1>4, <1>5, PingLoopStandsStill, LocalStandsStill DEF StandStill, Executor, TakeCommand,
     SwitchThread, FinishCommand, PublishResult, vars, cloudVars
<1>6. CASE Cloud /\ ~(CloudAnswersPing /\ CloudTakesPing)
  BY <1>2, <1>4, <1>6 DEF Cloud, CloudAnswersConnect, CloudGrantsConnect, GrantSession,
     CloudRefusesConnect, CloudAnswersPing, CloudRefusesPing, CloudAnswersDisconnect, cloudVars
<1>7. CASE World /\ ~OwnerEnqueues /\ ~CommandCloses
  BY <1>2, <1>4, <1>7 DEF World, SessionGoesStale, SessionExpires, OtherTakesOver, GrantSession,
     OwnerPauses, OwnerResumes, TokenRevoked, AnswerLost, PingLoopCrashes, ExecutorCrashes, cloudVars
<1> QED
  BY <1>1, <1>3, <1>5, <1>6, <1>7 DEF Next

\* Forgotten is forgotten.  The remembered command is let go with a result, for an offer, and at a
\* restart; results are only published, and taken away.
LEMMA MemoryMoves ==
    ASSUME DInv, [Next]_vars
    PROVE  /\ forgotten \subseteq forgotten'
           /\ dispatched' = dispatched \/ PingAccepted \/ DropAck \/ ResultAccepted \/ AgentRestarts
           /\ ack' \in {ack, NoWork} \/ PublishResult
           /\ Probing' => Probing \/ (BeginProbe /\ ack' = NoWork)
<1> USE DEF Probing, history
<1>1. CASE PingLoop
  BY <1>1 DEF PingLoop, DropAck, SendResult, BeginProbe, SendPing, ConnectGranted, PingAccepted,
     PutUnblocked, ResultAccepted, LoopEnds, RefusedAlreadyActive, SessionInvalidated,
     Unauthorized, RetryLater, ForgetDispatched, Send, BackToTop, Answered, execVars, NoCall
<1>2. CASE Executor \/ ExecutorCrashes
  BY <1>2 DEF Executor, TakeCommand, SwitchThread, FinishCommand, PublishResult, ExecutorCrashes,
     pingVars
<1>3. CASE Cloud \/ AnswerLost
  <2>1. /\ UNCHANGED <<dispatched, forgotten, ack, pc>>
        /\ \/ \E code : call' = [call EXCEPT !.code = code]
           \/ \E offer : call' = [call EXCEPT !.code = "ok", !.offer = offer]
           \/ call' = [call EXCEPT !.code = "ok", !.inst = lastInst + 1]
    BY <1>3 DEF Cloud, CloudAnswersConnect, CloudGrantsConnect, CloudRefusesConnect,
       CloudAnswersPing, CloudTakesPing, CloudRefusesPing, CloudAnswersDisconnect, Answer,
       AnswerLost, execVars
  <2>2. call'.kind = call.kind
    BY <2>1 DEF DInv, IInv, TypeOK, PingTypeOK
  <2> QED
    BY <2>1, <2>2
<1>4. CASE Local \/ UNCHANGED vars
  BY <1>4 DEF Local, StreamReadsSession, StreamRejected, StreamEnds, SignIn, SignOutBegins,
     SignOutEnds, AgentRestarts, vars, pingVars, execVars
<1>5. CASE World /\ ~AnswerLost /\ ~ExecutorCrashes
  BY <1>5 DEF World, OwnerEnqueues, CommandCloses, SessionGoesStale, SessionExpires,
     OtherTakesOver, OwnerPauses, OwnerResumes, TokenRevoked, PingLoopCrashes, pingVars, execVars,
     NoCall
<1> QED
  BY <1>1, <1>2, <1>3, <1>4, <1>5 DEF Next, World

\* Work on its way to a result moves on, and only an offer taken adds to it.
LEMMA AheadMoves ==
    ASSUME DInv, [Next]_vars
    PROVE  \/ Ahead' \subseteq Ahead
           \/ /\ PingAccepted /\ call.offer \notin {NoCmd, dispatched}
              /\ Ahead' \subseteq Ahead \cup {call.offer}
<1> USE DEF Ahead
<1>0. queue \in Seq(Work) /\ NoWork.id = NoCmd /\ Idle.work = NoWork
  BY DEF DInv, IInv, TypeOK, ExecTypeOK, NoWork, Idle
<1>1. CASE PutUnblocked
  <2>1. held \in Work /\ queue' = Append(queue, held) /\ held' = NoWork /\ exec' = exec
    BY <1>1 DEF PutUnblocked, DInv, IInv, WorkInHand
  <2>2. \A i \in 1 .. Len(queue') : queue'[i] \in {queue[j] : j \in 1 .. Len(queue)} \cup {held}
    BY <1>0, <2>1
  <2> QED
    BY <1>0, <2>1, <2>2
<1>2. CASE PingAccepted
  <2> DEFINE work == [id |-> call.offer, inst |-> call.inst]
  <2>1. CASE call.offer \in {NoCmd, dispatched}
    BY <1>2, <2>1 DEF PingAccepted
  <2>2. CASE call.offer \notin {NoCmd, dispatched}
    <3>1. \A i \in 1 .. Len(Append(queue, work)) :
             Append(queue, work)[i] \in {queue[j] : j \in 1 .. Len(queue)} \cup {work}
      BY <1>0
    <3>2. \/ queue' = Append(queue, work) /\ held' = held
          \/ queue' = queue /\ held' = work
      BY <1>2, <2>2 DEF PingAccepted
    <3>3. exec' = exec /\ work.id = call.offer
      BY <1>2 DEF PingAccepted
    <3> HIDE DEF work
    <3> QED
      BY <1>2, <2>2, <3>1, <3>2, <3>3
  <2> QED
    BY <2>1, <2>2
<1>3. CASE TakeCommand
  <2>1. queue # <<>> /\ queue' = Tail(queue) /\ exec'.work = Head(queue) /\ held' = held
    BY <1>3 DEF TakeCommand, pingVars
  <2>2. Head(queue) = queue[1] /\ 1 \in 1 .. Len(queue)
    BY <1>0, <2>1
  <2>3. \A i \in 1 .. Len(queue') : queue'[i] = queue[i + 1] /\ i + 1 \in 1 .. Len(queue)
    BY <1>0, <2>1
  <2> QED
    BY <2>1, <2>2, <2>3
<1>4. CASE SwitchThread \/ FinishCommand
  <2>1. exec'.work = exec.work
    BY <1>4 DEF SwitchThread, FinishCommand, DInv, IInv, TypeOK, ExecTypeOK
  <2> QED
    BY <1>4, <2>1 DEF SwitchThread, FinishCommand, pingVars
<1>5. CASE PublishResult \/ ExecutorCrashes
  <2>1. exec'.work = NoWork /\ UNCHANGED <<queue, held>>
    BY <1>5 DEF PublishResult, ExecutorCrashes, pingVars, Idle
  <2> QED
    BY <1>0, <2>1
<1>6. CASE AgentRestarts
  <2>1. queue' = <<>> /\ held'.id = NoCmd /\ exec'.work.id = NoCmd
    BY <1>0, <1>6 DEF AgentRestarts
  <2> QED
    BY <2>1
<1>7. CASE UNCHANGED <<queue, held, exec>>
  BY <1>7
<1>8. CASE PingLoop /\ ~PutUnblocked /\ ~PingAccepted
  BY <1>7, <1>8 DEF PingLoop, DropAck, SendResult, BeginProbe, SendPing, ConnectGranted,
     ResultAccepted, LoopEnds, RefusedAlreadyActive, SessionInvalidated, Unauthorized, RetryLater,
     execVars
<1>9. CASE Cloud \/ (Local /\ ~AgentRestarts) \/ (World /\ ~ExecutorCrashes) \/ UNCHANGED vars
  BY <1>7, <1>9 DEF Cloud, CloudAnswersConnect, CloudAnswersPing, CloudAnswersDisconnect, Local,
     StreamReadsSession, StreamRejected, StreamEnds, SignIn, SignOutBegins, SignOutEnds, World,
     OwnerEnqueues, CommandCloses, SessionGoesStale, SessionExpires, OtherTakesOver, OwnerPauses,
     OwnerResumes, TokenRevoked, AnswerLost, PingLoopCrashes, vars, pingVars, execVars
<1> QED
  BY <1>1, <1>2, <1>3, <1>4, <1>5, <1>6, <1>8, <1>9 DEF Next, Executor

\* An offer the loop does not remember was never used, or was forgotten.
LEMMA FreshOffer ==
    ASSUME DInv, SInv, MInv, BInv, PingAccepted, call.offer \notin {NoCmd, dispatched},
           cmd[call.offer] = "done" \/ call.offer = ack.id
    PROVE  call.offer \in forgotten
<1>1. call.offer \in Cmds /\ call.offer \in ran
  BY DEF DInv, HandedOver, Given, BInv, DoneIsForgotten
<1> QED
  BY <1>1 DEF MInv, UsedIsKnown, Used

\* A command forgotten with a result is behind that result; one passed over for an offer is over.
LEMMA BehindKept ==
    ASSUME DInv, SInv, MInv, BInv, [Next]_vars
    PROVE  BehindClosed'
<1>0. /\ \A c \in Cmds : Belated(c) => Belated(c)'
      /\ \A w \in InHand : w.id \in Cmds /\ w.id # NoCmd /\ w.id \in Given
  BY StatusMoves, MemoryMoves, HandsGiven, ConstantsAssumption DEF Belated, Work
<1>1. CASE PingAccepted
  <2>1. UNCHANGED <<cmd, forgotten, exec, ack>>
    BY <1>1 DEF PingAccepted, cloudVars, history
  <2>2. CASE call.offer \in {NoCmd, dispatched}
    BY <1>1, <2>1, <2>2 DEF PingAccepted, BInv, BehindClosed, InHand, Belated
  <2>3. CASE call.offer \notin {NoCmd, dispatched}
    <3>1. dispatched' = call.offer
      BY <1>1, <2>3 DEF PingAccepted
    <3>2. ASSUME NEW w \in InHand, w.id # call.offer PROVE Belated(w.id)
      <4>1. CASE w.id = dispatched /\ cmd[w.id] = "done"
        <5>1. w.id \in Ahead \/ (w = ack /\ ack # NoWork)
          BY <1>0 DEF InHand, Ahead
        <5>2. Probing
          BY <1>1 DEF PingAccepted, Answered, Probing
        <5> QED
          BY <4>1, <5>1, <5>2 DEF BInv, DoneIsForgotten, Belated
      <4>2. cmd[w.id] = "closed" \/ cmd[w.id] = "done"
        BY <1>0, <2>3, <3>2, OverStays DEF SInv, OffersTheOne, Over
      <4> QED
        BY <4>1, <4>2 DEF BInv, BehindClosed, Belated
    <3>3. InHand' \subseteq InHand \cup {[id |-> call.offer, inst |-> call.inst]}
      BY <1>1, HandsTakeOffer
    <3> QED
      BY <2>1, <3>1, <3>2, <3>3 DEF BehindClosed, Belated
  <2> QED
    BY <2>2, <2>3
<1>2. CASE DropAck \/ ResultAccepted
  <2>1. ForgetDispatched(ack.id) /\ ack # NoWork /\ ack' = NoWork /\ UNCHANGED <<queue, held, exec>>
    BY <1>2 DEF DropAck, ResultAccepted, SInv, CallsOwnSession, Answered
  <2>2. SUFFICES ASSUME NEW w \in InHand', w.id = dispatched PROVE Belated(w.id)'
    <3>1. InHand' \subseteq InHand
      BY <2>1 DEF InHand
    <3> QED
      BY <1>0, <3>1 DEF BInv, BehindClosed
  <2>3. w \in InHand /\ w.id \in Ahead
    BY <1>0, <2>1 DEF InHand, Ahead
  <2>4. CASE w.id = ack.id
    BY <2>3, <2>4, <1>0 DEF BInv, DoneIsForgotten, Belated
  <2>5. CASE w.id # ack.id
    <3>1. Belated(ack.id)
      BY <2>1, <2>2, <2>5, HandsGiven DEF BInv, BehindClosed
    <3> QED
      BY <1>0, <2>1, <2>2, <2>3, <2>5, <3>1 DEF ForgetDispatched, Belated
  <2> QED
    BY <2>4, <2>5
<1>3. CASE AgentRestarts
  <2>1. InHand' = {}
    BY <1>3 DEF AgentRestarts, InHand, Idle
  <2> QED
    BY <2>1 DEF BehindClosed
<1>4. CASE dispatched' = dispatched /\ InHand' \subseteq InHand
  BY <1>0, <1>4 DEF BInv, BehindClosed
<1>5. CASE UNCHANGED vars
  BY <1>4, <1>5 DEF vars, pingVars, execVars, InHand
<1> QED
  BY <1>1, <1>2, <1>3, <1>4, <1>5, MemoryMoves, HandsMove

\* A result makes done what runs no more, or was forgotten.
LEMMA DoneKept ==
    ASSUME DInv, SInv, MInv, BInv, [Next]_vars
    PROVE  DoneIsForgotten'
<1>0. /\ forgotten \subseteq forgotten' /\ ran \subseteq ran' /\ NoWork.id = NoCmd
      /\ \A c \in Ahead : c \in Cmds /\ c # NoCmd
  <2>1. \A c \in Ahead : c \in Cmds /\ c # NoCmd
    BY DEF Ahead, DInv, IInv, TypeOK, ExecTypeOK, PingTypeOK, HandedOver, Given, RestTypeOK
  <2> QED
    BY <2>1, MemoryMoves, StepDelivers, GivenGrows DEF NoWork
<1>1. CloudAnswersPing /\ CloudTakesPing =>
        /\ Results \subseteq {ack.id} \cap ran /\ (Probing => Results = {}) /\ ack' = ack
        /\ call'.kind = call.kind /\ pc' = pc
  <2> SUFFICES ASSUME CloudAnswersPing, CloudTakesPing
               PROVE  /\ Results \subseteq {ack.id} \cap ran /\ (Probing => Results = {}) /\ ack' = ack
                      /\ call'.kind = call.kind /\ pc' = pc
    OBVIOUS
  <2>1. call'.kind = call.kind /\ pc' = pc /\ ack' = ack /\ pc = "call"
    BY DEF CloudAnswersPing, CloudTakesPing, Waiting, DInv, IInv, TypeOK, PingTypeOK, execVars
  <2>2. call.kind = "result" => ack \in Work /\ ack.id \in ran
    BY <2>1, ConstantsAssumption DEF DInv, IInv, WorkInHand, HandedOver, Work
  <2> QED
    BY <2>1, <2>2 DEF Results, Probing
<1>2. \A c \in Cmds : cmd'[c] = "done" => c \in ran'
  BY <1>0, <1>1, StatusMoves DEF BInv, DoneIsForgotten
<1>3. ASSUME NEW c \in Ahead', cmd'[c] = "done" \/ c = ack'.id PROVE c \in forgotten'
  <2>1. CASE PublishResult
    <3>1. ack' = exec.work /\ UNCHANGED <<cmd, queue, held, forgotten>> /\ exec'.work = NoWork
      BY <2>1 DEF PublishResult, cloudVars, pingVars, history, Idle
    <3>2. exec.work.id \in ran \cup {NoCmd}
      BY DEF DInv, HandedOver
    <3>3. c \in ({queue[i].id : i \in 1 .. Len(queue)} \cup {held.id}) \ {NoCmd}
      BY <1>0, <3>1 DEF Ahead
    <3>4. c \in Ahead
      BY <3>3 DEF Ahead
    <3> QED
      BY <1>3, <3>1, <3>2, <3>3, <3>4 DEF BInv, DoneIsForgotten, MInv, QueuedAfresh
  <2>2. CASE c \in Ahead /\ ~PublishResult
    <3>1. c = ack'.id => c = ack.id
      BY <1>0, <2>2, MemoryMoves
    <3>2. cmd'[c] = "done" => cmd[c] = "done" \/ c = ack.id
      BY <1>0, <1>1, <2>2, StatusMoves
    <3> QED
      BY <1>0, <1>3, <2>2, <3>1, <3>2 DEF BInv, DoneIsForgotten
  <2>3. CASE PingAccepted /\ c = call.offer /\ call.offer \notin {NoCmd, dispatched}
    <3>1. UNCHANGED <<cmd, ack, forgotten>>
      BY <2>3 DEF PingAccepted, cloudVars, history
    <3> QED
      BY <1>3, <2>3, <3>1, FreshOffer
  <2> QED
    BY <2>1, <2>2, <2>3, AheadMoves
<1>4. ASSUME Probing', ack' # NoWork, cmd'[ack'.id] = "done" PROVE ack'.id \in forgotten'
  <2>1. CASE PublishResult
    <3>1. ack' = exec.work /\ UNCHANGED <<cmd, forgotten>>
      BY <2>1 DEF PublishResult, cloudVars, history
    <3>2. exec.work.id \in Ahead
      BY <1>4, <3>1, ConstantsAssumption DEF Ahead, DInv, IInv, TypeOK, ExecTypeOK, Work
    <3> QED
      BY <1>4, <3>1, <3>2 DEF BInv, DoneIsForgotten
  <2>2. CASE ~PublishResult
    <3>1. Probing /\ ack' = ack /\ ack.id \in Cmds
      BY <1>4, <2>2, MemoryMoves DEF DInv, IInv, TypeOK, ExecTypeOK, Work
    <3>2. cmd[ack.id] = "done"
      BY <1>1, <1>4, <3>1, StatusMoves
    <3> QED
      BY <1>0, <1>4, <3>1, <3>2 DEF BInv, DoneIsForgotten
  <2> QED
    BY <2>1, <2>2
<1> QED
  BY <1>2, <1>3, <1>4 DEF DoneIsForgotten

\* The parts together are inductive.
LEMMA RInvKept ==
    /\ Init => RInv
    /\ RInv /\ [Next]_vars => RInv'
<1>1. Init => SInv
  BY ConstantsAssumption DEF Init, SInv, InstsKnown, CallsOwnSession, OneActive, OffersTheOne,
     TouchIsMutual, OpenInItsSession, InTouch, InHand, Pinging, NoCall, NoWork, Idle, Active, Over
<1>2. Init => MInv
  BY DEF Init, MInv, QueuedAfresh, UsedIsKnown, RunsOnceUnlessForgotten, NoCommandIgnored, Used,
     NoCall, NoWork
<1>3. Init => BInv
  BY ConstantsAssumption DEF Init, BInv, BehindClosed, DoneIsForgotten, InHand, Ahead, NoWork, Idle
<1>4. RInv /\ [Next]_vars => DInv' /\ SInv' /\ MInv' /\ BInv'
  BY NextHolds, SessionsAgree, MemoryKept, BehindKept, DoneKept DEF RInv, BInv
<1> QED
  BY <1>1, <1>2, <1>3, <1>4, InitHolds DEF RInv

\* A command runs again only if its id was forgotten meanwhile.
THEOREM RunsOnceKept == Spec => []RunsOnceUnlessForgotten
<1>1. RInv => RunsOnceUnlessForgotten
  BY DEF RInv, MInv
<1> QED
  BY <1>1, RInvKept, PTL DEF Spec

\* A live command the loop remembers is in the agent, or died with the executor: its offers are not
\* ignored for good.
THEOREM NothingIgnored == Spec => []NoCommandIgnored
<1>1. RInv => NoCommandIgnored
  BY DEF RInv, MInv
<1> QED
  BY <1>1, RInvKept, PTL DEF Spec

\* Each way a result can leave the store.
LEMMA ResultLeavesAccountedFor ==
    ASSUME RInv, [Next]_vars, ack # NoWork, ack' = NoWork
    PROVE  \/ ack.id \in reported
           \/ cloudInst # ack.inst \/ ~tokenOk \/ session = 0
           \/ AgentRestarts
<1>0. DInv /\ SInv /\ ack \in InHand /\ ack.inst # 0
  BY HandsGiven DEF RInv, SInv, InstsKnown
<1>1. CASE DropAck
  <2>1. CASE cloudInst = ack.inst
    <3>1. session \in {0, cloudInst}
      BY <1>0, <2>1 DEF SInv, TouchIsMutual, InTouch
    <3> QED
      BY <1>1, <2>1, <3>1 DEF DropAck
  <2> QED
    BY <2>1
<1>2. CASE SessionInvalidated \/ Unauthorized
  <2>1. cloudInst # ack.inst
    BY <1>0, <1>2 DEF SessionInvalidated, Unauthorized, Answered, SInv, TouchIsMutual, InTouch
  <2> QED
    BY <2>1
<1>3. CASE ResultAccepted
  BY <1>0, <1>3 DEF ResultAccepted, Answered, DInv, IInv, WorkInHand
<1>4. CASE ack' = ack
  BY <1>4
<1>5. CASE PingLoop
  BY <1>1, <1>2, <1>3, <1>4, <1>5 DEF PingLoop, SendResult, BeginProbe, SendPing, ConnectGranted,
     PingAccepted, PutUnblocked, RefusedAlreadyActive, RetryLater, LoopEnds, execVars
<1>6. CASE Executor \/ ExecutorCrashes
  BY <1>4, <1>6 DEF Executor, TakeCommand, SwitchThread, FinishCommand, PublishResult,
     ExecutorCrashes
<1>7. CASE Cloud \/ (Local /\ ~AgentRestarts) \/ (World /\ ~ExecutorCrashes) \/ UNCHANGED vars
  BY <1>4, <1>7 DEF Cloud, CloudAnswersConnect, CloudAnswersPing, CloudAnswersDisconnect, Local,
     StreamReadsSession, StreamRejected, StreamEnds, SignIn, SignOutBegins, SignOutEnds, World,
     OwnerEnqueues, CommandCloses, SessionGoesStale, SessionExpires, OtherTakesOver,
     OwnerPauses, OwnerResumes, TokenRevoked, AnswerLost, PingLoopCrashes, vars, execVars
<1> QED
  BY <1>5, <1>6, <1>7 DEF Next, Local

\* A result leaves the store only reported, or with its session, its token or the process gone.
THEOREM ResultsAccounted == Spec => ResultAccountedFor
<1>1. RInv /\ [Next]_vars =>
        [ack # NoWork /\ ack' = NoWork =>
            \/ ack.id \in reported
            \/ cloudInst # ack.inst \/ ~tokenOk \/ session = 0
            \/ AgentRestarts]_vars
  BY ResultLeavesAccountedFor
<1> QED
  BY <1>1, RInvKept, PTL DEF Spec, ResultAccountedFor

=============================================================================
