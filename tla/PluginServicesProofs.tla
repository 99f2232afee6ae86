------------------------ MODULE PluginServicesProofs -------------------------
(***************************************************************************)
(* Theorems about the plugin's services.                                   *)
(*                                                                         *)
(* ChatSends, for any sends, chats, attempts and refusals.                 *)
(* Two things of a send's life matter to the order: it takes its place in  *)
(* line (Enqueued), and it leaves the queue (TurnComes).  In between and   *)
(* after, a step settles it or leaves it where it was (Proceeds).          *)
(*                                                                         *)
(* CompletionDelivery, for any runs and faults.  Of a run the text, the    *)
(* record, the delivery and the rescue send can each show the answer; the  *)
(* invariant says which of them are left once it was shown.                *)
(*                                                                         *)
(* ThinkingStream, for any number of pieces, attempts and lost posts.  What*)
(* a smooth run wrote is cut in three: told, waiting in the FIFO, held; each*)
(* post moves a cut point, and nothing falls between two of them.          *)
(***************************************************************************)
EXTENDS ChatSends, CompletionDelivery, ThinkingStream, FiniteSetTheorems, SequenceTheorems,
        TLAPS

LEMMA InitSends == SendsInit => OrderIInv /\ OutcomeIInv
<1> SUFFICES ASSUME SendsInit PROVE OrderIInv /\ OutcomeIInv
  OBVIOUS
<1> USE SendsAssumption DEF SendsInit
<1>1. SendsTypeOK
  BY DEF SendsTypeOK, LastStep
<1>2. line = <<>> /\ DOMAIN line = {}
  OBVIOUS
<1>3. LineIsWhole /\ LeftInOrder
  BY <1>2 DEF LineIsWhole, LeftInOrder, Lined
<1>4. EntryIsLast
  BY <1>2 DEF EntryIsLast, QueueKey, NormalizeTarget, Keys, Chats, Spellings
<1>5. TakenSoFar /\ OutcomeIsOwn
  BY DEF TakenSoFar, OutcomeIsOwn, LastStep
<1> QED
  BY <1>1, <1>3, <1>4, <1>5 DEF OrderIInv, OutcomeIInv

\* The key of a send is the address of its chat, whatever the spelling.
LEMMA KeyIsChat ==
    ASSUME NEW s \in Sends, NEW u \in Sends
    PROVE  QueueKey(s) \in Keys /\ (QueueKey(s) = QueueKey(u) <=> SameChat(s, u))
  BY DEF QueueKey, NormalizeTarget, Keys, Chats, Spellings, SameChat

-----------------------------------------------------------------------------
(* Types.                                                                  *)

TakenTyped ==
    taken \in [Sends -> SUBSET (0..3)] /\ \A s \in Sends : taken[s] \subseteq 0..LastStep(s)

LEMMA TakesTyped ==
    ASSUME SendsTypeOK, NEW s \in Sends, Takes(s) \/ UNCHANGED taken
    PROVE  TakenTyped'
<1> USE DEF SendsTypeOK, TakenTyped
<1>1. CASE UNCHANGED taken
  BY <1>1
<1>2. CASE Takes(s)
  <2>1. step[s] \in 0..3 /\ step[s] \in 0..LastStep(s)
    BY DEF LastStep
  <2>2. taken[s] \cup {step[s]} \in SUBSET (0..3)
    BY <2>1
  <2>3. taken[s] \cup {step[s]} \subseteq 0..LastStep(s)
    BY <2>1
  <2> QED
    BY <1>2, <2>2, <2>3 DEF Takes
<1> QED
  BY <1>1, <1>2

\* A send's step goes up to its last request, which settles it.
LEMMA AnsweredTyped ==
    ASSUME SendsTypeOK, NEW s \in Sends, Answered(s)
    PROVE  /\ stage' \in [Sends -> {"new", "uploading", "queued", "posting", "done", "failed", "empty"}]
           /\ step' \in [Sends -> 0..3] /\ \A u \in Sends : step'[u] <= LastStep(u)
           /\ tries' \in [Sends -> 1..WEBHOOK_MAX_ATTEMPTS] /\ recorded' \subseteq Sends
<1> USE SendsAssumption DEF SendsTypeOK
<1>1. recorded' \subseteq Sends
  BY DEF Answered, Records
<1>2. CASE step[s] = LastStep(s)
  BY <1>1, <1>2 DEF Answered, To
<1>3. CASE step[s] # LastStep(s)
  <2>1. step' = [step EXCEPT ![s] = @ + 1] /\ tries' = [tries EXCEPT ![s] = 1] /\ stage' = stage
    BY <1>3 DEF Answered
  <2>2. step[s] + 1 \in 0..3 /\ step[s] + 1 <= LastStep(s)
    <3>1. step[s] \in 0..3 /\ step[s] <= LastStep(s) /\ LastStep(s) \in {2, 3}
      BY DEF LastStep
    <3> QED
      BY <1>3, <3>1
  <2>3. step' \in [Sends -> 0..3] /\ \A u \in Sends : step'[u] <= LastStep(u)
    BY <2>1, <2>2
  <2> QED
    BY <1>1, <2>1, <2>3
<1> QED
  BY <1>2, <1>3

LEMMA TypesKept == SendsTypeOK /\ [SendsNext]_sendVars => SendsTypeOK'
<1> SUFFICES ASSUME SendsTypeOK, [SendsNext]_sendVars PROVE SendsTypeOK'
  OBVIOUS
<1> USE SendsAssumption DEF SendsTypeOK, LastStep
<1>1. ASSUME NEW s \in Sends, Enqueued(s),
             UNCHANGED <<step, tries, taken, archived, recorded, refused, refusals>>
      PROVE  SendsTypeOK'
  BY <1>1, KeyIsChat DEF Enqueued, To
<1>2. ASSUME NEW s \in Sends,
             SendsNothing(s) \/ SendsMedia(s) \/ UploadFails(s) \/ TurnComes(s)
      PROVE  SendsTypeOK'
  BY <1>2 DEF SendsNothing, SendsMedia, UploadFails, TurnComes, ComesAfter, To
<1>3. ASSUME NEW s \in Sends, QueueClears(s)
      PROVE  SendsTypeOK'
  BY <1>3, KeyIsChat DEF QueueClears, Cleared
<1>4. ASSUME NEW s \in Sends, Accepted(s) \/ DroppedQuietly(s)
      PROVE  SendsTypeOK'
  BY <1>4, TakesTyped, AnsweredTyped DEF Accepted, DroppedQuietly, Answered, TakenTyped
<1>5. ASSUME NEW s \in Sends, TriesAgain(s) \/ IsRefused(s)
      PROVE  SendsTypeOK'
  <2>1. TakenTyped'
    BY <1>5, TakesTyped DEF TriesAgain, IsRefused
  <2>2. tries' \in [Sends -> 1..WEBHOOK_MAX_ATTEMPTS]
    <3>1. \/ UNCHANGED tries
          \/ tries[s] < WEBHOOK_MAX_ATTEMPTS /\ tries' = [tries EXCEPT ![s] = @ + 1]
      BY <1>5 DEF TriesAgain, IsRefused
    <3>2. tries \in [Sends -> 1..WEBHOOK_MAX_ATTEMPTS] /\ WEBHOOK_MAX_ATTEMPTS \in Nat \ {0}
      OBVIOUS
    <3>3. CASE tries[s] < WEBHOOK_MAX_ATTEMPTS /\ tries' = [tries EXCEPT ![s] = @ + 1]
      <4>1. tries[s] + 1 \in 1..WEBHOOK_MAX_ATTEMPTS
        BY <3>2, <3>3
      <4> HIDE DEF SendsTypeOK
      <4> QED
        BY <3>2, <3>3, <4>1
    <3> QED
      BY <3>1, <3>2, <3>3
  <2> QED
    BY <1>5, <2>1, <2>2 DEF TriesAgain, IsRefused, GivesUp, To, TakenTyped
<1>6. ASSUME NEW c \in Chats, OwnerArchives(c)
      PROVE  SendsTypeOK'
  BY <1>6 DEF OwnerArchives
<1>7. CASE UNCHANGED sendVars
  BY <1>7 DEF sendVars
<1> QED
  BY <1>1, <1>2, <1>3, <1>4, <1>5, <1>6, <1>7 DEF SendsNext, SendsText, Uploaded

-----------------------------------------------------------------------------
(* The order of sends.                                                     *)

\* Nobody enters the line or leaves the queue, and the queue's entries stay.
Proceeds ==
    /\ UNCHANGED <<line, behind, sendQueues>>
    /\ \A u \in Lined : \/ stage'[u] = stage[u]
                        \/ stage[u] = "posting" /\ stage'[u] \in {"done", "failed"}
    /\ \A u \in Sends \ Lined : stage'[u] \notin {"queued", "posting"}
    /\ \A u \in Sends : stage[u] = "posting" \/ taken'[u] = taken[u]

LEMMA MostProceed ==
    ASSUME OrderIInv, NEW s \in Sends,
           \/ SendsNothing(s) \/ SendsMedia(s) \/ UploadFails(s)
           \/ Accepted(s) \/ DroppedQuietly(s) \/ TriesAgain(s) \/ IsRefused(s)
    PROVE  Proceeds
<1> USE DEF OrderIInv, SendsTypeOK, Proceeds, To
<1>1. \A u \in Sends \ Lined : stage[u] \notin {"queued", "posting"}
  BY DEF LineIsWhole
<1>2. \A u \in Lined : u \in Sends /\ stage[u] \in {"queued", "posting", "done", "failed"}
  BY DEF LineIsWhole, Lined
<1>3. CASE SendsNothing(s) \/ SendsMedia(s) \/ UploadFails(s)
  BY <1>1, <1>2, <1>3 DEF SendsNothing, SendsMedia, UploadFails
<1>4. CASE Accepted(s) \/ DroppedQuietly(s)
  BY <1>1, <1>2, <1>4 DEF Accepted, DroppedQuietly, Answered, Posting, Takes
<1>5. CASE TriesAgain(s) \/ IsRefused(s)
  BY <1>1, <1>2, <1>5 DEF TriesAgain, IsRefused, GivesUp, Posting, Takes
<1> QED
  BY <1>3, <1>4, <1>5

LEMMA ProceedsKeepsOrder == OrderIInv /\ Proceeds /\ SendsTypeOK' => OrderIInv'
<1> SUFFICES ASSUME OrderIInv, Proceeds, SendsTypeOK' PROVE OrderIInv'
  OBVIOUS
<1> USE DEF OrderIInv, SendsTypeOK, Proceeds
<1>1. /\ Lined' = Lined /\ Lined \subseteq Sends
      /\ \A i \in DOMAIN line : line[i] \in Lined
  BY DEF Lined
<1>2. LineIsWhole'
  BY <1>1 DEF LineIsWhole
<1>3. \A u \in Lined : IsSettled(u) => IsSettled(u)'
  BY DEF IsSettled
<1>4. \A u \in Lined : stage[u] = "queued" => stage'[u] = "queued"
  OBVIOUS
<1>5. LeftInOrder'
  BY <1>1, <1>3, <1>4 DEF LeftInOrder
<1>6. EntryIsLast'
  BY <1>1, <1>3 DEF EntryIsLast, QueueKey
<1> QED
  BY <1>2, <1>5, <1>6

\* A send that takes its place waits for the last of its chat, and is the last then.
LEMMA EnqueuedKeepsOrder ==
    ASSUME OrderIInv, SendsTypeOK', NEW s \in Sends, stage[s] \in {"new", "uploading"}, Enqueued(s),
           UNCHANGED taken
    PROVE  OrderIInv'
<1> USE DEF OrderIInv, SendsTypeOK
<1> DEFINE n == Len(line) + 1
<1>1. /\ line \in Seq(Sends) /\ n \in Nat /\ DOMAIN line = 1 .. n - 1
      /\ line' = Append(line, s) /\ DOMAIN line' = 1 .. n /\ line'[n] = s
      /\ \A i \in DOMAIN line : line'[i] = line[i] /\ line[i] \in Lined
  BY DEF Enqueued, Lined
<1>2. s \notin Lined /\ Lined' = Lined \cup {s} /\ Lined \subseteq Sends
  <2>1. s \notin Lined
    BY DEF LineIsWhole
  <2>2. Lined' \subseteq Lined \cup {s}
    <3> SUFFICES ASSUME NEW i \in 1 .. n PROVE line'[i] \in Lined \cup {s}
      BY <1>1 DEF Lined
    <3>1. i = n \/ i \in DOMAIN line
      BY <1>1
    <3> QED
      BY <1>1, <3>1
  <2>3. Lined \cup {s} \subseteq Lined'
    <3>1. \A i \in DOMAIN line : i \in DOMAIN line' /\ line'[i] = line[i]
      BY <1>1
    <3>2. n \in DOMAIN line' /\ line'[n] = s
      BY <1>1
    <3> QED
      BY <3>1, <3>2 DEF Lined
  <2>4. Lined \subseteq Sends
    BY <1>1 DEF Lined
  <2> QED
    BY <2>1, <2>2, <2>3, <2>4
<1>3. stage'[s] = "queued" /\ \A u \in Sends \ {s} : stage'[u] = stage[u]
  BY DEF Enqueued, To
<1>4. LineIsWhole'
  BY <1>2, <1>3 DEF LineIsWhole
<1>5. \A u \in Sends \ {s} : IsSettled(u) <=> IsSettled(u)'
  BY <1>3 DEF IsSettled
<1>6. behind'[s] = sendQueues[QueueKey(s)] /\ \A u \in Sends \ {s} : behind'[u] = behind[u]
  BY DEF Enqueued
<1>9. ASSUME NEW i \in 1 .. n, i # n
      PROVE  i \in DOMAIN line /\ line'[i] = line[i] /\ line[i] \in Sends \ {s}
  <2> HIDE DEF OrderIInv, SendsTypeOK
  <2>1. i \in DOMAIN line
    BY <1>1, <1>9
  <2>2. line'[i] = line[i] /\ line[i] \in Lined
    BY <1>1, <2>1
  <2> QED
    BY <1>2, <2>1, <2>2
<1>7. LeftInOrder'
  <2> SUFFICES ASSUME NEW i \in 1 .. n, NEW j \in 1 .. n, i < j, SameChat(line'[i], line'[j])
               PROVE  \/ IsSettled(line[i])'
                      \/ /\ stage'[line'[j]] = "queued"
                         /\ \E k \in i .. j - 1 :
                              behind'[line'[j]] = line'[k] /\ SameChat(line'[k], line'[j])
    BY <1>1 DEF LeftInOrder
  <2>1. i \in DOMAIN line /\ line'[i] = line[i] /\ line[i] \in Sends \ {s}
    <3>1. i # n
      BY <1>1
    <3> QED
      BY <1>9, <3>1
  <2>2. CASE j # n
    <3>1. j \in DOMAIN line /\ line'[j] = line[j] /\ line[j] \in Sends \ {s}
      BY <1>9, <2>2
    <3>2. \A k \in i .. j - 1 : k \in DOMAIN line /\ line'[k] = line[k]
      BY <1>1
    <3> QED
      <4>1. CASE IsSettled(line[i])
        <5>1. IsSettled(line[i])'
          BY <1>5, <2>1, <4>1
        <5> QED
          BY <5>1
      <4>2. ASSUME stage[line[j]] = "queued", NEW k \in i .. j - 1,
                   behind[line[j]] = line[k], SameChat(line[k], line[j])
            PROVE  /\ stage'[line'[j]] = "queued"
                   /\ \E y \in i .. j - 1 :
                        behind'[line'[j]] = line'[y] /\ SameChat(line'[y], line'[j])
        BY <1>3, <1>6, <3>1, <3>2, <4>2
      <4>3. SameChat(line[i], line[j])
        BY <2>1, <3>1
      <4> QED
        BY <2>1, <3>1, <4>1, <4>2, <4>3 DEF LeftInOrder
  <2>3. CASE j = n
    <3>1. line'[j] = s /\ SameChat(line[i], s)
      BY <1>1, <2>1, <2>3
    <3>2. CASE \A x \in DOMAIN line : SameChat(line[x], s) => IsSettled(line[x])
      BY <1>5, <2>1, <3>1, <3>2
    <3>3. ASSUME NEW k \in DOMAIN line, sendQueues[QueueKey(s)] = line[k], SameChat(line[k], s),
                 \A x \in DOMAIN line : SameChat(line[x], s) => x <= k
          PROVE  \/ IsSettled(line[i])'
                 \/ /\ stage'[line'[j]] = "queued"
                    /\ \E y \in i .. j - 1 :
                         behind'[line'[j]] = line'[y] /\ SameChat(line'[y], line'[j])
      <4>1. k \in i .. j - 1 /\ line'[k] = line[k]
        BY <1>1, <2>1, <2>3, <3>1, <3>3
      <4> QED
        BY <1>3, <1>6, <3>1, <3>3, <4>1
    <3> QED
      BY <3>2, <3>3 DEF EntryIsLast
  <2> QED
    BY <2>2, <2>3
<1>8. EntryIsLast'
  <2> SUFFICES ASSUME NEW u \in Sends
               PROVE  \/ /\ sendQueues'[QueueKey(u)] = NoSend
                         /\ \A i \in DOMAIN line' : SameChat(line'[i], u) => IsSettled(line[i])'
                      \/ \E k \in DOMAIN line' :
                           /\ sendQueues'[QueueKey(u)] = line'[k] /\ SameChat(line'[k], u)
                           /\ \A i \in DOMAIN line' : SameChat(line'[i], u) => i <= k
    BY DEF EntryIsLast, QueueKey
  <2>1. CASE SameChat(s, u)
    <3>1. sendQueues'[QueueKey(u)] = s
      BY <2>1, KeyIsChat DEF Enqueued
    <3> QED
      <4>1. n \in DOMAIN line' /\ line'[n] = s /\ \A i \in DOMAIN line' : i <= n
        BY <1>1
      <4> QED
        BY <2>1, <3>1, <4>1
  <2>2. CASE ~SameChat(s, u)
    <3>1. sendQueues'[QueueKey(u)] = sendQueues[QueueKey(u)]
      BY <2>2, KeyIsChat DEF Enqueued
    <3>2. \A i \in DOMAIN line' : SameChat(line'[i], u) =>
             i \in DOMAIN line /\ line'[i] = line[i] /\ line[i] \in Sends \ {s}
      BY <1>1, <1>2, <2>2
    <3>3. CASE sendQueues[QueueKey(u)] = NoSend
                 /\ \A i \in DOMAIN line : SameChat(line[i], u) => IsSettled(line[i])
      BY <1>5, <3>1, <3>2, <3>3
    <3>4. ASSUME NEW k \in DOMAIN line, sendQueues[QueueKey(u)] = line[k], SameChat(line[k], u),
                 \A i \in DOMAIN line : SameChat(line[i], u) => i <= k
          PROVE  \E m \in DOMAIN line' :
                     /\ sendQueues'[QueueKey(u)] = line'[m] /\ SameChat(line'[m], u)
                     /\ \A i \in DOMAIN line' : SameChat(line'[i], u) => i <= m
      <4>1. k \in DOMAIN line' /\ line'[k] = line[k]
        BY <1>1, <3>4
      <4> QED
        BY <3>1, <3>2, <3>4, <4>1
    <3> QED
      BY <3>3, <3>4 DEF EntryIsLast
  <2> QED
    BY <2>1, <2>2
<1> QED
  BY <1>4, <1>7, <1>8

\* A send leaves the queue when the one it waits for is settled, and with it all ahead of that.
LEMMA TurnComesKeepsOrder ==
    ASSUME OrderIInv, SendsTypeOK', NEW s \in Sends, TurnComes(s)
    PROVE  OrderIInv'
<1> USE DEF OrderIInv, SendsTypeOK
<1>1. /\ stage[s] = "queued" /\ UNCHANGED <<line, behind, sendQueues, taken>>
      /\ behind[s] = NoSend \/ IsSettled(behind[s])
      /\ stage'[s] = "posting" /\ \A u \in Sends \ {s} : stage'[u] = stage[u]
  BY DEF TurnComes, ComesAfter, To
<1>2. /\ Lined' = Lined /\ Lined \subseteq Sends
      /\ \A i \in DOMAIN line : line[i] \in Lined
  BY <1>1 DEF Lined
<1>3. LineIsWhole'
  BY <1>1, <1>2 DEF LineIsWhole
<1>4. \A u \in Sends : IsSettled(u) <=> IsSettled(u)'
  BY <1>1 DEF IsSettled
<1>5. EntryIsLast'
  BY <1>1, <1>2, <1>4 DEF EntryIsLast, QueueKey
<1>6. LeftInOrder'
  <2> SUFFICES ASSUME NEW i \in DOMAIN line, NEW j \in DOMAIN line, i < j,
                      SameChat(line[i], line[j]), ~IsSettled(line[i])
               PROVE  /\ stage'[line[j]] = "queued"
                      /\ \E k \in i .. j - 1 :
                           behind[line[j]] = line[k] /\ SameChat(line[k], line[j])
    BY <1>1, <1>2, <1>4 DEF LeftInOrder
  <2>1. stage[line[j]] = "queued"
    BY DEF LeftInOrder
  <2>2. PICK k \in i .. j - 1 : behind[line[j]] = line[k] /\ SameChat(line[k], line[j])
    BY DEF LeftInOrder
  <2>3. k \in DOMAIN line /\ line[k] \in Sends
    BY <2>2, <1>2
  <2>4. line[j] # s
    <3> SUFFICES ASSUME line[j] = s PROVE FALSE
      OBVIOUS
    <3>1. IsSettled(line[k])
      BY <1>1, <2>2, <2>3, SendsAssumption
    <3>2. i < k /\ SameChat(line[i], line[k])
      BY <2>2, <3>1 DEF SameChat
    <3>3. stage[line[k]] = "queued"
      BY <2>3, <3>2 DEF LeftInOrder
    <3> QED
      BY <3>1, <3>3 DEF IsSettled
  <2> QED
    BY <1>1, <1>2, <2>1, <2>2, <2>4
<1> QED
  BY <1>3, <1>5, <1>6

\* The entry goes when its own send is settled, and all of the chat are by then.
LEMMA QueueClearsKeepsOrder ==
    ASSUME OrderIInv, SendsTypeOK', NEW s \in Sends, QueueClears(s)
    PROVE  OrderIInv'
<1> USE DEF OrderIInv, SendsTypeOK
<1>1. UNCHANGED <<line, behind, stage, taken>> /\ IsSettled(s) /\ sendQueues' = Cleared(s)
  BY DEF QueueClears
<1>2. LineIsWhole' /\ LeftInOrder'
  BY <1>1 DEF LineIsWhole, LeftInOrder, Lined, IsSettled
<1>3. EntryIsLast'
  <2> SUFFICES ASSUME NEW u \in Sends
               PROVE  \/ /\ sendQueues'[QueueKey(u)] = NoSend
                         /\ \A i \in DOMAIN line : SameChat(line[i], u) => IsSettled(line[i])
                      \/ \E k \in DOMAIN line :
                           /\ sendQueues'[QueueKey(u)] = line[k] /\ SameChat(line[k], u)
                           /\ \A i \in DOMAIN line : SameChat(line[i], u) => i <= k
    BY <1>1 DEF EntryIsLast, QueueKey, IsSettled
  <2>1. CASE QueueKey(u) = QueueKey(s) /\ sendQueues[QueueKey(u)] = s
    <3>1. sendQueues'[QueueKey(u)] = NoSend
      BY <1>1, <2>1, KeyIsChat DEF Cleared
    <3>2. PICK k \in DOMAIN line : /\ s = line[k] /\ SameChat(line[k], u)
                                   /\ \A i \in DOMAIN line : SameChat(line[i], u) => i <= k
      BY <2>1, SendsAssumption DEF EntryIsLast
    <3>3. ASSUME NEW i \in DOMAIN line, SameChat(line[i], u) PROVE IsSettled(line[i])
      <4>1. i <= k /\ SameChat(line[i], line[k])
        BY <3>2, <3>3 DEF SameChat
      <4>2. CASE i = k
        BY <1>1, <3>2, <4>2
      <4>3. CASE i < k
        <5>1. stage[line[k]] # "queued"
          BY <1>1, <3>2 DEF IsSettled
        <5> QED
          BY <4>1, <4>3, <5>1 DEF LeftInOrder
      <4> QED
        BY <4>1, <4>2, <4>3
    <3> QED
      BY <3>1, <3>3
  <2>2. CASE ~(QueueKey(u) = QueueKey(s) /\ sendQueues[QueueKey(u)] = s)
    <3>1. sendQueues'[QueueKey(u)] = sendQueues[QueueKey(u)]
      BY <1>1, <2>2, KeyIsChat DEF Cleared
    <3> QED
      BY <3>1 DEF EntryIsLast
  <2> QED
    BY <2>1, <2>2
<1> QED
  BY <1>2, <1>3

LEMMA OrderKept == OrderIInv /\ [SendsNext]_sendVars => OrderIInv'
<1> SUFFICES ASSUME OrderIInv, [SendsNext]_sendVars PROVE OrderIInv'
  OBVIOUS
<1>1. SendsTypeOK'
  BY TypesKept DEF OrderIInv
<1>2. ASSUME NEW s \in Sends, SendsText(s) \/ Uploaded(s) PROVE OrderIInv'
  BY <1>1, <1>2, EnqueuedKeepsOrder DEF SendsText, Uploaded
<1>3. ASSUME NEW s \in Sends, TurnComes(s) PROVE OrderIInv'
  BY <1>1, <1>3, TurnComesKeepsOrder
<1>4. ASSUME NEW s \in Sends, QueueClears(s) PROVE OrderIInv'
  BY <1>1, <1>4, QueueClearsKeepsOrder
<1>5. ASSUME NEW s \in Sends,
             \/ SendsNothing(s) \/ SendsMedia(s) \/ UploadFails(s)
             \/ Accepted(s) \/ DroppedQuietly(s) \/ TriesAgain(s) \/ IsRefused(s)
      PROVE  OrderIInv'
  BY <1>1, <1>5, MostProceed, ProceedsKeepsOrder
<1>6. CASE UNCHANGED <<stage, taken, line, behind, sendQueues>>
  <2>1. Proceeds
    BY <1>6 DEF Proceeds, OrderIInv, LineIsWhole
  <2> QED
    BY <1>1, <2>1, ProceedsKeepsOrder
<1> QED
  BY <1>2, <1>3, <1>4, <1>5, <1>6 DEF SendsNext, OwnerArchives, sendVars

(* The sends into one chat reach the cloud one whole turn after the other, *)
(* in the order they were queued, for any number of sends and chats.       *)
THEOREM SendsInOrder == SendsSpec => []SendsKeepOrder
<1>1. SendsInit => OrderIInv
  BY InitSends
<1>2. OrderIInv /\ [SendsNext]_sendVars => OrderIInv'
  BY OrderKept
<1>3. OrderIInv => SendsKeepOrder
  <2> SUFFICES ASSUME OrderIInv, NEW i \in DOMAIN line, NEW j \in DOMAIN line, i < j,
                      SameChat(line[i], line[j]), taken[line[j]] # {}
               PROVE  IsSettled(line[i])
    BY DEF SendsKeepOrder, SameChat
  <2>1. line[j] \in Sends
    BY DEF OrderIInv, SendsTypeOK
  <2>2. stage[line[j]] # "queued"
    BY <2>1 DEF OrderIInv, LineIsWhole
  <2> QED
    BY <2>2 DEF OrderIInv, LeftInOrder
<1> QED
  BY <1>1, <1>2, <1>3, PTL DEF SendsSpec

-----------------------------------------------------------------------------
(* What a send answers for.                                                *)

LEMMA OutcomeKept == OutcomeIInv /\ [SendsNext]_sendVars => OutcomeIInv'
<1> SUFFICES ASSUME OutcomeIInv, [SendsNext]_sendVars PROVE OutcomeIInv'
  OBVIOUS
<1>1. SendsTypeOK'
  BY TypesKept DEF OutcomeIInv
<1> USE DEF OutcomeIInv, SendsTypeOK
\* A step that neither posts nor archives may only fail a send with a request of its own.
<1>2. ASSUME UNCHANGED <<step, taken, archived, recorded>>, refused \subseteq refused',
             \A u \in Sends : stage'[u] = "failed" => stage[u] = "failed" \/ u \in refused'
      PROVE  OutcomeIInv'
  BY <1>1, <1>2 DEF TakenSoFar, OutcomeIsOwn, IsArchived
<1>3. ASSUME NEW s \in Sends,
             \/ SendsNothing(s) \/ SendsText(s) \/ SendsMedia(s) \/ Uploaded(s) \/ UploadFails(s)
             \/ TurnComes(s) \/ QueueClears(s) \/ IsRefused(s)
      PROVE  OutcomeIInv'
  BY <1>2, <1>3 DEF SendsNothing, SendsText, SendsMedia, Uploaded, UploadFails, TurnComes,
                    ComesAfter, QueueClears, IsRefused, GivesUp, Enqueued, To
<1>4. ASSUME NEW s \in Sends, TriesAgain(s) PROVE OutcomeIInv'
  <2>1. /\ UNCHANGED <<step, archived, recorded>> /\ refused \subseteq refused'
        /\ \A u \in Sends : stage'[u] = "failed" => stage[u] = "failed" \/ u \in refused'
        /\ UNCHANGED taken \/ (~IsArchived(s) /\ Takes(s))
    <3>1. UNCHANGED <<step, archived, recorded>> /\ (UNCHANGED taken \/ (~IsArchived(s) /\ Takes(s)))
      BY <1>4 DEF TriesAgain
    <3>2. UNCHANGED <<stage, refused>> \/ GivesUp(s)
      BY <1>4 DEF TriesAgain
    <3>3. refused \subseteq refused'
      BY <3>2 DEF GivesUp
    <3>4. \A u \in Sends : stage'[u] = "failed" => stage[u] = "failed" \/ u \in refused'
      BY <3>2 DEF GivesUp, To
    <3> QED
      BY <3>1, <3>3, <3>4
  <2>2. \A u \in Sends : taken[u] \subseteq taken'[u] /\ taken'[u] \subseteq 0..LastStep(u)
    BY <1>1, <2>1 DEF Takes, LastStep
  <2> QED
    BY <1>1, <2>1, <2>2 DEF TakenSoFar, OutcomeIsOwn, IsArchived, LastStep
<1>5. ASSUME NEW s \in Sends, Accepted(s) PROVE OutcomeIInv'
  <2>1. /\ Takes(s) /\ UNCHANGED <<archived, refused>> /\ recorded' = Records(s)
        /\ \A u \in Sends : stage'[u] = "failed" => stage[u] = "failed"
    BY <1>5 DEF Accepted, Answered, To
  <2>2. /\ taken'[s] = taken[s] \cup {step[s]} /\ taken'[s] \subseteq 0..LastStep(s)
        /\ \A u \in Sends \ {s} : taken'[u] = taken[u]
    BY <1>1, <2>1 DEF Takes, LastStep
  <2>3. /\ \A u \in Sends \ {s} : step'[u] = step[u]
        /\ IF step[s] = LastStep(s) THEN step'[s] = step[s] ELSE step'[s] = step[s] + 1
    BY <1>5 DEF Accepted, Answered
  <2>4. step[s] \in 0..3 /\ LastStep(s) \in {2, 3}
    BY DEF LastStep
  <2>5. IsArchived(s) \/ \A i \in 0 .. step[s] : i \in taken'[s]
    BY <2>2, <2>4 DEF TakenSoFar
  <2>6. TakenSoFar'
    <3> SUFFICES ASSUME NEW u \in Sends
                 PROVE  IsArchived(u)' \/ \A i \in 0 .. step'[u] - 1 : i \in taken'[u]
      BY DEF TakenSoFar
    <3>1. CASE u = s
      BY <2>1, <2>3, <2>4, <2>5, <3>1 DEF IsArchived
    <3>2. CASE u # s
      BY <2>1, <2>2, <2>3, <3>2 DEF TakenSoFar, IsArchived
    <3> QED
      BY <3>1, <3>2
  <2>7. OutcomeIsOwn'
    <3>1. ASSUME NEW u \in Sends, u \in recorded'
          PROVE  taken'[u] = 0 .. LastStep(u) \/ IsArchived(u)'
      <4>1. CASE u # s
        BY <2>1, <2>2, <3>1, <4>1 DEF OutcomeIsOwn, IsArchived, Records
      <4>2. CASE u = s /\ step[s] = LastStep(s)
        BY <2>1, <2>2, <2>5, <4>2 DEF IsArchived
      <4>3. CASE u = s /\ s \in recorded
        BY <2>1, <2>2, <4>3 DEF OutcomeIsOwn, IsArchived
      <4> QED
        BY <2>1, <3>1, <4>1, <4>2, <4>3 DEF Records
    <3> QED
      BY <2>1, <3>1 DEF OutcomeIsOwn, LastStep
  <2> QED
    BY <1>1, <2>6, <2>7
<1>6. ASSUME NEW s \in Sends, DroppedQuietly(s) PROVE OutcomeIInv'
  <2>1. /\ UNCHANGED <<taken, archived, refused>> /\ recorded' = Records(s) /\ IsArchived(s)
        /\ \A u \in Sends : stage'[u] = "failed" => stage[u] = "failed"
        /\ \A u \in Sends \ {s} : step'[u] = step[u]
    BY <1>6 DEF DroppedQuietly, Answered, To
  <2> QED
    BY <1>1, <2>1 DEF TakenSoFar, OutcomeIsOwn, IsArchived, Records, LastStep
<1>7. ASSUME NEW c \in Chats, OwnerArchives(c) PROVE OutcomeIInv'
  BY <1>1, <1>7 DEF OwnerArchives, TakenSoFar, OutcomeIsOwn, IsArchived, LastStep
<1>8. CASE UNCHANGED sendVars
  BY <1>2, <1>8 DEF sendVars
<1> QED
  BY <1>3, <1>4, <1>5, <1>6, <1>7, <1>8 DEF SendsNext

(* Whatever requests are lost or refused and whenever a chat is archived,  *)
(* a send recorded as delivered had its whole turn taken or its chat       *)
(* archived, and a send that failed failed by a request of its own.        *)
THEOREM OutcomesOwned == SendsSpec => []OutcomeIsOwn
<1>1. SendsInit => OutcomeIInv
  BY InitSends
<1>2. OutcomeIInv /\ [SendsNext]_sendVars => OutcomeIInv'
  BY OutcomeKept
<1>3. OutcomeIInv => OutcomeIsOwn
  BY DEF OutcomeIInv
<1> QED
  BY <1>1, <1>2, <1>3, PTL DEF SendsSpec

-----------------------------------------------------------------------------
(* CompletionDelivery.                                                     *)

\* Deliveries of different runs or kinds are different ones, and no record is None.
LEMMA DeliveryFacts ==
    /\ \A r \in Runs : Report(r) \in Deliveries /\ Words(r) \in Deliveries /\ Note(r) \in Deliveries
    /\ \A r \in Runs : Report(r).of = r /\ Words(r).of = r /\ Note(r).of = r
    /\ \A r, s \in Runs : Report(r) # Words(s) /\ Note(r) # Words(s) /\ Note(r) # Report(s)
    /\ \A r, s \in Runs : (Words(r) = Words(s) => r = s) /\ (Report(r) = Report(s) => r = s)
    /\ \A r \in Runs : Words(r).what = "words" /\ Report(r).what = "report"
    /\ \A d \in Deliveries : d.of \in Runs /\ d \in {Report(d.of), Words(d.of), Note(d.of)}
  BY DEF Report, Words, Note, Deliveries

\* None is neither a run nor a record of one.
LEMMA RecordFacts ==
    /\ None \notin Runs
    /\ \A r \in Runs, f \in BOOLEAN : [of |-> r, fresh |-> f] # None
    /\ \A r \in Runs \cup {None}, f, g \in BOOLEAN : [answer |-> r, self |-> f, timer |-> g] # None
<1>1. None \notin Runs \cup [of : Runs, fresh : BOOLEAN]
                       \cup [answer : Runs \cup {None}, self : BOOLEAN, timer : BOOLEAN]
  BY CompletionAssumption
<1>2. \A r \in Runs, f \in BOOLEAN : [of |-> r, fresh |-> f] \in [of : Runs, fresh : BOOLEAN]
  OBVIOUS
<1>3. \A r \in Runs \cup {None}, f, g \in BOOLEAN :
        [answer |-> r, self |-> f, timer |-> g] \in [answer : Runs \cup {None}, self : BOOLEAN, timer : BOOLEAN]
  OBVIOUS
<1> QED
  BY <1>1, <1>2, <1>3

\* A run begins when nothing of the run before is left to do.
LEMMA BeginningKept ==
    ASSUME DeliveryIInv, NEW r \in Runs, RunBegins(r)
    PROVE  DeliveryIInv'
<1> USE DEF RunBegins, hooks, past
<1>1. DeliveryTypeOK'
  BY DEF DeliveryIInv, DeliveryTypeOK
<1>2. \A s \in Runs : at'[s] = IF s = r THEN "running" ELSE at[s]
  BY DEF DeliveryIInv, DeliveryTypeOK
<1>3. at[r] # "over"
  OBVIOUS
<1>4. \A s \in Runs : Busy(s)' => s = r
  BY <1>2, RecordFacts DEF Settled, Busy
<1>5. OneAtATime'
  BY <1>4 DEF OneAtATime, Settled
<1>6. OfTheEnded'
  BY <1>2, <1>3 DEF OfTheEnded, DeliveryIInv, DeliveryTypeOK, Deliveries
<1>7. AnswersSettled'
  BY <1>2, <1>3 DEF AnswersSettled, DeliveryIInv, DeliveryTypeOK, Runs
<1>8. RescueOnRecord' /\ ReportsMet' /\ ShownIsDone' /\ RawReportStaysInside'
  BY DEF DeliveryIInv, Settled, RescueOnRecord, ReportsMet, ShownIsDone, RawReportStaysInside
<1> QED
  BY <1>1, <1>5, <1>6, <1>7, <1>8 DEF DeliveryIInv

\* A tool called only adds to the runs that spoke for themselves.
LEMMA ToolCallKept ==
    ASSUME DeliveryIInv, NEW r \in Runs, CallsTool(r)
    PROVE  DeliveryIInv'
<1>1. /\ UNCHANGED <<at, text, due, road, seen, pending, silenced, rescue, shown, excused, overlapped>>
      /\ messaged' = messaged \cup {r} /\ toolFlag' \in BOOLEAN
  BY DEF CallsTool, past
<1>2. DeliveryTypeOK'
  BY <1>1 DEF DeliveryIInv, DeliveryTypeOK
<1>3. OneAtATime' /\ OfTheEnded' /\ AnswersSettled' /\ RescueOnRecord'
  BY <1>1 DEF DeliveryIInv, OneAtATime, Busy, OfTheEnded, AnswersSettled, RescueOnRecord
<1>4. ReportsMet' /\ RawReportStaysInside'
  BY <1>1 DEF DeliveryIInv, ReportsMet, RawReportStaysInside
<1>5. ShownIsDone'
  BY <1>1 DEF DeliveryIInv, ShownIsDone
<1> QED
  BY <1>2, <1>3, <1>4, <1>5 DEF DeliveryIInv

\* A run ends: its hooks come due, and one delivery of it goes on the road.
LEMMA EndingKept ==
    ASSUME DeliveryIInv, NEW r \in Runs, RunEnds(r)
    PROVE  DeliveryIInv'
<1>0. /\ at[r] = "running" /\ UNCHANGED <<hooks, rescue, past, faults>>
      /\ \A s \in Runs : at'[s] = IF s = r THEN "over" ELSE at[s]
  BY DEF RunEnds, DeliveryIInv, DeliveryTypeOK
<1>1. PICK wrote \in {"none", "words", "hush"} :
         /\ text' = [text EXCEPT ![r] = wrote]
         /\ due' = [due EXCEPT ![r] =
                      IF wrote = "none" THEN {"agent_end"} ELSE {"llm_output", "agent_end"}]
         /\ road' = road \/ \E d \in Delivered(r, wrote) : road' = road \cup {d}
  BY DEF RunEnds
<1>2. /\ \A s \in Runs \ {r} : text'[s] = text[s] /\ due'[s] = due[s]
      /\ text'[r] = wrote /\ "agent_end" \in due'[r] /\ (wrote # "none" => "llm_output" \in due'[r])
      /\ due'[r] \subseteq {"llm_output", "agent_end"}
  BY <1>1 DEF DeliveryIInv, DeliveryTypeOK
<1>3. Delivered(r, wrote) \subseteq {Report(r), Words(r), Note(r)}
  BY DEF Delivered
<1>4. road = {} /\ rescue # r /\ (seen # None => seen.of # r) /\ due[r] = {}
  <2>1. \A s \in Runs : Busy(s) => s = r
    BY <1>0 DEF DeliveryIInv, OneAtATime, Busy
  <2>2. \A d \in road : d.of = r /\ at[d.of] = "over"
    BY <2>1 DEF DeliveryIInv, DeliveryTypeOK, Deliveries, Busy, OfTheEnded
  <2> QED
    BY <1>0, <2>2, RecordFacts DEF DeliveryIInv, OfTheEnded, RescueOnRecord, DeliveryTypeOK
<1>5. \A d \in road' : d \in Deliveries /\ d.of = r
  BY <1>1, <1>3, <1>4, DeliveryFacts
<1>6. \A d, e \in road' : d = e
  BY <1>1, <1>4
<1>7. DeliveryTypeOK'
  <2>1. at' \in [Runs -> {"waiting", "running", "over"}]
    BY DEF RunEnds, DeliveryIInv, DeliveryTypeOK
  <2>2. text' \in [Runs -> {"none", "words", "hush"}] /\ due' \in [Runs -> SUBSET {"llm_output", "agent_end"}]
    BY <1>1 DEF DeliveryIInv, DeliveryTypeOK
  <2> QED
    BY <1>0, <1>5, <2>1, <2>2 DEF DeliveryIInv, DeliveryTypeOK, hooks, past
<1>8. OneAtATime'
  <2>1. \A s \in Runs : Busy(s)' => Busy(s)
    BY <1>0, <1>2, <1>5 DEF Busy, hooks
  <2> QED
    BY <1>6, <2>1 DEF DeliveryIInv, OneAtATime
<1>9. OfTheEnded'
  BY <1>0, <1>2, <1>4, <1>5 DEF DeliveryIInv, OfTheEnded, DeliveryTypeOK, Deliveries, hooks, past
<1>10. AnswersSettled'
  BY <1>0, <1>2 DEF DeliveryIInv, AnswersSettled, DeliveryTypeOK, Runs, hooks
<1>11. RescueOnRecord'
  BY <1>0, <1>2 DEF DeliveryIInv, RescueOnRecord, DeliveryTypeOK, hooks, past
<1>12. ReportsMet'
  BY <1>0, <1>2, <1>4, <1>5, DeliveryFacts DEF DeliveryIInv, ReportsMet, hooks, past, Runs
<1>13. ShownIsDone'
  <2>1. shown[Words(r)] = 0
    BY <1>0, DeliveryFacts DEF DeliveryIInv, OfTheEnded, DeliveryTypeOK
  <2>2. \A s \in Runs : Words(s) \in road' => s = r
    BY <1>5, DeliveryFacts
  <2> QED
    BY <1>0, <1>2, <2>1, <2>2 DEF DeliveryIInv, ShownIsDone, hooks, past
<1>14. RawReportStaysInside'
  <2>1. shown[Report(r)] = 0
    BY <1>0, DeliveryFacts DEF DeliveryIInv, OfTheEnded, DeliveryTypeOK
  <2> QED
    BY <1>0, <1>2, <2>1 DEF DeliveryIInv, RawReportStaysInside, hooks, past, Runs
<1> QED
  BY <1>7, <1>8, <1>9, <1>10, <1>11, <1>12, <1>13, <1>14 DEF DeliveryIInv

\* The text of the run's end is kept, whether its end was handled before or is yet to be.
LEMMA TextKept ==
    ASSUME DeliveryIInv, NEW r \in Runs, LlmOutput(r)
    PROVE  DeliveryIInv'
<1>0. /\ "llm_output" \in due[r] /\ seen' = [of |-> r, fresh |-> TRUE]
      /\ UNCHANGED <<at, text, road, messaged, toolFlag, pending, silenced, rescue, past>>
      /\ due' = [due EXCEPT ![r] = @ \ {"llm_output"}]
  BY DEF LlmOutput, Ran
<1>1. \A s \in Runs : due'[s] = IF s = r THEN due[s] \ {"llm_output"} ELSE due[s]
  BY <1>0 DEF DeliveryIInv, DeliveryTypeOK
<1>2. /\ seen' # None /\ seen'.of = r /\ seen'.fresh /\ at[r] = "over"
      /\ (pending # None => pending.answer # r) /\ rescue # r
  BY <1>0, RecordFacts DEF DeliveryIInv, OfTheEnded, AnswersSettled, RescueOnRecord
<1>3. DeliveryTypeOK'
  BY <1>0 DEF DeliveryIInv, DeliveryTypeOK, past
<1>4. OneAtATime'
  <2>1. \A s \in Runs : Busy(s)' => Busy(s)
    BY <1>0, <1>1 DEF Busy
  <2> QED
    BY <1>0, <2>1 DEF DeliveryIInv, OneAtATime
<1>5. OfTheEnded'
  BY <1>0, <1>1, <1>2 DEF DeliveryIInv, OfTheEnded, DeliveryTypeOK, past
<1>6. AnswersSettled' /\ RescueOnRecord'
  BY <1>0, <1>1, <1>2 DEF DeliveryIInv, AnswersSettled, RescueOnRecord, DeliveryTypeOK, past, Runs
<1>7. ReportsMet'
  BY <1>0, <1>1, <1>2, DeliveryFacts DEF DeliveryIInv, ReportsMet, past, OneAtATime, Busy, Runs
<1>8. ShownIsDone'
  BY <1>0, <1>1, <1>2 DEF DeliveryIInv, ShownIsDone, past
<1>9. RawReportStaysInside'
  BY <1>0 DEF DeliveryIInv, RawReportStaysInside, past
<1> QED
  BY <1>3, <1>4, <1>5, <1>6, <1>7, <1>8, <1>9 DEF DeliveryIInv

\* The record a run leaves: its answer, or that there is nothing to say.
LEMMA RememberedFacts ==
    ASSUME DeliveryTypeOK, NEW r \in Announce
    PROVE  /\ Remembered(r) \in [answer : {r, None}, self : {FALSE}, timer : BOOLEAN]
           /\ Remembered(r) # None
           /\ Remembered(r).timer => Remembered(r).answer = r
           /\ Remembered(r).answer = r => seen # None /\ seen.of = r
  BY RecordFacts DEF Remembered, Answer, NothingSaid, WroteLast, Runs

\* The end hook puts the answer on record before its delivery can have crossed.
LEMMA EndHookKept ==
    ASSUME DeliveryIInv, NEW r \in Runs, AgentEnd(r)
    PROVE  DeliveryIInv'
<1>0. /\ "agent_end" \in due[r] /\ seen' = None
      /\ UNCHANGED <<at, text, road, messaged, toolFlag, rescue, past>>
      /\ due' = [due EXCEPT ![r] = @ \ {"agent_end"}]
  BY DEF AgentEnd, Ran
<1>1. \A s \in Runs : due'[s] = IF s = r THEN due[s] \ {"agent_end"} ELSE due[s]
  BY <1>0 DEF DeliveryIInv, DeliveryTypeOK
<1>2. \/ r \in Live /\ pending' = pending
      \/ r \in Announce /\ r \in messaged /\ pending' = None
      \/ r \in Announce /\ r \notin messaged /\ pending' = Remembered(r)
  BY DEF AgentEnd, Runs
<1>3. Busy(r) /\ (\A s \in Runs : Busy(s) => s = r) /\ rescue \in {None, r} /\ at[r] = "over"
  <2>1. Busy(r)
    BY <1>0 DEF Busy
  <2> QED
    BY <2>1, <1>0 DEF DeliveryIInv, OneAtATime, Busy, DeliveryTypeOK, OfTheEnded
<1>4. rescue = None
  BY <1>0, <1>3, RecordFacts DEF DeliveryIInv, RescueOnRecord
<1>5. /\ pending' # None => pending'.answer \in Announce \cup {None} /\ pending'.self \in BOOLEAN
      /\ pending' # None /\ pending'.answer # None =>
            \/ pending' = pending /\ pending.answer # r
            \/ pending'.answer = r /\ ~pending'.self /\ seen # None /\ seen.of = r /\ r \notin messaged /\ r \in Announce
      /\ pending' # None /\ pending'.timer => pending'.answer # None /\ ~pending'.self
      /\ pending' \in {None} \cup [answer : Announce \cup {None}, self : BOOLEAN, timer : BOOLEAN]
  <2>1. CASE pending' = pending
    BY <1>0, <2>1, RecordFacts DEF DeliveryIInv, AnswersSettled, DeliveryTypeOK
  <2>2. CASE pending' = None
    BY <2>2
  <2>3. CASE r \in Announce /\ r \notin messaged /\ pending' = Remembered(r)
    <3>1. /\ pending' \in [answer : {r, None}, self : {FALSE}, timer : BOOLEAN]
          /\ pending'.timer => pending'.answer = r
          /\ pending'.answer = r => seen # None /\ seen.of = r
      BY <2>3, RememberedFacts DEF DeliveryIInv
    <3> QED
      BY <2>3, <3>1, RecordFacts DEF Runs
  <2> QED
    BY <1>2, <2>1, <2>2, <2>3
<1>6. DeliveryTypeOK'
  <2>1. silenced' \in Runs \cup {None}
    BY DEF AgentEnd, DeliveryIInv, DeliveryTypeOK
  <2> QED
    BY <1>0, <1>5, <2>1 DEF DeliveryIInv, DeliveryTypeOK, past
<1>7. OneAtATime'
  <2>1. \A s \in Runs : Busy(s)' => Busy(s)
    BY <1>0, <1>1, <1>3, <1>5, RecordFacts DEF Busy
  <2> QED
    BY <1>0, <2>1 DEF DeliveryIInv, OneAtATime
<1>8. OfTheEnded'
  BY <1>0, <1>1 DEF DeliveryIInv, OfTheEnded, DeliveryTypeOK, past
<1>9. AnswersSettled'
  <2>1. seen # None /\ seen.of = r => due'[r] = {}
    BY <1>0, <1>1 DEF DeliveryIInv, DeliveryTypeOK, OfTheEnded
  <2>2. pending # None /\ pending.answer # None => pending.answer \in Runs
    BY DEF DeliveryIInv, DeliveryTypeOK, Runs
  <2> QED
    BY <1>0, <1>1, <1>3, <1>5, <2>1, <2>2 DEF DeliveryIInv, AnswersSettled
<1>10. RescueOnRecord'
  BY <1>0, <1>4 DEF RescueOnRecord
<1>11. ReportsMet'
  <2>1. \A s \in Announce : Report(s) \in road => s = r
    BY <1>3, DeliveryFacts DEF Busy, Runs
  <2>2. r \in Announce \ messaged => pending' # None
    BY <1>2, RememberedFacts, CompletionAssumption DEF DeliveryIInv
  <2>3. "agent_end" \notin due'[r]
    BY <1>1
  <2> QED
    BY <1>0, <2>1, <2>2, <2>3 DEF ReportsMet
<1>12. ShownIsDone'
  <2> SUFFICES ASSUME NEW s \in Runs, s \notin overlapped \cup excused, shown[Words(s)] > 0
               PROVE  /\ shown[Words(s)] = 1
                      /\ "llm_output" \notin due'[s] /\ rescue # s
                      /\ pending' # None /\ pending'.answer = s => pending'.self
                      /\ Words(s) \in road => pending' # None /\ pending'.answer = s
    BY <1>0 DEF ShownIsDone, past
  <2>1. /\ shown[Words(s)] = 1
        /\ "llm_output" \notin due[s] /\ rescue # s
        /\ seen # None /\ seen.of = s => s \notin Announce \ messaged
        /\ pending # None /\ pending.answer = s => pending.self
        /\ Words(s) \in road => pending # None /\ pending.answer = s
    BY DEF DeliveryIInv, ShownIsDone
  <2>2. Words(s) \notin road
    <3>1. Words(s) \in road => s = r
      BY <1>3, DeliveryFacts DEF Busy
    <3> QED
      BY <1>0, <2>1, <3>1, RecordFacts DEF DeliveryIInv, AnswersSettled
  <2>3. pending' # None /\ pending'.answer = s => pending'.self
    BY <1>5, <2>1, RecordFacts
  <2> QED
    BY <1>1, <2>1, <2>2, <2>3
<1>13. RawReportStaysInside'
  BY <1>0 DEF DeliveryIInv, RawReportStaysInside, past
<1> QED
  BY <1>6, <1>7, <1>8, <1>9, <1>10, <1>11, <1>12, <1>13 DEF DeliveryIInv

\* What a delivery that crosses may change: it is off the road, a record or a text may go with it, and
\* words are shown that were not and cannot come again.
LEMMA CrossingKept ==
    ASSUME DeliveryIInv, road' = {}, UNCHANGED <<at, text, due, messaged, rescue>>,
           toolFlag' \in BOOLEAN, silenced' \in Runs \cup {None},
           seen' \in {seen, None}, pending' \in {pending, None},
           pending' = None => rescue = None \/ rescue \in overlapped',
           overlapped \subseteq overlapped', overlapped' \subseteq Runs,
           excused \subseteq excused', excused' \subseteq Runs,
           shown' \in [Deliveries -> Nat],
           \A d \in Deliveries : shown'[d] > 0 => shown[d] > 0 \/ at[d.of] = "over",
           \A r \in Runs \ (overlapped' \cup excused') :
              \/ shown'[Words(r)] = shown[Words(r)]
              \/ /\ shown[Words(r)] = 0 /\ shown'[Words(r)] = 1
                 /\ "llm_output" \notin due[r] /\ rescue # r
                 /\ seen' # None /\ seen'.of = r => r \notin Announce \ messaged
                 /\ pending' # None => pending'.answer # r,
           \A r \in Announce : \/ shown'[Report(r)] = shown[Report(r)]
                               \/ text[r] = "none" \/ r \in messaged \cup excused'
    PROVE  DeliveryIInv'
<1>1. DeliveryTypeOK'
  BY DEF DeliveryIInv, DeliveryTypeOK
<1>2. OneAtATime'
  <2>1. \A s \in Runs : Busy(s)' => Busy(s)
    BY RecordFacts DEF Busy
  <2> QED
    BY <2>1 DEF DeliveryIInv, OneAtATime
<1>3. OfTheEnded'
  BY DEF DeliveryIInv, OfTheEnded
<1>4. AnswersSettled'
  BY DEF DeliveryIInv, AnswersSettled
<1>5. RescueOnRecord'
  BY DEF DeliveryIInv, RescueOnRecord
<1>6. ReportsMet'
  BY DEF ReportsMet
<1>7. ShownIsDone'
  <2> SUFFICES ASSUME NEW r \in Runs, r \notin overlapped' \cup excused', shown'[Words(r)] > 0
               PROVE  /\ shown'[Words(r)] = 1
                      /\ "llm_output" \notin due[r] /\ rescue # r
                      /\ seen' # None /\ seen'.of = r => r \notin Announce \ messaged
                      /\ pending' # None /\ pending'.answer = r => pending'.self
    BY DEF ShownIsDone
  <2>1. CASE shown'[Words(r)] = shown[Words(r)]
    BY <2>1 DEF DeliveryIInv, ShownIsDone
  <2>2. CASE shown'[Words(r)] # shown[Words(r)]
    BY <2>2
  <2> QED
    BY <2>1, <2>2
<1>8. RawReportStaysInside'
  BY DEF DeliveryIInv, RawReportStaysInside
<1> QED
  BY <1>1, <1>2, <1>3, <1>4, <1>5, <1>6, <1>7, <1>8 DEF DeliveryIInv

\* One delivery at a time is on the road, of a run that is over and whose text came first.
LEMMA CrossingFacts ==
    ASSUME DeliveryIInv, NEW d \in Deliveries, Crosses(d)
    PROVE  /\ d \in road /\ road' = {} /\ "llm_output" \notin due[d.of] /\ at[d.of] = "over"
           /\ \A e \in Deliveries : Shows(e) =>
                 /\ shown' \in [Deliveries -> Nat]
                 /\ \A f \in Deliveries : shown'[f] = IF f = e THEN shown[f] + 1 ELSE shown[f]
  BY DEF DeliveryIInv, OneAtATime, OfTheEnded, Crosses, Shows, DeliveryTypeOK

\* A delivery that passes for a tool's is excused.
LEMMA PassingKept ==
    ASSUME DeliveryIInv, NEW d \in Deliveries, PassesForTool(d)
    PROVE  DeliveryIInv'
<1> USE DEF PassesForTool
<1>1. /\ road' = {} /\ at[d.of] = "over" /\ shown' \in [Deliveries -> Nat]
      /\ \A f \in Deliveries : shown'[f] = IF f = d THEN shown[f] + 1 ELSE shown[f]
  BY CrossingFacts
<1>2. \A r \in Runs : d.of # r => Words(r) # d /\ Report(r) # d
  BY DeliveryFacts
<1>3. /\ \A r \in Runs \ (overlapped \cup excused') : shown'[Words(r)] = shown[Words(r)]
      /\ \A r \in Announce : shown'[Report(r)] = shown[Report(r)] \/ r \in excused'
  BY <1>1, <1>2, DeliveryFacts DEF Runs
<1>4. excused' \subseteq Runs /\ overlapped \subseteq Runs /\ silenced \in Runs \cup {None}
  BY DeliveryFacts DEF DeliveryIInv, DeliveryTypeOK
<1>5. pending = None => rescue = None \/ rescue \in overlapped
  BY DEF DeliveryIInv, RescueOnRecord
<1> QED
  BY <1>1, <1>3, <1>4, <1>5, CrossingKept

\* Nothing on record and no text to take over: the record is empty, and the delivery is no report of a
\* run that wrote anything, nor shown before.
LEMMA UndecidedFacts ==
    ASSUME DeliveryIInv, Decision = None
    PROVE  pending = None /\ ~Adoptable
<1>1. pending \in {None} \cup [answer : Announce \cup {None}, self : BOOLEAN, timer : BOOLEAN]
  BY DEF DeliveryIInv, DeliveryTypeOK
<1>2. Adoptable => Adopted # None
  BY RecordFacts DEF Adoptable, Adopted, NothingSaid, Answer, Runs
<1> QED
  BY <1>1, <1>2 DEF Decision

\* What crosses with nothing decided is no report of a run that wrote, and not shown before.
LEMMA UndecidedKept ==
    ASSUME DeliveryIInv, NEW d \in Deliveries, NothingDecided(d)
    PROVE  DeliveryIInv'
<1> USE DEF NothingDecided
<1>0. pending = None /\ ~Adoptable
  BY UndecidedFacts
<1>1. /\ d \in road /\ road' = {} /\ "llm_output" \notin due[d.of] /\ at[d.of] = "over"
      /\ shown' = shown \/ (shown' \in [Deliveries -> Nat]
                            /\ \A f \in Deliveries : shown'[f] = IF f = d THEN shown[f] + 1 ELSE shown[f])
  BY CrossingFacts
<1>2. /\ shown' \in [Deliveries -> Nat] /\ (seen' = seen \/ seen' = None)
      /\ silenced' \in Runs \cup {None}
  BY <1>1 DEF DeliveryIInv, DeliveryTypeOK
<1>3. rescue = None \/ rescue \in overlapped
  BY <1>0 DEF DeliveryIInv, RescueOnRecord
<1>4. ASSUME NEW r \in Runs \ (overlapped \cup excused)
      PROVE  \/ shown'[Words(r)] = shown[Words(r)]
             \/ /\ shown[Words(r)] = 0 /\ shown'[Words(r)] = 1
                /\ "llm_output" \notin due[r] /\ rescue # r
                /\ seen' # None /\ seen'.of = r => r \notin Announce \ messaged
  <2> SUFFICES ASSUME shown'[Words(r)] # shown[Words(r)]
               PROVE  /\ shown[Words(r)] = 0 /\ shown'[Words(r)] = 1
                      /\ "llm_output" \notin due[r] /\ rescue # r
                      /\ seen' # None /\ seen'.of = r => r \notin Announce \ messaged
    OBVIOUS
  <2>1. d = Words(r) /\ d.of = r /\ shown'[d] = shown[d] + 1
    BY <1>1, DeliveryFacts
  <2>2. ~(shown[d] > 0)
    BY <1>0, <1>1, <2>1 DEF DeliveryIInv, ShownIsDone
  <2>3. shown[d] = 0
    BY <2>2 DEF DeliveryIInv, DeliveryTypeOK
  <2>4. seen # None /\ seen.of = r => r \notin Announce \ messaged
    BY <1>0, <1>1, <2>1 DEF DeliveryIInv, ReportsMet, Adoptable
  <2> QED
    BY <1>1, <1>2, <1>3, <2>1, <2>3, <2>4, RecordFacts
<1>5. ASSUME NEW r \in Announce
      PROVE  \/ shown'[Report(r)] = shown[Report(r)]
             \/ text[r] = "none" \/ r \in messaged \cup excused
  <2> SUFFICES ASSUME shown'[Report(r)] # shown[Report(r)], text[r] # "none", r \notin messaged \cup excused
               PROVE  FALSE
    OBVIOUS
  <2>1. d = Report(r) /\ d.of = r
    BY <1>1, DeliveryFacts DEF Runs
  <2>2. "agent_end" \in due[r] /\ seen # None /\ seen.of = r
    BY <1>0, <1>1, <2>1 DEF DeliveryIInv, ReportsMet
  <2> QED
    BY <1>0, <1>1, <2>1, <2>2 DEF DeliveryIInv, ReportsMet, Adoptable
<1>6. \A e \in Deliveries : shown'[e] > 0 => shown[e] > 0 \/ at[e.of] = "over"
  BY <1>1
<1>7. overlapped \subseteq Runs /\ excused \subseteq Runs /\ toolFlag \in BOOLEAN
  BY DEF DeliveryIInv, DeliveryTypeOK
<1> QED
  BY <1>0, <1>1, <1>2, <1>3, <1>4, <1>5, <1>6, <1>7, CrossingKept

\* What a delivery decides on: the record if it says something, else the text of a run just over.
LEMMA DecisionFacts ==
    ASSUME DeliveryIInv, Decision # None
    PROVE  \/ Decision = pending /\ ~TakesSeen
           \/ /\ TakesSeen /\ Adoptable
              /\ Decision.answer \in {None, seen.of} /\ seen.of \in Announce \ messaged
              /\ pending = None \/ pending.answer = None
<1>1. Adoptable => Adopted.answer \in {None, seen.of} /\ seen.of \in Announce \ messaged
  BY DEF Adoptable, Adopted, NothingSaid, Answer
<1> QED
  BY <1>1 DEF Decision, TakesSeen

\* What is kept back shows nothing, and no rescue is under way for it.
LEMMA KeepingBackKept ==
    ASSUME DeliveryIInv, NEW d \in Deliveries, AlreadySent(d) \/ KeptBack(d)
    PROVE  DeliveryIInv'
<1>1. /\ road' = {} /\ UNCHANGED <<at, text, due, messaged, toolFlag, silenced, rescue, shown, excused, overlapped>>
      /\ seen' \in {seen, None}
  BY CrossingFacts DEF AlreadySent, KeptBack, hooks, past
<1>2. pending' \in {pending, None} /\ (pending' = None => rescue = None \/ rescue \in overlapped)
  <2>1. CASE AlreadySent(d)
    BY <2>1 DEF AlreadySent, hooks, DeliveryIInv, RescueOnRecord
  <2>2. CASE KeptBack(d)
    <3>1. pending = None \/ pending.answer = None
      BY <2>2, DecisionFacts DEF KeptBack
    <3> QED
      BY <2>2, <3>1, RecordFacts DEF KeptBack, DeliveryIInv, RescueOnRecord
  <2> QED
    BY <2>1, <2>2
<1>3. /\ overlapped \subseteq Runs /\ excused \subseteq Runs /\ toolFlag \in BOOLEAN
      /\ silenced \in Runs \cup {None} /\ shown \in [Deliveries -> Nat]
  BY DEF DeliveryIInv, DeliveryTypeOK
<1> QED
  BY <1>1, <1>2, <1>3, CrossingKept

\* An answer put in a delivery's place was not shown before, and is on record no more.
LEMMA SubstitutingKept ==
    ASSUME DeliveryIInv, NEW d \in Deliveries, Substituted(d)
    PROVE  DeliveryIInv'
<1> USE DEF Substituted
<1> DEFINE a == Decision.answer
<1>1. /\ a \in Announce /\ at[a] = "over" /\ "llm_output" \notin due[a]
      /\ pending # None /\ pending.answer # None => pending.answer = a
      /\ seen' # None => seen'.of # a
      /\ a \notin overlapped \cup excused => ~(shown[Words(a)] > 0)
  <2>1. CASE Decision = pending /\ ~TakesSeen
    <3>1. a \in Announce /\ pending.answer = a /\ ~pending.self /\ seen' = seen
      BY <2>1, RecordFacts DEF DeliveryIInv, DeliveryTypeOK
    <3> QED
      BY <2>1, <3>1, RecordFacts DEF DeliveryIInv, AnswersSettled, ShownIsDone, Runs
  <2>2. CASE TakesSeen /\ a = seen.of /\ seen.of \in Announce \ messaged
             /\ (pending = None \/ pending.answer = None)
    BY <2>2 DEF DeliveryIInv, OfTheEnded, ShownIsDone, Runs, TakesSeen, Adoptable
  <2> QED
    BY <2>1, <2>2, DecisionFacts
<1> HIDE DEF a
<1>2. a \in Runs /\ Words(a) \in Deliveries /\ Words(a).of = a
  BY <1>1, DeliveryFacts DEF Runs
<1>3. /\ road' = {} /\ shown' \in [Deliveries -> Nat]
      /\ \A f \in Deliveries : shown'[f] = IF f = Words(a) THEN shown[f] + 1 ELSE shown[f]
  BY <1>2, CrossingFacts DEF a
<1>4. /\ pending' = None /\ seen' \in {seen, None}
      /\ overlapped' = IF rescue = a THEN overlapped \cup {rescue} ELSE overlapped
      /\ UNCHANGED <<at, text, due, messaged, toolFlag, silenced, rescue, excused>>
  BY DEF a
<1>5. rescue = None \/ rescue \in overlapped'
  BY <1>1, <1>4, RecordFacts DEF DeliveryIInv, RescueOnRecord
<1>6. /\ overlapped' \subseteq Runs /\ excused \subseteq Runs /\ toolFlag \in BOOLEAN
      /\ silenced \in Runs \cup {None} /\ shown \in [Deliveries -> Nat]
  BY <1>2, <1>4 DEF DeliveryIInv, DeliveryTypeOK
<1>7. \A r \in Runs \ (overlapped' \cup excused) :
        \/ shown'[Words(r)] = shown[Words(r)]
        \/ /\ shown[Words(r)] = 0 /\ shown'[Words(r)] = 1
           /\ "llm_output" \notin due[r] /\ rescue # r
           /\ seen' # None /\ seen'.of = r => r \notin Announce \ messaged
  <2> SUFFICES ASSUME NEW r \in Runs \ (overlapped' \cup excused), shown'[Words(r)] # shown[Words(r)]
               PROVE  /\ shown[Words(r)] = 0 /\ shown'[Words(r)] = 1
                      /\ "llm_output" \notin due[r] /\ rescue # r
                      /\ seen' # None /\ seen'.of = r => r \notin Announce \ messaged
    OBVIOUS
  <2>1. r = a /\ shown'[Words(a)] = shown[Words(a)] + 1
    BY <1>2, <1>3, DeliveryFacts
  <2>2. shown[Words(a)] = 0
    BY <1>1, <1>2, <1>4, <1>6, <2>1
  <2> QED
    BY <1>1, <1>4, <2>1, <2>2
<1>8. /\ \A r \in Announce : shown'[Report(r)] = shown[Report(r)]
      /\ \A f \in Deliveries : shown'[f] > 0 => shown[f] > 0 \/ at[f.of] = "over"
  BY <1>1, <1>2, <1>3, DeliveryFacts DEF Runs
<1> QED
  BY <1>3, <1>4, <1>5, <1>6, <1>7, <1>8, CrossingKept

\* The plugin sends only what is on record and was not sent.
LEMMA TimerKept ==
    ASSUME DeliveryIInv, TimerFires
    PROVE  DeliveryIInv'
<1>0. /\ pending # None /\ pending.timer /\ rescue = None /\ rescue' = pending.answer
      /\ pending \in [answer : Announce \cup {None}, self : BOOLEAN, timer : BOOLEAN]
      /\ pending.answer \in Announce /\ ~pending.self
      /\ UNCHANGED <<at, text, due, road, messaged, toolFlag, seen, silenced, shown, excused, overlapped>>
  BY DEF TimerFires, past, DeliveryIInv, DeliveryTypeOK, AnswersSettled
<1>1. /\ pending' \in [answer : Announce \cup {None}, self : BOOLEAN, timer : BOOLEAN]
      /\ pending'.answer = pending.answer /\ ~pending'.self /\ ~pending'.timer
  BY <1>0 DEF TimerFires
<1>2. pending' # None
  BY <1>1, RecordFacts DEF Runs
<1>3. DeliveryTypeOK'
  BY <1>0, <1>1 DEF DeliveryIInv, DeliveryTypeOK, Runs
<1>4. OneAtATime'
  <2>1. \A s \in Runs : Busy(s)' => Busy(s)
    BY <1>0, <1>1 DEF Busy
  <2> QED
    BY <1>0, <2>1 DEF DeliveryIInv, OneAtATime
<1>5. OfTheEnded' /\ AnswersSettled' /\ RescueOnRecord'
  BY <1>0, <1>1, <1>2 DEF DeliveryIInv, OfTheEnded, AnswersSettled, RescueOnRecord
<1>6. ReportsMet' /\ RawReportStaysInside'
  BY <1>0, <1>2 DEF DeliveryIInv, ReportsMet, RawReportStaysInside
<1>7. ShownIsDone'
  BY <1>0, <1>1, <1>2 DEF DeliveryIInv, ShownIsDone
<1> QED
  BY <1>3, <1>4, <1>5, <1>6, <1>7 DEF DeliveryIInv

\* The answer sent by the plugin is shown, and its record marked to hold back its delivery.
LEMMA RescueKept ==
    ASSUME DeliveryIInv, RescueDone
    PROVE  DeliveryIInv'
<1>0. /\ rescue \in Runs /\ rescue # None /\ rescue' = None /\ Words(rescue) \in Deliveries
      /\ Words(rescue).of = rescue /\ at[rescue] = "over" /\ due[rescue] = {}
      /\ seen # None => seen.of # rescue
      /\ UNCHANGED <<at, text, due, road, messaged, toolFlag, seen, silenced, excused, overlapped>>
  BY DeliveryFacts DEF RescueDone, DeliveryIInv, DeliveryTypeOK, RescueOnRecord
<1>1. /\ shown' \in [Deliveries -> Nat]
      /\ \A f \in Deliveries : shown'[f] = IF f = Words(rescue) THEN shown[f] + 1 ELSE shown[f]
  BY <1>0 DEF RescueDone, Shows, DeliveryIInv, DeliveryTypeOK
<1>2. /\ \A r \in Runs \ {rescue} : shown'[Words(r)] = shown[Words(r)]
      /\ \A r \in Announce : shown'[Report(r)] = shown[Report(r)]
      /\ shown'[Words(rescue)] = shown[Words(rescue)] + 1
  BY <1>0, <1>1, DeliveryFacts DEF Runs
<1>3. /\ pending' \in {None} \cup [answer : Announce \cup {None}, self : BOOLEAN, timer : BOOLEAN]
      /\ pending' = None <=> pending = None
      /\ pending # None => /\ pending'.answer = pending.answer /\ pending'.timer = pending.timer
                           /\ pending'.self = (pending.self \/ pending.answer = rescue)
      /\ pending # None /\ pending.answer = rescue => ~pending.timer
  <2>0. pending \in {None} \cup [answer : Announce \cup {None}, self : BOOLEAN, timer : BOOLEAN]
    BY DEF DeliveryIInv, DeliveryTypeOK
  <2>1. CASE pending # None /\ pending.answer = rescue
    <3>1. pending' \in [answer : Announce \cup {None}, self : BOOLEAN, timer : BOOLEAN]
          /\ pending'.answer = pending.answer /\ pending'.timer = pending.timer /\ pending'.self
      BY <2>0, <2>1 DEF RescueDone, MarkedSent, IsRescued
    <3>2. pending' # None
      BY <3>1, RecordFacts DEF Runs
    <3> QED
      BY <1>0, <2>1, <3>1, <3>2 DEF DeliveryIInv, RescueOnRecord
  <2>2. CASE ~(pending # None /\ pending.answer = rescue)
    BY <2>0, <2>2 DEF RescueDone, MarkedSent, IsRescued
  <2> QED
    BY <2>1, <2>2
<1>4. DeliveryTypeOK'
  BY <1>0, <1>1, <1>3 DEF DeliveryIInv, DeliveryTypeOK
<1>5. OneAtATime'
  <2>1. \A s \in Runs : Busy(s)' => Busy(s)
    BY <1>0, <1>3, RecordFacts DEF Busy
  <2> QED
    BY <1>0, <2>1 DEF DeliveryIInv, OneAtATime
<1>6. OfTheEnded'
  BY <1>0, <1>1 DEF DeliveryIInv, OfTheEnded
<1>7. AnswersSettled'
  BY <1>0, <1>3 DEF DeliveryIInv, AnswersSettled
<1>8. RescueOnRecord'
  BY <1>0 DEF RescueOnRecord
<1>9. ReportsMet' /\ RawReportStaysInside'
  BY <1>0, <1>2, <1>3 DEF DeliveryIInv, ReportsMet, RawReportStaysInside
<1>10. ShownIsDone'
  <2> SUFFICES ASSUME NEW r \in Runs, r \notin overlapped \cup excused, shown'[Words(r)] > 0
               PROVE  /\ shown'[Words(r)] = 1
                      /\ "llm_output" \notin due[r]
                      /\ seen # None /\ seen.of = r => r \notin Announce \ messaged
                      /\ pending' # None /\ pending'.answer = r => pending'.self
                      /\ Words(r) \in road => pending' # None /\ pending'.answer = r
    BY <1>0, RecordFacts DEF ShownIsDone
  <2>1. CASE r = rescue
    <3>1. shown[Words(r)] = 0
      BY <1>0, <2>1 DEF DeliveryIInv, ShownIsDone, DeliveryTypeOK
    <3> QED
      BY <1>0, <1>2, <1>3, <2>1, <3>1 DEF DeliveryIInv, RescueOnRecord
  <2>2. CASE r # rescue
    BY <1>2, <1>3, <2>2 DEF DeliveryIInv, ShownIsDone
  <2> QED
    BY <2>1, <2>2
<1> QED
  BY <1>4, <1>5, <1>6, <1>7, <1>8, <1>9, <1>10 DEF DeliveryIInv

\* A rescue that fails excuses its run.
LEMMA FailedRescueKept ==
    ASSUME DeliveryIInv, RescueFails
    PROVE  DeliveryIInv'
<1>0. /\ rescue \in Runs /\ rescue # None /\ rescue' = None /\ pending' = None
      /\ excused' = excused \cup {rescue}
      /\ UNCHANGED <<at, text, due, road, messaged, toolFlag, seen, silenced, shown, overlapped>>
  BY DEF RescueFails, DeliveryIInv, DeliveryTypeOK
<1>1. DeliveryTypeOK'
  BY <1>0 DEF DeliveryIInv, DeliveryTypeOK
<1>2. OneAtATime'
  <2>1. \A s \in Runs : Busy(s)' => Busy(s)
    BY <1>0, RecordFacts DEF Busy
  <2> QED
    BY <1>0, <2>1 DEF DeliveryIInv, OneAtATime
<1>3. OfTheEnded' /\ AnswersSettled' /\ RescueOnRecord' /\ RawReportStaysInside'
  BY <1>0 DEF DeliveryIInv, OfTheEnded, AnswersSettled, RescueOnRecord, RawReportStaysInside
<1>4. \A d \in road : d.of = rescue
  BY <1>0 DEF DeliveryIInv, OneAtATime, Busy, DeliveryTypeOK, Deliveries
<1>5. ReportsMet'
  BY <1>0, <1>4, DeliveryFacts DEF DeliveryIInv, ReportsMet, Runs
<1>6. ShownIsDone'
  <2>1. \A r \in Runs : Words(r) \in road => r = rescue
    BY <1>4, DeliveryFacts
  <2> QED
    BY <1>0, <2>1, RecordFacts DEF DeliveryIInv, ShownIsDone
<1> QED
  BY <1>1, <1>2, <1>3, <1>5, <1>6 DEF DeliveryIInv

\* A window that is over: the record, the text, the silence or the flag goes, or the text grows old.
LEMMA WindowsKept ==
    ASSUME DeliveryIInv, PendingExpires \/ SeenAges \/ SilenceExpires \/ FlagExpires \/ UNCHANGED deliveryVars
    PROVE  DeliveryIInv'
<1>0. /\ UNCHANGED <<at, text, due, road, messaged, rescue, shown, excused, overlapped>>
      /\ toolFlag' \in BOOLEAN /\ silenced' \in Runs \cup {None}
  BY DEF PendingExpires, SeenAges, SilenceExpires, FlagExpires, deliveryVars, hooks, past,
     DeliveryIInv,
     DeliveryTypeOK
<1>1. pending' = pending \/ (pending' = None /\ rescue = None /\ road = {})
  BY DEF PendingExpires, SeenAges, SilenceExpires, FlagExpires, deliveryVars, hooks
<1>2. \/ seen' \in {seen, None}
      \/ /\ road = {} /\ seen # None /\ seen' # None /\ seen'.of = seen.of
         /\ seen' \in [of : Runs, fresh : BOOLEAN]
  <2>1. CASE SeenAges
    <3>1. seen # None /\ seen \in [of : Runs, fresh : BOOLEAN] /\ road = {}
      BY <2>1 DEF SeenAges, DeliveryIInv, DeliveryTypeOK
    <3>2. CASE seen.fresh
      <4>1. seen' = [seen EXCEPT !.fresh = FALSE]
        BY <2>1, <3>2 DEF SeenAges
      <4>2. seen' \in [of : Runs, fresh : BOOLEAN] /\ seen'.of = seen.of
        BY <3>1, <4>1
      <4> QED
        BY <3>1, <4>2, RecordFacts
    <3> QED
      BY <2>1, <3>2 DEF SeenAges
  <2> QED
    BY <2>1 DEF PendingExpires, SilenceExpires, FlagExpires, deliveryVars, hooks
<1>3. DeliveryTypeOK'
  BY <1>0, <1>1, <1>2 DEF DeliveryIInv, DeliveryTypeOK
<1>4. OneAtATime'
  <2>1. \A s \in Runs : Busy(s)' => Busy(s)
    BY <1>0, <1>1 DEF Busy
  <2> QED
    BY <1>0, <2>1 DEF DeliveryIInv, OneAtATime
<1>5. OfTheEnded' /\ AnswersSettled' /\ RescueOnRecord'
  BY <1>0, <1>1, <1>2 DEF DeliveryIInv, OfTheEnded, AnswersSettled, RescueOnRecord
<1>6. ReportsMet'
  <2>1. CASE road = {}
    BY <1>0, <2>1 DEF ReportsMet
  <2>2. CASE road # {}
    <3>1. pending' = pending /\ UNCHANGED seen
      BY <1>1, <2>2 DEF PendingExpires, SeenAges, SilenceExpires, FlagExpires, deliveryVars, hooks
    <3> QED
      BY <1>0, <3>1 DEF DeliveryIInv, ReportsMet
  <2> QED
    BY <2>1, <2>2
<1>7. ShownIsDone' /\ RawReportStaysInside'
  BY <1>0, <1>1, <1>2 DEF DeliveryIInv, ShownIsDone, RawReportStaysInside
<1> QED
  BY <1>3, <1>4, <1>5, <1>6, <1>7 DEF DeliveryIInv

\* The invariant holds from the start and is kept by every step.
LEMMA DeliveryKept ==
    /\ DeliveryInit => DeliveryIInv
    /\ DeliveryIInv /\ [DeliveryNext]_deliveryVars => DeliveryIInv'
<1>1. ASSUME DeliveryInit PROVE DeliveryIInv
  <2>1. DeliveryTypeOK
    BY <1>1 DEF DeliveryInit, DeliveryTypeOK
  <2>2. /\ \A r \in Runs : ~Busy(r)
        /\ \A r \in Runs : shown[Words(r)] = 0 /\ shown[Report(r)] = 0
        /\ \A d \in Deliveries : shown[d] = 0
    BY <1>1, RecordFacts, DeliveryFacts DEF DeliveryInit, Busy
  <2> QED
    BY <1>1, <2>1, <2>2 DEF DeliveryInit, DeliveryIInv, OneAtATime, OfTheEnded, AnswersSettled,
       RescueOnRecord, ReportsMet, ShownIsDone, RawReportStaysInside, Runs
<1>2. ASSUME DeliveryIInv, [DeliveryNext]_deliveryVars PROVE DeliveryIInv'
  BY <1>2, BeginningKept, ToolCallKept, EndingKept, TextKept, EndHookKept, PassingKept,
     UndecidedKept,
     KeepingBackKept, SubstitutingKept, TimerKept, RescueKept, FailedRescueKept, WindowsKept
     DEF DeliveryNext
<1> QED
  BY <1>1, <1>2

\* Of a run that wrote anything the specialist's raw report is shown only if it spoke for itself, or a
\* tool's flag or a failed rescue send let it through.
THEOREM ReportsStayInside == DeliverySpec => []RawReportStaysInside
<1>1. DeliveryIInv => RawReportStaysInside
  BY DEF DeliveryIInv
<1> QED
  BY <1>1, DeliveryKept, PTL DEF DeliverySpec

\* Whoever sends an answer, it is shown once, unless two had it in hand at the same time.
THEOREM AnswersOnce == DeliverySpec => []AnswerShownOnce
<1>1. ASSUME DeliveryIInv PROVE AnswerShownOnce
  <2> SUFFICES ASSUME NEW r \in Runs \ (overlapped \cup excused) PROVE shown[Words(r)] <= 1
    BY DEF AnswerShownOnce
  <2>1. shown[Words(r)] \in Nat
    BY <1>1, DeliveryFacts DEF DeliveryIInv, DeliveryTypeOK
  <2>2. shown[Words(r)] > 0 => shown[Words(r)] = 1
    BY <1>1 DEF DeliveryIInv, ShownIsDone
  <2> QED
    BY <2>1, <2>2
<1> QED
  BY <1>1, DeliveryKept, PTL DEF DeliverySpec

-----------------------------------------------------------------------------
(* ThinkingStream.                                                         *)

\* Consecutive pieces are a sequence of numbers, and this is how many there are.
LEMMA StretchIs ==
  ASSUME NEW a \in Nat, NEW b \in Nat
  PROVE  /\ Stretch(a, b) \in Seq(Nat)
         /\ Len(Stretch(a, b)) = IF a <= b THEN b - a ELSE 0
         /\ \A i \in 1..(b - a) : Stretch(a, b)[i] = a + i
  <1> DEFINE n == IF a <= b THEN b - a ELSE 0
  <1>1. n \in Nat /\ 1..(b - a) = 1..n  OBVIOUS
  <1>2. Stretch(a, b) \in [1..n -> Nat]  BY <1>1 DEF Stretch
  <1> HIDE DEF n
  <1>3. Stretch(a, b) \in Seq(Nat) /\ Len(Stretch(a, b)) = n  BY <1>1, <1>2
  <1> QED BY <1>3 DEF n, Stretch

\* A post says each of its pieces once.
LEMMA SaidOnce ==
  ASSUME NEW a \in Nat, NEW b \in Nat, NEW p \in Nat
  PROVE  Cardinality({i \in DOMAIN Stretch(a, b) : Stretch(a, b)[i] = p})
           = IF a < p /\ p <= b THEN 1 ELSE 0
  <1>1. {i \in DOMAIN Stretch(a, b) : Stretch(a, b)[i] = p} = IF a < p /\ p <= b THEN {p - a} ELSE {}
    BY DEF Stretch
  <1> QED BY <1>1, FS_Singleton, FS_EmptySet

\* The two halves of a stretch.
LEMMA StretchCut ==
  ASSUME NEW a \in Nat, NEW b \in Nat, a <= b, NEW n \in 0..(b - a)
  PROVE  /\ SubSeq(Stretch(a, b), 1, n) = Stretch(a, a + n)
         /\ SubSeq(Stretch(a, b), n + 1, b - a) = Stretch(a + n, b)
  <1>1. SubSeq(Stretch(a, b), 1, n) = [i \in 1..n |-> a + i]
    BY StretchIs DEF Stretch
  <1>2. SubSeq(Stretch(a, b), n + 1, b - a) = [i \in 1..(b - a - n) |-> Stretch(a, b)[n + i]]
    BY StretchIs
  <1>3. \A i \in 1..(b - a - n) : Stretch(a, b)[n + i] = a + n + i
    BY StretchIs
  <1>4. (a + n) - a = n /\ b - (a + n) = b - a - n  OBVIOUS
  <1> QED BY <1>1, <1>2, <1>3, <1>4 DEF Stretch

\* One more piece.
LEMMA StretchGrows ==
  ASSUME NEW a \in Nat, NEW b \in Nat, a <= b
  PROVE  Stretch(a, b) \o Stretch(b, b + 1) = Stretch(a, b + 1)
  <1> DEFINE s == Stretch(a, b)  t == Stretch(b, b + 1)  n == b - a
  <1>1. /\ n \in Nat /\ b + 1 \in Nat /\ (b + 1) - a = n + 1 /\ (b + 1) - b = 1
        /\ a <= b + 1 /\ b <= b + 1
    OBVIOUS
  <1>2. s \in Seq(Nat) /\ Len(s) = n /\ \A i \in 1..n : s[i] = a + i
    BY <1>1, StretchIs
  <1>3. t \in Seq(Nat) /\ Len(t) = 1 /\ t[1] = a + (n + 1)
    <2>1. t \in Seq(Nat) /\ Len(t) = 1  BY <1>1, StretchIs
    <2>2. t[1] = b + 1  BY <1>1 DEF Stretch
    <2> QED BY <2>1, <2>2
  <1> HIDE DEF s, t, n
  <1>5. /\ s \o t \in Seq(Nat) /\ Len(s \o t) = Len(s) + Len(t)
        /\ \A i \in 1..(Len(s) + Len(t)) : (s \o t)[i] = IF i <= Len(s) THEN s[i] ELSE t[i - Len(s)]
    BY <1>2, <1>3, ConcatProperties, Zenon
  <1>6. Len(s \o t) = n + 1 /\ \A i \in 1..(n + 1) : (s \o t)[i] = a + i
    BY <1>1, <1>2, <1>3, <1>5
  <1>7. /\ Stretch(a, b + 1) \in Seq(Nat) /\ Len(Stretch(a, b + 1)) = n + 1
        /\ \A i \in 1..(n + 1) : Stretch(a, b + 1)[i] = a + i
    BY <1>1, StretchIs
  <1>8. s \o t = Stretch(a, b + 1)
    <2>1. \A i \in 1..Len(s \o t) : (s \o t)[i] = Stretch(a, b + 1)[i]
      BY <1>6, <1>7
    <2> QED BY <2>1, <1>5, <1>6, <1>7, SeqEqual, Zenon
  <1> QED BY <1>8 DEF s, t

\* What an event brings is read from what was written.
LEMMA UnseenIs ==
  ASSUME NEW written \in Seq(Nat), written # <<>>
  PROVE  Unseen(written) \in Seq(Nat)
  <1> DEFINE same == {p \in DOMAIN written : written[p] = Last(written)}
             new == IF shape = "delta" THEN {Len(written)} ELSE {p \in same : p > prior}
  <1>1. Len(written) \in Nat \ {0} /\ DOMAIN written = 1..Len(written)  OBVIOUS
  <1>2. Cardinality(new) \in Nat
    <2>1. IsFiniteSet(1..Len(written))  BY <1>1, FS_Interval
    <2>2. IsFiniteSet({p \in same : p > prior})  BY <1>1, <2>1, FS_Subset
    <2>3. IsFiniteSet(new)  BY <2>2, FS_Singleton
    <2> QED BY <2>3, FS_CardinalityType
  <1>3. Len(written) - Cardinality(new) \in Nat
    <2>1. IsFiniteSet(1..Len(written)) /\ Cardinality(1..Len(written)) = Len(written)
      BY <1>1, FS_Interval
    <2>2. new \subseteq 1..Len(written)  BY <1>1
    <2>3. Cardinality(new) <= Len(written)  BY <2>1, <2>2, FS_Subset
    <2> HIDE DEF new
    <2> QED BY <2>3, <1>1, <1>2
  <1>4. Unseen(written) = Stretch(Len(written) - Cardinality(new), Len(written))
    BY DEF Unseen
  <1> HIDE DEF new
  <1> QED BY StretchIs, <1>1, <1>3, <1>4

\* A run that was followed all along: the event brings the piece just thought.
LEMMA UnseenIsLast ==
  ASSUME NEW before \in Seq(Nat), NEW r, NEW written, written = Append(before, r),
         r \in Nat, shape = "text" => prior = Len(before), shape \in Shapes, shape # "nothing"
  PROVE  Unseen(written) = Stretch(Len(before), Len(before) + 1)
  <1> DEFINE same == {p \in DOMAIN written : written[p] = Last(written)}
             new == IF shape = "delta" THEN {Len(written)} ELSE {p \in same : p > prior}
  <1>1. Len(written) = Len(before) + 1 /\ DOMAIN written = 1..Len(written) /\ Len(before) \in Nat
    OBVIOUS
  <1>2. Last(written) = written[Len(written)]  BY DEF Last
  <1>3. new = {Len(written)}
    BY <1>1, <1>2 DEF Shapes
  <1>4. Cardinality(new) = 1  BY <1>3, FS_Singleton
  <1>5. Unseen(written) = Stretch(Len(written) - Cardinality(new), Len(written))
    BY DEF Unseen
  <1> HIDE DEF new
  <1> QED BY <1>1, <1>4, <1>5

\* PostedTyped part of what is held, and keeping the rest.
LEMMA PostedTyped ==
  ASSUME chain \in Seq(Seq(Nat)), NEW held \in Seq(Nat), NEW n \in 0..Len(held)
  PROVE  /\ Posted(held, n) \in Seq(Seq(Nat))
         /\ SubSeq(held, n + 1, Len(held)) \in Seq(Nat)
  BY DEF Posted

\* What onThinking writes has the types of what it read.
LEMMA OnThinkingTyped ==
  ASSUME ThinkingTyped, NEW written \in Seq(Nat), written # <<>>, OnThinking(written)
  PROVE  prior' \in Nat /\ chain' \in Seq(Seq(Nat)) /\ buf' \in Seq(Nat)
  <1>1. CASE ~Follows
    BY <1>1 DEF OnThinking, ThinkingTyped
  <1>2. CASE Follows
    <2> DEFINE held == buf \o Unseen(written)
    <2>1. held \in Seq(Nat)  BY UnseenIs DEF ThinkingTyped
    <2>2. prior' \in Nat  BY <1>2 DEF OnThinking, ThinkingTyped
    <2>3. PICK n \in 0..Len(held) : chain' = Posted(held, n) /\ buf' = SubSeq(held, n + 1, Len(held))
      BY <1>2 DEF OnThinking
    <2> HIDE DEF held
    <2> QED BY <2>1, <2>2, <2>3, PostedTyped DEF ThinkingTyped
  <1> QED BY <1>1, <1>2

\* So has what finishing a turn leaves.
LEMMA FinishTyped ==
  ASSUME ThinkingTyped, FinishStreamed
  PROVE  chain' \in Seq(Seq(Nat)) /\ buf' \in Seq(Nat)
  <1>1. Len(buf) \in 0..Len(buf) /\ buf \in Seq(Nat) /\ chain \in Seq(Seq(Nat))
    BY DEF ThinkingTyped
  <1>2. Posted(buf, Len(buf)) \in Seq(Seq(Nat))
    BY <1>1, PostedTyped
  <1>3. CASE "live" \in marks  BY <1>2, <1>3 DEF FinishStreamed
  <1>4. CASE "live" \notin marks  BY <1>1, <1>4 DEF FinishStreamed
  <1> QED BY <1>3, <1>4

\* The rounds still to be relayed are numbers.
LEMMA RoundIs ==
  ASSUME ThinkingTyped
  PROVE  Round \in Nat
  <1>1. Len(rounds) \in Nat /\ rounds \in Seq(Nat)  BY DEF ThinkingTyped
  <1>2. CASE Len(rounds) = 0  BY <1>2 DEF Round, Written
  <1>3. CASE Len(rounds) # 0
    <2>1. rounds[Len(rounds)] \in Nat  BY <1>1, <1>3
    <2> QED BY <2>1, <1>3 DEF Round, Last, Written
  <1> QED BY <1>2, <1>3

\* Every step keeps the types.
LEMMA ThinkingTypes ==
  ASSUME ThinkingTyped, [ThinkingNext]_thinkVars
  PROVE  ThinkingTyped'
  <1> USE DEF Written
  <1>1. ASSUME NEW s \in {"own", "parent"}, SpawnHook(s)  PROVE ThinkingTyped'
    BY <1>1 DEF SpawnHook, ThinkingTyped, engine, posts
  <1>2. CASE PostsThought
    <2>1. \A p \in Pieces : Says(p) \in Nat
      <3> TAKE p \in Pieces
      <3>1. Head(chain) \in Seq(Nat)  BY <1>2 DEF PostsThought, ThinkingTyped
      <3>2. IsFiniteSet(1..Len(Head(chain)))  BY <3>1, FS_Interval
      <3> QED BY <3>1, <3>2, FS_Subset, FS_CardinalityType DEF Says
    <2>2. told' \in [Pieces -> Nat]
      <3>1. told \in [Pieces -> Nat]  BY DEF ThinkingTyped
      <3>2. told' = told \/ told' = [p \in Pieces |-> told[p] + Says(p)]
        BY <1>2 DEF PostsThought
      <3> QED BY <2>1, <3>1, <3>2
    <2>3. chain' \in Seq(Seq(Nat))
      <3>1. chain \in Seq(Seq(Nat)) /\ chain # <<>> /\ chain' = Tail(chain)
        BY <1>2 DEF PostsThought, AfterFailure, ThinkingTyped
      <3> QED BY <3>1
    <2>4. missed' \subseteq Pieces  BY <1>2 DEF PostsThought, ThinkingTyped
    <2> QED BY <2>2, <2>3, <2>4, <1>2 DEF PostsThought, ThinkingTyped, engine, bookkeeping
  <1>3. CASE ClosesStreamTurn
    BY <1>3 DEF ClosesStreamTurn, ThinkingTyped, engine, bookkeeping
  <1>4. CASE Sweeps
    BY <1>4 DEF Sweeps, ThinkingTyped, engine, posts
  <1>5. CASE Begins
    BY <1>5 DEF Begins, ThinkingTyped, posts
  <1>6. CASE Thinks
    <2> DEFINE written == Append(rounds, IF newRound THEN Round + 1 ELSE Round)
    <2>1. Round \in Nat  BY RoundIs
    <2>2. written \in Seq(Nat) /\ written # <<>> /\ Len(written) = Written + 1
      <3>1. PICK k \in Nat : k = IF newRound THEN Round + 1 ELSE Round  BY <2>1
      <3>2. rounds \in Seq(Nat)  BY DEF ThinkingTyped
      <3>3. written = Append(rounds, k)  BY <3>1
      <3> HIDE DEF written
      <3> QED BY <3>2, <3>3
    <2>3. rounds' = written  BY <1>6 DEF Thinks
    <2>4. prior' \in Nat /\ chain' \in Seq(Seq(Nat)) /\ buf' \in Seq(Nat)
      <3>1. CASE shape = "nothing"  BY <3>1, <1>6 DEF Thinks, ThinkingTyped
      <3>2. CASE shape # "nothing"
        <4>1. OnThinking(written)  BY <3>2, <1>6 DEF Thinks
        <4> HIDE DEF written
        <4> QED BY <4>1, <2>2, OnThinkingTyped
      <3> QED BY <3>1, <3>2
    <2> HIDE DEF written
    <2> QED BY <2>2, <2>3, <2>4, <1>6, ThinkingAssumption DEF Thinks, ThinkingTyped
  <1>7. CASE ThinksNoMore
    <2>1. rounds \in Seq(Nat) /\ rounds # <<>> /\ OnThinking(rounds)
      BY <1>7 DEF ThinksNoMore, ThinkingTyped
    <2>2. prior' \in Nat /\ chain' \in Seq(Seq(Nat)) /\ buf' \in Seq(Nat)
      BY <2>1, OnThinkingTyped
    <2> QED BY <2>2, <1>7 DEF ThinksNoMore, ThinkingTyped
  <1>8. CASE AttemptEnds
    <2>1. attempt' \in Attempts /\ shape' \in Shapes
      BY <1>8, ThinkingAssumption DEF AttemptEnds, ThinkingTyped, Attempts
    <2>2. ends' \subseteq [attempt : Attempts, upto : 0..Len(rounds), silent : BOOLEAN]
      BY <1>8 DEF AttemptEnds, ThinkingTyped
    <2> QED BY <2>1, <2>2, <1>8 DEF AttemptEnds, ThinkingTyped, bookkeeping, posts
  <1>9. CASE IsAbandoned
    BY <1>9 DEF IsAbandoned, ThinkingTyped, bookkeeping
  <1>10. CASE LifecycleEnds
    BY <1>10, FinishTyped DEF LifecycleEnds, ThinkingTyped
  <1>11. ASSUME NEW e \in ends, AgentEndOfStreamed(e)  PROVE ThinkingTyped'
    BY <1>11, FinishTyped DEF AgentEndOfStreamed, ThinkingTyped
  <1>12. ASSUME NEW e \in ends, AgentEndRelays(e)  PROVE ThinkingTyped'
    <2>1. Unreported(e) \subseteq Nat
      BY DEF ThinkingTyped, Unreported
    <2>2. relays' \in [Attempts -> [left : SUBSET Nat, turn : {"none", "open", "closed"}]]
      BY <2>1, <1>12 DEF AgentEndRelays, ThinkingTyped
    <2> QED BY <2>2, <1>12 DEF AgentEndRelays, ThinkingTyped, bookkeeping
  <1>13. ASSUME NEW a \in Attempts, RelayPosts(a)  PROVE ThinkingTyped'
    <2>1. relays' \in [Attempts -> [left : SUBSET Nat, turn : {"none", "open", "closed"}]]
      BY <1>13 DEF RelayPosts, ThinkingTyped
    <2>2. told' \in [Pieces -> Nat]
      <3>1. told \in [Pieces -> Nat]  BY DEF ThinkingTyped
      <3>2. told' = told \/ \E r : told' = [p \in Pieces |-> IF p <= Written /\ rounds[p] = r
                                                          THEN told[p] + 1 ELSE told[p]]
        BY <1>13 DEF RelayPosts
      <3> QED BY <3>1, <3>2
    <2>3. missed' \subseteq Pieces
      BY <1>13, ThinkingAssumption DEF RelayPosts, ThinkingTyped, Pieces
    <2> QED BY <2>1, <2>2, <2>3, <1>13 DEF RelayPosts, ThinkingTyped, engine, bookkeeping
  <1>14. ASSUME NEW a \in Attempts, RelayCloses(a)  PROVE ThinkingTyped'
    <2>1. relays' \in [Attempts -> [left : SUBSET Nat, turn : {"none", "open", "closed"}]]
      BY <1>14 DEF RelayCloses, ThinkingTyped
    <2> QED BY <2>1, <1>14 DEF RelayCloses, ThinkingTyped, engine, bookkeeping
  <1>15. CASE UNCHANGED thinkVars
    BY <1>15 DEF thinkVars, engine, bookkeeping, posts, ThinkingTyped
  <1> QED
    BY <1>1, <1>2, <1>3, <1>4, <1>5, <1>6, <1>7, <1>8, <1>9, <1>10, <1>11, <1>12, <1>13, <1>14,
       <1>15 DEF ThinkingNext

\* PostedTyped keeps everything in order, also when a piece was just added.
LEMMA LaidOutPosts ==
  ASSUME ThinkingTyped, NEW cut \in [0..Len(chain) -> 0..Written], LaidOut(cut),
         NEW top \in Nat, Written <= top, Written' = top, UNCHANGED <<told, missed>>,
         NEW held, held = Stretch(cut[Len(chain)], top), NEW n \in 0..Len(held),
         chain' = Posted(held, n), buf' = SubSeq(held, n + 1, Len(held))
  PROVE  \E c \in [0..Len(chain') -> 0..Written'] : LaidOut(c)'
  <1>0. PICK L \in Nat : L = Len(chain)
    BY DEF ThinkingTyped
  <1> DEFINE b == cut[L]
  <1>1. /\ b \in Nat /\ b <= top /\ Written \in Nat /\ chain \in Seq(Seq(Nat))
        /\ held = Stretch(b, top)
    <2>1. Written \in Nat /\ chain \in Seq(Seq(Nat))  BY DEF ThinkingTyped, Written
    <2>2. b \in 0..Written  BY <1>0
    <2> QED BY <1>0, <2>1, <2>2
  <1>2. Len(held) = top - b
    BY <1>1, StretchIs
  <1>3. SubSeq(held, 1, n) = Stretch(b, b + n) /\ buf' = Stretch(b + n, top)
    <2>1. n \in 0..(top - b)  BY <1>2
    <2> HIDE DEF b
    <2>2. /\ SubSeq(Stretch(b, top), 1, n) = Stretch(b, b + n)
          /\ SubSeq(Stretch(b, top), n + 1, top - b) = Stretch(b + n, top)
      BY <1>1, <2>1, StretchCut
    <2> QED BY <1>1, <1>2, <2>2
  <1>4. CASE n = 0
    <2>1. chain' = chain /\ buf' = Stretch(b, top)
      BY <1>1, <1>3, <1>4 DEF Posted
    <2>2. cut \in [0..Len(chain') -> 0..Written']
      BY <2>1, <1>1
    <2>3. LaidOut(cut)'
      BY <2>1, <1>0 DEF LaidOut
    <2> QED BY <2>2, <2>3
  <1>5. CASE n # 0
    <2> DEFINE c == [i \in 0..(L + 1) |-> IF i <= L THEN cut[i] ELSE b + n]
    <2>1. chain' = Append(chain, Stretch(b, b + n))
      BY <1>3, <1>5 DEF Posted
    <2>2. Len(chain') = L + 1 /\ chain'[L + 1] = Stretch(b, b + n)
      BY <2>1, <1>0, <1>1
    <2>3. \A i \in 1..L : chain'[i] = chain[i]
      BY <2>1, <1>0, <1>1
    <2>4. b + n \in 0..top  BY <1>1, <1>2
    <2>5. c \in [0..Len(chain') -> 0..Written']
      <3>1. 0..Written' = 0..top /\ 0..Len(chain') = 0..(L + 1)  BY <2>2
      <3>2. \A i \in 0..L : cut[i] \in 0..top  BY <1>0, <1>1
      <3> HIDE DEF b
      <3> QED BY <2>4, <3>1, <3>2
    <2>6. c[L + 1] = b + n /\ \A i \in 0..L : c[i] = cut[i]
      BY <1>1
    <2> HIDE DEF c
    <2>7. \A i \in 1..(L + 1) : c[i - 1] <= c[i] /\ chain'[i] = Stretch(c[i - 1], c[i])
      <3> TAKE i \in 1..(L + 1)
      <3>1. CASE i = L + 1
        <4>1. c[i - 1] = b  BY <3>1, <2>6, <1>1
        <4> QED BY <3>1, <4>1, <2>2, <2>6, <1>1
      <3>2. CASE i # L + 1
        <4>1. i \in 1..L /\ i - 1 \in 0..L /\ i \in 0..L  BY <3>2, <1>1
        <4> QED BY <4>1, <2>3, <2>6, <1>0 DEF LaidOut
      <3> QED BY <3>1, <3>2
    <2>8. c[0] = cut[0]  BY <2>6, <1>1
    <2>9. LaidOut(c)'
      BY <2>2, <2>6, <2>7, <2>8, <1>3 DEF LaidOut
    <2> QED BY <2>5, <2>9
  <1> QED BY <1>4, <1>5

\* The first post goes out, or fails: it was the next in order.
LEMMA LaidOutTold ==
  ASSUME ThinkingTyped, NEW cut \in [0..Len(chain) -> 0..Written], LaidOut(cut),
         chain # <<>>, chain' = Tail(chain), buf' = buf, Written' = Written,
         \/ /\ told' = [p \in Pieces |-> told[p] + Says(p)]
            /\ missed' = missed
         \/ /\ told' = told
            /\ missed' = missed \cup {p \in Pieces : Says(p) > 0}
  PROVE  \E c \in [0..Len(chain') -> 0..Written'] : LaidOut(c)'
  <1>0. PICK L \in Nat : L = Len(chain)
    <2>1. Len(chain) \in Nat  BY DEF ThinkingTyped
    <2> QED BY <2>1
  <1> DEFINE c == [i \in 0..(L - 1) |-> cut[i + 1]]
  <1>1. L \in Nat \ {0} /\ Written \in Nat /\ chain \in Seq(Seq(Nat))
    BY <1>0 DEF ThinkingTyped, Written
  <1>2. Len(chain') = L - 1 /\ \A i \in 1..(L - 1) : chain'[i] = chain[i + 1]
    BY <1>0, <1>1
  <1>3. c \in [0..Len(chain') -> 0..Written']
    BY <1>0, <1>1, <1>2
  <1>4. \A i \in 0..(L - 1) : c[i] = cut[i + 1]
    OBVIOUS
  <1>5. c[0] = cut[1] /\ c[L - 1] = cut[L]
    BY <1>1
  <1> HIDE DEF c
  <1>6. \A i \in 1..(L - 1) : c[i - 1] <= c[i] /\ chain'[i] = Stretch(c[i - 1], c[i])
    <2> TAKE i \in 1..(L - 1)
    <2>1. i + 1 \in 1..L /\ (i + 1) - 1 = i /\ i - 1 \in 0..(L - 1) /\ i \in 0..(L - 1)
      BY <1>1
    <2>2. c[i - 1] = cut[i] /\ c[i] = cut[i + 1]
      BY <1>4, <2>1
    <2>3. cut[(i + 1) - 1] <= cut[i + 1] /\ chain[i + 1] = Stretch(cut[(i + 1) - 1], cut[i + 1])
      BY <2>1, <1>0 DEF LaidOut
    <2> QED BY <1>2, <2>1, <2>2, <2>3
  <1>7. Head(chain) = Stretch(cut[0], cut[1]) /\ cut[0] <= cut[1] /\ cut[0] \in Nat /\ cut[1] \in Nat
    <2>1. 1 \in 1..L /\ 1 - 1 = 0  BY <1>1
    <2>2. cut[0] <= cut[1] /\ chain[1] = Stretch(cut[0], cut[1])
      BY <2>1, <1>0 DEF LaidOut
    <2>3. 0 \in 0..Len(chain) /\ 1 \in 0..Len(chain)  BY <1>0, <1>1
    <2>4. cut[0] \in 0..Written /\ cut[1] \in 0..Written  BY <2>3
    <2> QED BY <2>2, <2>4, <1>0, <1>1
  <1>8. \A p \in Pieces : Says(p) = IF cut[0] < p /\ p <= cut[1] THEN 1 ELSE 0
    <2> TAKE p \in Pieces
    <2>1. p \in Nat  BY ThinkingAssumption DEF Pieces
    <2> QED BY <2>1, <1>7, SaidOnce DEF Says
  <1>10. missed \subseteq Pieces /\ Pieces \subseteq Nat /\ \A p \in missed : p <= cut[0]
    BY ThinkingAssumption DEF Pieces, LaidOut, ThinkingTyped
  <1>11. \A p \in Pieces : told'[p] = IF p <= c[0] /\ p \notin missed' THEN 1 ELSE 0
    <2> TAKE p \in Pieces
    <2>1. p \in Nat  BY <1>10
    <2>2. told[p] = IF p <= cut[0] /\ p \notin missed THEN 1 ELSE 0  BY DEF LaidOut
    <2>3. CASE told' = [q \in Pieces |-> told[q] + Says(q)] /\ missed' = missed
      <3>1. told'[p] = told[p] + Says(p)  BY <2>3
      <3>2. p \in missed => p <= cut[0]  BY <1>10
      <3> QED BY <2>1, <2>2, <2>3, <3>1, <3>2, <1>5, <1>7, <1>8
    <2>4. CASE told' = told /\ missed' = missed \cup {q \in Pieces : Says(q) > 0}
      <3>1. p \in missed' <=> p \in missed \/ (cut[0] < p /\ p <= cut[1])  BY <2>4, <1>8
      <3> QED BY <2>1, <2>2, <2>4, <3>1, <1>5, <1>7
    <2> QED BY <2>3, <2>4
  <1>12. \A p \in missed' : p <= c[0]
    <2> TAKE p \in missed'
    <2>1. p \in Pieces /\ (p \in missed \/ Says(p) > 0)  BY <1>10
    <2>2. p <= cut[0] \/ p <= cut[1]  BY <2>1, <1>8, <1>10
    <2> QED BY <2>1, <2>2, <1>5, <1>7, <1>10
  <1>9. LaidOut(c)'
    BY <1>0, <1>2, <1>5, <1>6, <1>11, <1>12 DEF LaidOut
  <1> QED BY <1>3, <1>9

\* Before a run thinks, nothing is held, posted or told.
LEMMA ThinkingInitIs == ThinkingInit => ThinkingIInv
  <1> SUFFICES ASSUME ThinkingInit  PROVE ThinkingIInv
    OBVIOUS
  <1> USE ThinkingAssumption DEF ThinkingInit, Written
  <1>1. ThinkingTyped
    BY DEF ThinkingTyped, Shapes, Attempts, Idle
  <1>2. EndsOnce
    BY DEF EndsOnce, Idle
  <1>3. NothingRelayed /\ \A p \in Pieces : told[p] = 0
    BY DEF NothingRelayed, Idle
  <1>4. \E cut \in [0..Len(chain) -> 0..Written] : LaidOut(cut)
    <2> DEFINE cut == [i \in 0..0 |-> 0]
    <2>1. Len(chain) = 0 /\ Written = 0 /\ cut \in [0..0 -> 0..0]
      OBVIOUS
    <2>2. buf = Stretch(0, 0)
      BY DEF Stretch
    <2>3. \A p \in Pieces : told[p] = IF p <= cut[0] /\ p \notin missed THEN 1 ELSE 0
      BY DEF Pieces
    <2>4. LaidOut(cut)
      BY <2>1, <2>2, <2>3 DEF LaidOut
    <2> QED BY <2>1, <2>4
  <1>5. ByStream
    BY <1>3, <1>4 DEF ByStream
  <1>6. ByRelay
    BY <1>3 DEF ByRelay, OwnsReasoning
  <1> QED BY <1>1, <1>2, <1>5, <1>6 DEF ThinkingIInv

\* A smooth run was smooth before.
LEMMA SmoothBefore ==
  ASSUME ThinkingTyped, ThinkingNext, Smooth'
  PROVE  Smooth /\ kind' = kind /\ shape' = shape /\ attempt' = attempt
  <1> USE DEF Smooth, Attempts
  <1>1. CASE AttemptEnds
    BY <1>1 DEF AttemptEnds, ThinkingTyped, bookkeeping, posts
  <1>2. CASE Thinks \/ ThinksNoMore
    <2>1. UNCHANGED <<kind, shape, attempt, amiss>>  BY <1>2 DEF Thinks, ThinksNoMore
    <2>2. early => early'
      <3>1. CASE UNCHANGED early  BY <3>1
      <3>2. ASSUME NEW written, OnThinking(written)  PROVE early => early'
        BY <3>2 DEF OnThinking
      <3> QED BY <1>2, <3>1, <3>2 DEF Thinks, ThinksNoMore
    <2> QED BY <2>1, <2>2
  <1>3. CASE \E e \in ends : AgentEndOfStreamed(e) \/ AgentEndRelays(e)
    BY <1>3 DEF AgentEndOfStreamed, AgentEndRelays, bookkeeping
  <1>4. CASE \E a \in Attempts : RelayPosts(a) \/ RelayCloses(a)
    BY <1>4 DEF RelayPosts, RelayCloses, engine
  <1> QED
    BY <1>1, <1>2, <1>3, <1>4
    DEF ThinkingNext, SpawnHook, PostsThought, ClosesStreamTurn, Sweeps, Begins, IsAbandoned,
        LifecycleEnds, engine, bookkeeping, posts

\* A smooth run ends once, and its end is heard once.
LEMMA EndsOnceKept ==
  ASSUME ThinkingTyped, Smooth, Smooth', EndsOnce, ThinkingNext
  PROVE  EndsOnce'
  <1> USE DEF EndsOnce, Smooth, Written
  <1>1. CASE AttemptEnds
    BY <1>1 DEF AttemptEnds, bookkeeping, posts
  <1>2. CASE Thinks
    <2>1. phase = "running" /\ phase' = phase /\ UNCHANGED <<ends, terminal, relays>>
      BY <1>2 DEF Thinks
    <2> QED BY <2>1
  <1>3. CASE ThinksNoMore
    BY <1>3 DEF ThinksNoMore
  <1>4. ASSUME NEW e \in ends, AgentEndOfStreamed(e)  PROVE EndsOnce'
    BY <1>4 DEF AgentEndOfStreamed
  <1>5. ASSUME NEW e \in ends, AgentEndRelays(e)  PROVE EndsOnce'
    <2>1. \A a \in Attempts \ {1} : relays'[a].left = relays[a].left
      BY <1>5 DEF AgentEndRelays, ThinkingTyped
    <2> QED BY <2>1, <1>5 DEF AgentEndRelays
  <1>6. ASSUME NEW a \in Attempts, RelayPosts(a)  PROVE EndsOnce'
    <2>1. \A b \in Attempts \ {1} : relays'[b].left = relays[b].left
      BY <1>6 DEF RelayPosts, ThinkingTyped
    <2> QED BY <2>1, <1>6 DEF RelayPosts, engine
  <1>7. ASSUME NEW a \in Attempts, RelayCloses(a)  PROVE EndsOnce'
    <2>1. \A b \in Attempts \ {1} : relays'[b].left = relays[b].left
      BY <1>7 DEF RelayCloses, ThinkingTyped
    <2> QED BY <2>1, <1>7 DEF RelayCloses, engine
  <1>8. CASE (\E s \in {"own", "parent"} : SpawnHook(s)) \/ PostsThought \/ ClosesStreamTurn \/ Sweeps
    BY <1>8 DEF SpawnHook, PostsThought, ClosesStreamTurn, Sweeps, engine, posts, bookkeeping
  <1>9. CASE Begins \/ IsAbandoned \/ LifecycleEnds
    BY <1>9 DEF Begins, IsAbandoned, LifecycleEnds, posts, bookkeeping
  <1> QED
    BY <1>1, <1>2, <1>3, <1>4, <1>5, <1>6, <1>7, <1>8, <1>9 DEF ThinkingNext

\* The relay's runs.
LEMMA ByRelayKept ==
  ASSUME ThinkingTyped, ThinkingTyped', Smooth, Smooth', EndsOnce, ThinkingNext, ~InStream, ByRelay,
         kind' = kind, shape' = shape
  PROVE  ByRelay'
  <1> USE DEF ByRelay, NothingRelayed, OwnsReasoning, Written
  <1>1. "live" \notin marks /\ chain = <<>> /\ buf = <<>> /\ relays \in [Attempts -> [left : SUBSET Nat, turn : {"none", "open", "closed"}]]
    BY DEF ThinkingTyped
  <1>2. CASE AttemptEnds
    BY <1>2 DEF AttemptEnds, bookkeeping, posts, EndsOnce
  <1>3. CASE Thinks
    <2>1. phase = "running" /\ UNCHANGED <<phase, told, missed, relays, relayed>>
      BY <1>3 DEF Thinks
    <2>2. chain' = <<>> /\ buf' = <<>> /\ ~OwnsReasoning'
      <3>1. CASE shape = "nothing"  BY <3>1, <1>3 DEF Thinks
      <3>2. CASE shape # "nothing"
        <4>1. ~Follows  BY <3>2, <1>1 DEF InStream, Follows, CanFollow
        <4>2. PICK written : OnThinking(written)  BY <3>2, <1>3 DEF Thinks
        <4>3. marks' = Resolved /\ UNCHANGED <<prior, buf, chain>>  BY <4>1, <4>2 DEF OnThinking
        <4> QED BY <4>1, <4>3 DEF Resolved
      <3> QED BY <3>1, <3>2
    <2> QED BY <2>1, <2>2
  <1>4. CASE ThinksNoMore
    <2>1. ~Follows  BY <1>1, <1>4 DEF InStream, Follows, CanFollow, ThinksNoMore
    <2>2. marks' = Resolved /\ UNCHANGED <<prior, buf, chain>>
      BY <2>1, <1>4 DEF ThinksNoMore, OnThinking
    <2> QED BY <2>1, <2>2, <1>4 DEF ThinksNoMore, Resolved
  <1>5. ASSUME NEW e \in ends, AgentEndOfStreamed(e)  PROVE ByRelay'
    BY <1>5 DEF AgentEndOfStreamed
  <1>6. ASSUME NEW e \in ends, AgentEndRelays(e)  PROVE ByRelay'
    <2>1. ends = {e} /\ e.attempt = 1 /\ e.upto = Written /\ phase = "over" /\ 1 \in Attempts
      BY ThinkingAssumption DEF EndsOnce, Attempts
    <2>2. Relayable(e)  BY <1>6 DEF AgentEndRelays, Smooth
    <2>3. relays'[1].left = {rounds[p] : p \in 1..Written}
      BY <2>1, <2>2, <1>1, <1>6 DEF AgentEndRelays, Unreported
    <2>4. Written <= MaxPieces  BY DEF ThinkingTyped
    <2>5. \A p \in 1..Written : p \in Pieces  BY <2>4, ThinkingAssumption DEF Pieces, ThinkingTyped
    <2> QED BY <2>1, <2>3, <2>5, <1>6 DEF AgentEndRelays, bookkeeping
  <1>7. ASSUME NEW a \in Attempts, RelayPosts(a)  PROVE ByRelay'
    <2>1. a = 1 /\ phase = "over" /\ ends = {}
      BY <1>7 DEF RelayPosts, EndsOnce
    <2>2. \A p \in 1..Written : p \in Pieces /\ p <= Written
      BY ThinkingAssumption DEF Pieces, ThinkingTyped
    <2>3. UNCHANGED <<phase, ends, rounds, chain, buf, marks>>
      BY <1>7 DEF RelayPosts, engine, bookkeeping
    <2>4. ASSUME told' = told, relays'[1].left = {},
                 missed' = missed \cup {p \in 1..Written : rounds[p] \in relays[1].left}
          PROVE  ByRelay'
      BY <2>1, <2>2, <2>3, <2>4
    <2>5. ASSUME NEW r \in relays[1].left,
                 told' = [p \in Pieces |-> IF p <= Written /\ rounds[p] = r THEN told[p] + 1 ELSE told[p]],
                 relays'[1].left = relays[1].left \ {r}, missed' = missed
          PROVE  ByRelay'
      BY <2>1, <2>2, <2>3, <2>5
    <2> QED BY <2>1, <2>4, <2>5, <1>1, <1>7 DEF RelayPosts
  <1>8. ASSUME NEW a \in Attempts, RelayCloses(a)  PROVE ByRelay'
    <2>1. \A b \in Attempts : relays'[b].left = relays[b].left
      BY <1>1, <1>8 DEF RelayCloses
    <2>2. 1 \in Attempts  BY ThinkingAssumption DEF Attempts
    <2> QED BY <2>1, <2>2, <1>8 DEF RelayCloses, engine, bookkeeping
  <1>9. CASE LifecycleEnds
    BY <1>1, <1>9 DEF LifecycleEnds, FinishStreamed
  <1>10. CASE (\E s \in {"own", "parent"} : SpawnHook(s)) \/ PostsThought \/ ClosesStreamTurn \/ Sweeps
    BY <1>10 DEF SpawnHook, PostsThought, ClosesStreamTurn, Sweeps, engine, posts, bookkeeping
  <1>11. CASE Begins \/ IsAbandoned
    BY <1>11 DEF Begins, IsAbandoned, posts, bookkeeping, Smooth
  <1> QED
    BY <1>2, <1>3, <1>4, <1>5, <1>6, <1>7, <1>8, <1>9, <1>10, <1>11 DEF ThinkingNext

\* The stream's runs.
LEMMA ByStreamKept ==
  ASSUME ThinkingTyped, ThinkingTyped', Smooth, Smooth', EndsOnce, ThinkingNext, InStream, ByStream,
         kind' = kind, shape' = shape
  PROVE  ByStream'
  <1> DEFINE Laid == \E cut \in [0..Len(chain) -> 0..Written] : LaidOut(cut)
  <1>1. Laid  BY DEF ByStream
  <1>2. ASSUME UNCHANGED <<chain, buf, told, missed, rounds>>  PROVE Laid'
    BY <1>1, <1>2 DEF LaidOut, Written
  <1>3. relays \in [Attempts -> [left : SUBSET Nat, turn : {"none", "open", "closed"}]]
    BY DEF ThinkingTyped
  <1>4. CASE AttemptEnds
    BY <1>2, <1>4 DEF AttemptEnds, bookkeeping, posts, EndsOnce, ByStream, NothingRelayed,
       OwnsReasoning, Written
  <1>5. CASE Thinks
    <2> DEFINE written == Append(rounds, IF newRound THEN Round + 1 ELSE Round)
    <2>1. phase = "running" /\ OnThinking(written) /\ rounds' = written
      BY <1>5 DEF Thinks, InStream
    <2>2. Follows  BY <2>1 DEF OnThinking, InStream, Smooth
    <2>3. PICK r \in Nat : written = Append(rounds, r)
      <3>1. Round \in Nat  BY RoundIs
      <3>2. PICK r \in Nat : r = IF newRound THEN Round + 1 ELSE Round  BY <3>1
      <3> QED BY <3>2
    <2>4. rounds \in Seq(Nat) /\ Written \in Nat  BY DEF ThinkingTyped, Written
    <2> HIDE DEF written
    <2>5. Unseen(written) = Stretch(Written, Written + 1)
      BY <2>3, <2>4, UnseenIsLast DEF InStream, ByStream, ThinkingTyped, Written
    <2>6. Written' = Written + 1 /\ Len(written) = Written + 1
      BY <2>1, <2>3, <2>4 DEF Written
    <2>7. Laid'
      <3>1. PICK cut \in [0..Len(chain) -> 0..Written] : LaidOut(cut)  BY <1>1
      <3> DEFINE b == cut[Len(chain)]
      <3>2. b \in 0..Written
        <4>1. Len(chain) \in Nat  BY DEF ThinkingTyped
        <4>2. Len(chain) \in 0..Len(chain)  BY <4>1
        <4> QED BY <4>2
      <3>3. buf = Stretch(b, Written)  BY <3>1 DEF LaidOut
      <3> HIDE DEF b
      <3>4. buf \o Unseen(written) = Stretch(b, Written + 1)
        <4>1. b \in Nat /\ b <= Written  BY <2>4, <3>2
        <4>2. Stretch(b, Written) \o Stretch(Written, Written + 1) = Stretch(b, Written + 1)
          BY <4>1, <2>4, StretchGrows
        <4> QED BY <4>2, <2>5, <3>3
      <3>5. PICK n \in 0..Len(Stretch(b, Written + 1)) :
              /\ chain' = Posted(Stretch(b, Written + 1), n)
              /\ buf' = SubSeq(Stretch(b, Written + 1), n + 1, Len(Stretch(b, Written + 1)))
        BY <2>1, <2>2, <3>4 DEF OnThinking
      <3>6. UNCHANGED <<told, missed>>  BY <1>5 DEF Thinks
      <3>7. PICK held : held = Stretch(b, Written + 1)  OBVIOUS
      <3>8. PICK top \in Nat : top = Written + 1  BY <2>4
      <3>9. Written' = top /\ Written <= top /\ held = Stretch(cut[Len(chain)], top)
        BY <2>4, <2>6, <3>7, <3>8 DEF b
      <3>10. n \in 0..Len(held) /\ chain' = Posted(held, n) /\ buf' = SubSeq(held, n + 1, Len(held))
        BY <3>5, <3>7
      <3> QED BY <3>1, <3>6, <3>9, <3>10, LaidOutPosts
    <2>8. "live" \in marks' /\ (shape = "text" => prior' = Written + 1)
      BY <2>1, <2>2, <2>6 DEF OnThinking, Resolved
    <2>9. UNCHANGED <<phase, ends, terminal, relays, relayed>>
      BY <1>5 DEF Thinks
    <2> QED BY <2>1, <2>6, <2>7, <2>8, <2>9 DEF ByStream, NothingRelayed, EndsOnce
  <1>6. CASE ThinksNoMore
    BY <1>6 DEF ThinksNoMore, ByStream
  <1>7. ASSUME FinishStreamed, UNCHANGED <<told, missed, rounds>>  PROVE Laid'
    <2>1. CASE "live" \notin marks
      BY <1>2, <1>7, <2>1 DEF FinishStreamed
    <2>2. CASE "live" \in marks
      <3>1. PICK cut \in [0..Len(chain) -> 0..Written] : LaidOut(cut)  BY <1>1
      <3>2. buf = Stretch(cut[Len(chain)], Written)  BY <3>1 DEF LaidOut
      <3>3. PICK top \in Nat : top = Written  BY DEF ThinkingTyped, Written
      <3>4. PICK held \in Seq(Nat) : held = buf  BY DEF ThinkingTyped
      <3>5. PICK n \in Nat : n = Len(held)  BY <3>4
      <3>6. chain' = Posted(held, n) /\ buf' = <<>>
        BY <1>7, <2>2, <3>4, <3>5 DEF FinishStreamed
      <3>7. buf' = SubSeq(held, n + 1, Len(held)) /\ n \in 0..Len(held)
        BY <3>4, <3>5, <3>6
      <3>8. Written' = top  BY <1>7, <3>3 DEF Written
      <3>9. held = Stretch(cut[Len(chain)], top) /\ Written <= top  BY <3>2, <3>3, <3>4
      <3> QED BY <1>7, <3>1, <3>3, <3>6, <3>7, <3>8, <3>9, LaidOutPosts
    <2> QED BY <2>1, <2>2
  <1>8. ASSUME NEW e \in ends, AgentEndOfStreamed(e)  PROVE ByStream'
    <2>1. Laid'  BY <1>7, <1>8 DEF AgentEndOfStreamed
    <2> QED
      BY <2>1, <1>8 DEF AgentEndOfStreamed, FinishStreamed, ByStream, NothingRelayed, OwnsReasoning,
         EndsOnce, Written
  <1>9. CASE LifecycleEnds
    <2>1. Laid'  BY <1>7, <1>9 DEF LifecycleEnds
    <2> QED
      BY <2>1, <1>9 DEF LifecycleEnds, FinishStreamed, ByStream, NothingRelayed, OwnsReasoning,
         EndsOnce, Written
  <1>10. ASSUME NEW e \in ends, AgentEndRelays(e)  PROVE ByStream'
    <2>1. Laid'  BY <1>2, <1>10 DEF AgentEndRelays, bookkeeping
    <2>2. Written = 0 /\ e.upto = 0
      BY <1>10 DEF AgentEndRelays, ByStream, EndsOnce, ThinkingTyped, Written
    <2>3. Unreported(e) = {}  BY <2>2 DEF Unreported
    <2>4. NothingRelayed'
      BY <1>3, <1>10, <2>3 DEF AgentEndRelays, ByStream, NothingRelayed
    <2> QED BY <2>1, <2>2, <2>4, <1>10 DEF AgentEndRelays, ByStream, bookkeeping, Written
  <1>11. ASSUME NEW a \in Attempts, RelayPosts(a)  PROVE ByStream'
    BY <1>11 DEF RelayPosts, ByStream, NothingRelayed
  <1>12. ASSUME NEW a \in Attempts, RelayCloses(a)  PROVE ByStream'
    <2>1. \A b \in Attempts : relays'[b].left = relays[b].left
      BY <1>3, <1>12 DEF RelayCloses
    <2>2. Laid'  BY <1>2, <1>12 DEF RelayCloses, engine, bookkeeping
    <2> QED BY <2>1, <2>2, <1>12
        DEF RelayCloses, engine, bookkeeping, ByStream, NothingRelayed, OwnsReasoning, Written
  <1>13. CASE PostsThought
    <2>1. Laid'
      <3>1. PICK cut \in [0..Len(chain) -> 0..Written] : LaidOut(cut)  BY <1>1
      <3>2. Written' = Written  BY <1>13 DEF PostsThought, engine, Written
      <3> QED BY <1>13, <3>1, <3>2, LaidOutTold DEF PostsThought, AfterFailure, bookkeeping
    <2> QED
      BY <2>1, <1>13 DEF PostsThought, engine, bookkeeping, ByStream, NothingRelayed,
         OwnsReasoning, Written
  <1>14. CASE Sweeps
    <2>1. "live" \notin marks /\ buf = <<>>  BY <1>14 DEF Sweeps, ByStream
    <2>2. Laid'  BY <1>2, <1>14, <2>1 DEF Sweeps, engine, posts
    <2> QED
      BY <2>1, <2>2, <1>14 DEF Sweeps, engine, posts, ByStream, NothingRelayed, OwnsReasoning,
         Written
  <1>15. CASE (\E s \in {"own", "parent"} : SpawnHook(s)) \/ ClosesStreamTurn
    <2>1. UNCHANGED <<rounds, told, missed, chain, buf, marks, prior, phase, ends, terminal, relays, relayed>>
      BY <1>15 DEF SpawnHook, ClosesStreamTurn, engine, posts, bookkeeping
    <2>2. Laid'  BY <1>2, <2>1
    <2> QED BY <2>1, <2>2 DEF ByStream, NothingRelayed, OwnsReasoning, Written
  <1>16. CASE Begins
    <2>1. Laid'  BY <1>2, <1>16 DEF Begins, posts
    <2> QED
      BY <2>1, <1>16 DEF Begins, posts, ByStream, NothingRelayed, OwnsReasoning, Written, EndsOnce
  <1>17. CASE IsAbandoned
    BY <1>17 DEF IsAbandoned, Smooth
  <1> QED
    BY <1>4, <1>5, <1>6, <1>8, <1>9, <1>10, <1>11, <1>12, <1>13, <1>14, <1>15, <1>16, <1>17
    DEF ThinkingNext

\* Every step keeps the invariant, whichever of the two speaks for the run.
LEMMA ThinkingNextKeeps == ThinkingIInv /\ [ThinkingNext]_thinkVars => ThinkingIInv'
  <1> SUFFICES ASSUME ThinkingIInv, [ThinkingNext]_thinkVars  PROVE ThinkingIInv'
    OBVIOUS
  <1>1. ThinkingTyped'  BY ThinkingTypes DEF ThinkingIInv
  <1>2. CASE UNCHANGED thinkVars
    BY <1>2 DEF ThinkingIInv, thinkVars, engine, bookkeeping, posts, ThinkingTyped, Smooth,
       InStream,
         IsSpecialist, EndsOnce, ByStream, ByRelay, NothingRelayed, LaidOut, OwnsReasoning, Written
  <1>3. ASSUME ThinkingNext, Smooth'
        PROVE  EndsOnce' /\ IF InStream' THEN ByStream' ELSE ByRelay'
    <2>1. Smooth /\ kind' = kind /\ shape' = shape  BY <1>3, SmoothBefore DEF ThinkingIInv
    <2>2. InStream' = InStream  BY <2>1 DEF InStream, IsSpecialist
    <2>3. EndsOnce'  BY <1>3, <2>1, EndsOnceKept DEF ThinkingIInv
    <2>4. CASE InStream  BY <1>1, <1>3, <2>1, <2>2, <2>3, <2>4, ByStreamKept DEF ThinkingIInv
    <2>5. CASE ~InStream  BY <1>1, <1>3, <2>1, <2>2, <2>3, <2>5, ByRelayKept DEF ThinkingIInv
    <2> QED BY <2>4, <2>5
  <1> QED BY <1>1, <1>2, <1>3 DEF ThinkingIInv

\* With nothing held, nothing waiting and no block left, the cut points meet at what was written.
LEMMA ThinkingToldAll == ThinkingIInv => NoThoughtMissed
  <1> SUFFICES ASSUME ThinkingIInv, AllDone, Smooth, NEW p \in 1..Written
               PROVE  told[p] = IF p \in missed THEN 0 ELSE 1
    BY DEF NoThoughtMissed
  <1>1. Written \in Nat /\ p \in Pieces /\ 1 \in Attempts
    BY ThinkingAssumption DEF ThinkingIInv, ThinkingTyped, Written, Pieces, Attempts
  <1>2. CASE InStream
    <2>1. ByStream  BY <1>2 DEF ThinkingIInv
    <2>2. buf = <<>> /\ chain = <<>>  BY <2>1 DEF ByStream, AllDone
    <2>3. PICK cut \in [0..0 -> 0..Written] : LaidOut(cut)  BY <2>1, <2>2 DEF ByStream
    <2>4. cut[0] \in 0..Written /\ Stretch(cut[0], Written) = <<>>
      BY <2>2, <2>3 DEF LaidOut
    <2>5. cut[0] = Written
      <3>1. cut[0] \in Nat /\ Len(Stretch(cut[0], Written)) = 0 /\ cut[0] <= Written
        BY <1>1, <2>4
      <3>2. Len(Stretch(cut[0], Written)) = Written - cut[0]
        BY <1>1, <3>1, StretchIs
      <3> QED BY <1>1, <3>1, <3>2
    <2> QED BY <1>1, <2>3, <2>5 DEF LaidOut
  <1>3. CASE ~InStream
    BY <1>1, <1>3 DEF ThinkingIInv, ByRelay, AllDone
  <1> QED BY <1>2, <1>3

(* Once everything a smooth run caused is done, the owner was told each    *)
(* piece of its reasoning, once: by the stream the observer follows        *)
(* (thinking-stream), or from the blocks that agent_end relays.  What a    *)
(* failed post held is missing, and of the stream nothing else             *)
(* (ThinkingStream.NoThoughtMissed).                                       *)
THEOREM ThoughtsAreTold == ThinkingSpec => []NoThoughtMissed
  <1>1. ThinkingSpec => []ThinkingIInv
    BY ThinkingInitIs, ThinkingNextKeeps, PTL DEF ThinkingSpec
  <1> QED BY <1>1, ThinkingToldAll, PTL

=============================================================================
