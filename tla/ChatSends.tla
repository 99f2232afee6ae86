------------------------------ MODULE ChatSends ------------------------------
(***************************************************************************)
(* The outbound road of the plugin: what the message tool, a queued run's  *)
(* answer or the completion rescue sends into a chat.  Each send is a turn *)
(* of its own, posted as start, parts and end, each request tried a few    *)
(* times; the sends into one chat wait for one another.                    *)
(*                                                                         *)
(* The cloud takes a request once, by its ids, however often it comes.     *)
(***************************************************************************)
EXTENDS Naturals, SequencesExt

CONSTANTS
    Sends,
    Media,                  \* sends with a file: uploaded first, posted after their caption
    Target,                 \* whom a send names: a chat, in one of its spellings
    WEBHOOK_MAX_ATTEMPTS,
    MaxRefusals,            \* bound: requests that fail or whose answer is lost
    NoSend

Spellings == {"address", "bare", "session_key"}
Chats     == {Target[s].chat : s \in Sends}

ASSUME SendsAssumption ==
    /\ Media \subseteq Sends /\ NoSend \notin Sends
    /\ \A s \in Sends : Target[s].spelling \in Spellings
    /\ WEBHOOK_MAX_ATTEMPTS \in Nat \ {0} /\ MaxRefusals \in Nat

VARIABLES
    stage,      \* new, uploading, queued, posting, done, failed, empty
    step,       \* the request being posted: 0 the start, then the parts, then the end
    tries,      \* attempts at it
    behind,     \* the send whose promise this one waits for
    sendQueues, \* per key, the last send of the chain
    clearing,   \* sends whose finally callback has not run
    taken,      \* requests the cloud took
    archived,   \* chats that accept no more
    recorded,   \* recordOutboundDelivery, recordReplyDelivered
    line,       \* history: the sends in the order they were queued
    refused,    \* history: sends one of whose own requests was given up
    refusals

sendVars == <<stage, step, tries, behind, sendQueues, clearing, taken, archived, recorded, line,
              refused, refusals>>

\* Every spelling of a chat gives its address.
NormalizeTarget(t) == [chat |-> t.chat, spelling |-> "address"]

QueueKey(s) == NormalizeTarget(Target[s])
Keys        == [chat : Chats, spelling : Spellings]

LastStep(s) == IF s \in Media THEN 3 ELSE 2
IsSettled(s) == stage[s] \in {"done", "failed"}
IsArchived(s) == Target[s].chat \in archived

SendsTypeOK ==
    /\ stage \in [Sends -> {"new", "uploading", "queued", "posting", "done", "failed", "empty"}]
    /\ step \in [Sends -> 0..3] /\ taken \in [Sends -> SUBSET (0..3)]
    /\ \A s \in Sends : step[s] <= LastStep(s) /\ taken[s] \subseteq 0..LastStep(s)
    /\ tries \in [Sends -> 1..WEBHOOK_MAX_ATTEMPTS]
    /\ behind \in [Sends -> Sends \cup {NoSend}] /\ sendQueues \in [Keys -> Sends \cup {NoSend}]
    /\ clearing \subseteq Sends /\ archived \subseteq Chats /\ recorded \subseteq Sends
    /\ line \in Seq(Sends) /\ refused \subseteq Sends

SendsInit ==
    /\ stage = [s \in Sends |-> "new"] /\ step = [s \in Sends |-> 0]
    /\ tries = [s \in Sends |-> 1]
    /\ behind = [s \in Sends |-> NoSend] /\ sendQueues = [k \in Keys |-> NoSend]
    /\ clearing = {} /\ taken = [s \in Sends |-> {}] /\ archived = {} /\ recorded = {}
    /\ line = <<>> /\ refused = {} /\ refusals = 0

To(s, where) == stage' = [stage EXCEPT ![s] = where]

-----------------------------------------------------------------------------
(* The senders, and the queue.                                             *)

Enqueued(s) ==
    /\ To(s, "queued")
    /\ behind' = [behind EXCEPT ![s] = sendQueues[QueueKey(s)]]
    /\ sendQueues' = [sendQueues EXCEPT ![QueueKey(s)] = s]
    /\ clearing' = clearing \cup {s}
    /\ line' = Append(line, s)

\* A silent send, or a text of blanks.
SendsNothing(s) ==
    /\ stage[s] = "new" /\ s \notin Media /\ To(s, "empty")
    /\ UNCHANGED <<step, tries, behind, sendQueues, clearing, taken, archived, recorded, line,
                   refused, refusals>>

SendsText(s) ==
    /\ stage[s] = "new" /\ s \notin Media /\ Enqueued(s)
    /\ UNCHANGED <<step, tries, taken, archived, recorded, refused, refusals>>

\* The upload is awaited before the send takes its place in the queue.
SendsMedia(s) ==
    /\ stage[s] = "new" /\ s \in Media /\ To(s, "uploading")
    /\ UNCHANGED <<step, tries, behind, sendQueues, clearing, taken, archived, recorded, line,
                   refused, refusals>>

Uploaded(s) ==
    /\ stage[s] = "uploading" /\ Enqueued(s)
    /\ UNCHANGED <<step, tries, taken, archived, recorded, refused, refusals>>

UploadFails(s) ==
    /\ stage[s] = "uploading" /\ To(s, "failed") /\ refused' = refused \cup {s}
    /\ UNCHANGED <<step, tries, behind, sendQueues, clearing, taken, archived, recorded, line,
                   refusals>>

\* Mutant of ComesAfter: the next send is chained to the success of the one before.
ComesAfterSuccess(s) ==
    IF behind[s] = NoSend \/ stage[behind[s]] = "done" THEN "posting"
    ELSE IF stage[behind[s]] = "failed" THEN "failed" ELSE "queued"

\* Whatever became of the one before.
ComesAfter(s) == IF behind[s] = NoSend \/ IsSettled(behind[s]) THEN "posting" ELSE "queued"

TurnComes(s) ==
    /\ stage[s] = "queued" /\ ComesAfter(s) # "queued" /\ To(s, ComesAfter(s))
    /\ UNCHANGED <<step, tries, behind, sendQueues, clearing, taken, archived, recorded, line,
                   refused, refusals>>

\* Mutant of Cleared: the entry goes, whoever is the last of the chain.
ClearedAnyway(s) == [sendQueues EXCEPT ![QueueKey(s)] = NoSend]

Cleared(s) ==
    [sendQueues EXCEPT ![QueueKey(s)] = IF @ = s THEN NoSend ELSE @]

QueueClears(s) ==
    /\ s \in clearing /\ IsSettled(s)
    /\ clearing' = clearing \ {s} /\ sendQueues' = Cleared(s)
    /\ UNCHANGED <<stage, step, tries, behind, taken, archived, recorded, line, refused, refusals>>

-----------------------------------------------------------------------------
(* postOpenclawWebhook, one request after the other.                       *)

Posting(s) == stage[s] = "posting"
Takes(s)   == taken' = [taken EXCEPT ![s] = @ \cup {step[s]}]

\* Remembered when the turn has ended, for the live turn that asks whether it was answered.
Records(s) == IF step[s] = LastStep(s) THEN recorded \cup {s} ELSE recorded

Answered(s) ==
    /\ IF step[s] = LastStep(s) THEN To(s, "done") /\ UNCHANGED <<step, tries>>
       ELSE /\ step' = [step EXCEPT ![s] = @ + 1] /\ tries' = [tries EXCEPT ![s] = 1]
            /\ UNCHANGED stage
    /\ recorded' = Records(s)
    /\ UNCHANGED <<behind, sendQueues, clearing, archived, line, refused, refusals>>

Accepted(s) == Posting(s) /\ ~IsArchived(s) /\ Takes(s) /\ Answered(s)

\* "chat_archived" counts as an answer: the write is dropped.
DroppedQuietly(s) == Posting(s) /\ IsArchived(s) /\ Answered(s) /\ UNCHANGED taken

GivesUp(s) == To(s, "failed") /\ refused' = refused \cup {s}

\* A network error, a transient status, or an answer that was lost.
TriesAgain(s) ==
    /\ Posting(s) /\ refusals < MaxRefusals /\ refusals' = refusals + 1
    /\ taken' = taken \/ (~IsArchived(s) /\ Takes(s))
    /\ IF tries[s] < WEBHOOK_MAX_ATTEMPTS
       THEN tries' = [tries EXCEPT ![s] = @ + 1] /\ UNCHANGED <<stage, refused>>
       ELSE GivesUp(s) /\ UNCHANGED tries
    /\ UNCHANGED <<step, behind, sendQueues, clearing, archived, recorded, line>>

\* Any other status is final.
IsRefused(s) ==
    /\ Posting(s) /\ refusals < MaxRefusals /\ refusals' = refusals + 1 /\ GivesUp(s)
    /\ UNCHANGED <<step, tries, behind, sendQueues, clearing, taken, archived, recorded, line>>

OwnerArchives(c) ==
    /\ c \notin archived /\ archived' = archived \cup {c}
    /\ UNCHANGED <<stage, step, tries, behind, sendQueues, clearing, taken, recorded, line,
                   refused, refusals>>

-----------------------------------------------------------------------------
SendsNext ==
    \/ \E s \in Sends :
         \/ SendsNothing(s) \/ SendsText(s) \/ SendsMedia(s) \/ Uploaded(s) \/ UploadFails(s)
         \/ TurnComes(s) \/ QueueClears(s)
         \/ Accepted(s) \/ DroppedQuietly(s) \/ TriesAgain(s) \/ IsRefused(s)
    \/ \E c \in Chats : OwnerArchives(c)

SendsSpec == SendsInit /\ [][SendsNext]_sendVars

(* Sends into one chat, however it was spelled, reach the cloud whole and  *)
(* in the order they were queued: none begins before the one ahead of it   *)
(* is settled, also while the queue's entries come and go.                 *)
SendsKeepOrder ==
    \A i, j \in DOMAIN line :
        i < j /\ Target[line[i]].chat = Target[line[j]].chat /\ taken[line[j]] # {}
            => IsSettled(line[i])

(* A send answers for itself: it is recorded as read by the owner only     *)
(* when its whole turn was taken or the chat takes nothing more, and it    *)
(* fails only by a request of its own, not by the send it waited for.      *)
OutcomeIsOwn ==
    \A s \in Sends :
        /\ s \in recorded => taken[s] = 0..LastStep(s) \/ IsArchived(s)
        /\ stage[s] = "failed" => s \in refused

-----------------------------------------------------------------------------
(* The inductive invariants behind the two.                                *)

\* Who waits in line, and only who has left it has posted.
Lined == {line[i] : i \in DOMAIN line}
LineIsWhole ==
    /\ \A s \in Lined : stage[s] \in {"queued", "posting", "done", "failed"}
    /\ \A s \in Sends \ Lined : stage[s] \notin {"queued", "posting"} /\ taken[s] = {}
    /\ \A s \in Sends : stage[s] = "queued" => taken[s] = {}

SameChat(s, u) == Target[s].chat = Target[u].chat

\* Whoever left the queue found everything ahead of it settled; who is still in it waits for
\* one that has nothing unsettled between.
LeftInOrder ==
    \A i, j \in DOMAIN line :
        i < j /\ SameChat(line[i], line[j]) =>
            \/ IsSettled(line[i])
            \/ /\ stage[line[j]] = "queued"
               /\ \E k \in i .. j - 1 : behind[line[j]] = line[k] /\ SameChat(line[k], line[j])

\* The queue's entry is the last send of the chat; without one, all of the chat's are settled.
EntryIsLast ==
    \A s \in Sends : LET last == sendQueues[QueueKey(s)] IN
        \/ last = NoSend /\ \A i \in DOMAIN line : SameChat(line[i], s) => IsSettled(line[i])
        \/ \E k \in DOMAIN line :
              /\ last = line[k] /\ SameChat(line[k], s)
              /\ \A i \in DOMAIN line : SameChat(line[i], s) => i <= k

OrderIInv == SendsTypeOK /\ LineIsWhole /\ LeftInOrder /\ EntryIsLast

\* Up to the request it is at, and while the chat is open, the cloud has all of a send's turn.
TakenSoFar ==
    \A s \in Sends :
        IsArchived(s) \/ \A i \in 0 .. step[s] - 1 : i \in taken[s]

OutcomeIInv == SendsTypeOK /\ TakenSoFar /\ OutcomeIsOwn

=============================================================================
