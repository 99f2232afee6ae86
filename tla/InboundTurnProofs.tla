------------------------- MODULE InboundTurnProofs -------------------------
(***************************************************************************)
(* Theorems about InboundTurn, for any number of messages, turns, faults,  *)
(* resumptions and repeated dispatches: the in-flight slots, the turns the *)
(* owner stopped, the turns that put nothing before the owner, one turn    *)
(* per message, and the refinement of MessageLife.                         *)
(*                                                                         *)
(* Most steps edit turns that are open and leave the slots alone           *)
(* (KeepsTurns); three do not (MovesSlots): a message taken up, a turn     *)
(* that ends, and the death of the gateway.                                *)
(***************************************************************************)
EXTENDS InboundTurn, FiniteSetTheorems, TLAPS

Steps == {"free", "dispatch", "refused", "running", "queued", "settled", "crashed", "ending"}

\* Turn, its tries unbounded: which of them the code counts is no matter here.
Fields == [q : Msgs \cup {NoMsg}, at : Steps,
           guarded : BOOLEAN, answered : BOOLEAN, started : BOOLEAN, notice : Notices,
           steered : BOOLEAN, stopped : BOOLEAN, tries : Nat, reasked : BOOLEAN,
           next : {"none", "resume", "reask"}, failed : BOOLEAN]

Typed == turn \in [Turns -> Fields] /\ inFlight \subseteq Msgs

FreeIsQuiet == \A t \in Turns : ~Open(t) => ~turn[t].stopped /\ ~turn[t].guarded

Holds(t, m) == turn[t].guarded /\ turn[t].q = m

SlotOfItsOwn ==
    /\ \A t \in Turns : turn[t].guarded => turn[t].q \in inFlight
    /\ \A t, u \in Turns : turn[t].guarded /\ Holds(u, turn[t].q) => t = u
    /\ \A m \in inFlight : \E t \in Turns : Holds(t, m)

TurnIInv == Typed /\ FreeIsQuiet /\ SlotOfItsOwn

-----------------------------------------------------------------------------
(* What the edits of a turn leave alone.                                   *)

\* From r to s a turn stays open, its message's and its slot's; a stop sticks to it.
Kept(r, s) == /\ s \in Fields /\ s.q = r.q /\ s.guarded = r.guarded
              /\ r.stopped => s.stopped /\ (s.failed => r.failed)
              /\ s.at # "free"

LEMMA NoTurnFields ==
  NoTurn \in Fields /\ NoTurn.at = "free" /\ ~NoTurn.stopped /\ ~NoTurn.guarded
  BY DEF NoTurn, Fields, Steps, Notices

LEMMA OpenedFields ==
  ASSUME NEW m \in Msgs \cup {NoMsg}, NEW g \in BOOLEAN, NEW k \in BOOLEAN
  PROVE  /\ Opened(m, g, k) \in Fields /\ Opened(m, g, k).at = "dispatch"
         /\ Opened(m, g, k).q = m /\ Opened(m, g, k).guarded = g
         /\ ~Opened(m, g, k).stopped /\ ~Opened(m, g, k).failed
  BY DEF Opened, NoTurn, Fields, Steps, Notices

LEMMA RemainsFields ==
  ASSUME Typed, NEW t \in Turns, NEW a \in Steps
  PROVE  /\ Remains(t, a) \in Fields /\ Remains(t, a).at = a
         /\ Remains(t, a).q = turn[t].q /\ Remains(t, a).guarded = turn[t].guarded
         /\ Remains(t, a).stopped = turn[t].stopped /\ ~Remains(t, a).failed
  <1>1. turn[t] \in Fields  BY DEF Typed
  <1> QED  BY <1>1 DEF Remains, NoTurn, Fields, Notices

LEMMA SetAt ==
  ASSUME NEW r \in Fields, NEW a \in Steps \ {"free"}
  PROVE  Kept(r, [r EXCEPT !.at = a]) /\ [r EXCEPT !.at = a].at = a
  BY DEF Kept, Fields

LEMMA SetTries ==
  ASSUME NEW r \in Fields, NEW a \in Steps \ {"free"}, NEW n \in Nat
  PROVE  Kept(r, [r EXCEPT !.at = a, !.tries = n]) /\ [r EXCEPT !.at = a, !.tries = n].at = a
  BY DEF Kept, Fields

LEMMA SetSteered ==
  ASSUME NEW r \in Fields, NEW a \in Steps \ {"free"}, NEW n \in Nat
  PROVE  /\ Kept(r, [r EXCEPT !.at = a, !.steered = TRUE, !.tries = n])
         /\ [r EXCEPT !.at = a, !.steered = TRUE, !.tries = n].at = a
  BY DEF Kept, Fields

LEMMA SetNotice ==
  ASSUME NEW r \in Fields, NEW a \in Steps \ {"free"}, NEW n \in Notices
  PROVE  Kept(r, [r EXCEPT !.at = a, !.notice = n]) /\ [r EXCEPT !.at = a, !.notice = n].at = a
  BY DEF Kept, Fields

LEMMA SetStarted ==
  ASSUME NEW r \in Fields, r.at # "free", NEW b \in BOOLEAN
  PROVE  Kept(r, [r EXCEPT !.started = b]) /\ [r EXCEPT !.started = b].at = r.at
  BY DEF Kept, Fields

LEMMA SetAnswered ==
  ASSUME NEW r \in Fields, r.at # "free", NEW b \in BOOLEAN
  PROVE  Kept(r, [r EXCEPT !.answered = b]) /\ [r EXCEPT !.answered = b].at = r.at
  BY DEF Kept, Fields

LEMMA SetDelivered ==
  ASSUME NEW r \in Fields, r.at # "free"
  PROVE  /\ Kept(r, [r EXCEPT !.started = TRUE, !.answered = TRUE])
         /\ [r EXCEPT !.started = TRUE, !.answered = TRUE].at = r.at
  BY DEF Kept, Fields

LEMMA SetStopped ==
  ASSUME NEW r \in Fields, r.at # "free"
  PROVE  Kept(r, [r EXCEPT !.stopped = TRUE]) /\ [r EXCEPT !.stopped = TRUE].at = r.at
  BY DEF Kept, Fields

LEMMA EndingFields ==
  ASSUME Typed, NEW t \in Turns, NEW f \in BOOLEAN, NEW n \in {"none", "resume", "reask"},
         turn[t].stopped => ~f
  PROVE  /\ Kept(turn[t], Ending(t, f, n))
         /\ Ending(t, f, n).failed = f /\ Ending(t, f, n).next = n
  <1> DEFINE r == Remains(t, "ending")
             s == [r EXCEPT !.failed = f, !.next = n]
  <1>1. /\ r \in Fields /\ r.at = "ending" /\ r.q = turn[t].q
        /\ r.guarded = turn[t].guarded /\ r.stopped = turn[t].stopped
    BY RemainsFields DEF Steps
  <1>2. Ending(t, f, n) = s  BY DEF Ending
  <1> HIDE DEF r
  <1>3. /\ s \in Fields /\ s.at = "ending" /\ s.q = r.q /\ s.guarded = r.guarded
        /\ s.stopped = r.stopped /\ s.failed = f /\ s.next = n
    BY <1>1 DEF Fields
  <1> HIDE DEF s
  <1> QED  BY <1>1, <1>2, <1>3 DEF Kept

-----------------------------------------------------------------------------
(* The steps that leave the slots alone.                                   *)

\* No turn opens, closes or ends; slots stay where they are.
KeepsTurns ==
    /\ turn' \in [Turns -> Fields] /\ inFlight' = inFlight
    /\ \A u \in Turns : Open(u) => Kept(turn[u], turn'[u])
    /\ \A u \in Turns : ~Open(u) => /\ turn'[u].at = "free" /\ turn'[u].stopped = turn[u].stopped
                                    /\ turn'[u].guarded = turn[u].guarded

Only(t) == \A u \in Turns \ {t} : turn'[u] = turn[u]

EndsNone == \A u \in Turns : turn'[u].at = "ending" => turn[u].at = "ending"

LEMMA EditKeeps ==
  ASSUME Typed, NEW t \in Turns, turn[t].at # "free", inFlight' = inFlight,
         NEW s, turn' = [turn EXCEPT ![t] = s], Kept(turn[t], s)
  PROVE  KeepsTurns /\ Only(t) /\ (s.at # "ending" => EndsNone)
  <1>1. \A u \in Turns : turn'[u] = IF u = t THEN s ELSE turn[u]  BY DEF Typed
  <1>2. s \in Fields  BY DEF Kept
  <1>3. turn' \in [Turns -> Fields]  BY <1>2 DEF Typed
  <1>4. \A u \in Turns : Open(u) => Kept(turn[u], turn'[u])
    <2> SUFFICES ASSUME NEW u \in Turns, Open(u) PROVE Kept(turn[u], turn'[u])  OBVIOUS
    <2>1. CASE u = t  BY <2>1, <1>1
    <2>2. CASE u # t
      <3>1. turn'[u] = turn[u] /\ turn[u] \in Fields /\ turn[u].at # "free"
        BY <2>2, <1>1 DEF Typed, Open
      <3> QED  BY <3>1 DEF Kept
    <2> QED  BY <2>1, <2>2
  <1>5. \A u \in Turns : ~Open(u) => turn'[u] = turn[u] /\ turn[u].at = "free"  BY <1>1 DEF Open
  <1>6. KeepsTurns  BY <1>3, <1>4, <1>5 DEF KeepsTurns
  <1>7. s.at # "ending" => EndsNone  BY <1>1 DEF EndsNone
  <1>8. Only(t)  BY <1>1 DEF Only
  <1> QED  BY <1>6, <1>7, <1>8

LEMMA MovesKeeps ==
  ASSUME Typed, NEW t \in Turns, turn[t].at # "free", inFlight' = inFlight,
         NEW a \in Steps \ {"free", "ending"}, Moves(t, a)
  PROVE  KeepsTurns /\ Only(t) /\ EndsNone
  <1>1. turn[t] \in Fields  BY DEF Typed
  <1> DEFINE s == [turn[t] EXCEPT !.at = a]
  <1>2. turn' = [turn EXCEPT ![t] = s]  BY <1>1 DEF Moves, Typed
  <1>3. Kept(turn[t], s) /\ s.at = a  BY <1>1, SetAt
  <1> HIDE DEF s
  <1> QED  BY <1>2, <1>3, EditKeeps

LEMMA TriesKeeps ==
  ASSUME Typed, NEW t \in Turns, turn[t].at # "free", inFlight' = inFlight,
         NEW a \in Steps \ {"free", "ending"}, NEW n \in Nat,
         turn' = [turn EXCEPT ![t].at = a, ![t].tries = n]
  PROVE  KeepsTurns /\ Only(t) /\ EndsNone
  <1>1. turn[t] \in Fields  BY DEF Typed
  <1> DEFINE s == [turn[t] EXCEPT !.at = a, !.tries = n]
  <1>2. turn' = [turn EXCEPT ![t] = s]  BY <1>1 DEF Typed
  <1>3. Kept(turn[t], s) /\ s.at = a  BY <1>1, SetTries
  <1> HIDE DEF s
  <1> QED  BY <1>2, <1>3, EditKeeps

LEMMA CrashKeeps ==
  ASSUME Typed, NEW t \in Turns, turn[t].at # "free", inFlight' = inFlight, Crashes(t)
  PROVE  KeepsTurns /\ Only(t) /\ EndsNone
  <1>1. Kept(turn[t], Remains(t, "crashed")) /\ Remains(t, "crashed").at = "crashed"
    BY RemainsFields DEF Kept, Steps
  <1> QED  BY <1>1, EditKeeps DEF Crashes

LEMMA NoticeKeeps ==
  ASSUME Typed, NEW t \in Turns, turn[t].at # "free", inFlight' = inFlight, NEW n \in Notices,
         turn' = [turn EXCEPT ![t].at = "settled", ![t].notice = n]
  PROVE  KeepsTurns /\ Only(t) /\ EndsNone
  <1>1. turn[t] \in Fields  BY DEF Typed
  <1> DEFINE s == [turn[t] EXCEPT !.at = "settled", !.notice = n]
  <1>2. turn' = [turn EXCEPT ![t] = s]  BY <1>1 DEF Typed
  <1>3. Kept(turn[t], s) /\ s.at = "settled"  BY <1>1, SetNotice DEF Steps
  <1> HIDE DEF s
  <1> QED  BY <1>2, <1>3, EditKeeps

LEMMA SteeredKeeps ==
  ASSUME Typed, NEW t \in Turns, Steered(t)
  PROVE  KeepsTurns /\ Only(t) /\ EndsNone
  <1>1. turn[t] \in Fields /\ turn[t].at # "free" /\ inFlight' = inFlight
    BY DEF Typed, Steered
  <1> DEFINE s == [turn[t] EXCEPT !.at = "settled", !.steered = TRUE, !.tries = 0]
  <1>2. turn' = [turn EXCEPT ![t] = s]  BY <1>1 DEF Typed, Steered
  <1>3. Kept(turn[t], s) /\ s.at = "settled"  BY <1>1, SetSteered DEF Steps
  <1> HIDE DEF s
  <1> QED  BY <1>1, <1>2, <1>3, EditKeeps

LEMMA DeliversKeeps ==
  ASSUME Typed, NEW t \in Turns, Delivers(t)
  PROVE  KeepsTurns /\ Only(t) /\ EndsNone
  <1>1. turn[t] \in Fields /\ turn[t].at = "running" /\ inFlight' = inFlight
    BY DEF Typed, Delivers
  <1>2. CASE turn' = [turn EXCEPT ![t].started = TRUE, ![t].answered = TRUE]
    <2> DEFINE s == [turn[t] EXCEPT !.started = TRUE, !.answered = TRUE]
    <2>1. turn' = [turn EXCEPT ![t] = s]  BY <1>1, <1>2 DEF Typed
    <2>2. Kept(turn[t], s) /\ s.at = "running"  BY <1>1, SetDelivered
    <2> HIDE DEF s
    <2> QED  BY <1>1, <2>1, <2>2, EditKeeps
  <1>3. ASSUME NEW b \in BOOLEAN, turn' = [turn EXCEPT ![t].started = b]
        PROVE  KeepsTurns /\ Only(t) /\ EndsNone
    <2> DEFINE s == [turn[t] EXCEPT !.started = b]
    <2>1. turn' = [turn EXCEPT ![t] = s]  BY <1>1, <1>3 DEF Typed
    <2>2. Kept(turn[t], s) /\ s.at = "running"  BY <1>1, SetStarted
    <2> HIDE DEF s
    <2> QED  BY <1>1, <2>1, <2>2, EditKeeps
  <1>4. turn[t].started \in BOOLEAN  BY <1>1 DEF Fields
  <1> QED  BY <1>2, <1>3, <1>4 DEF Delivers

\* One reply counts for every turn of the message.
LEMMA RepliesKeeps ==
  ASSUME Typed, NEW t \in Turns, RepliesOutbound(t)
  PROVE  KeepsTurns /\ \A u \in Turns : turn'[u].at = turn[u].at
  <1>1. /\ inFlight' = inFlight
        /\ turn' = [u \in Turns |-> [turn[u] EXCEPT !.answered = @ \/ turn[u].q = turn[t].q]]
    BY DEF RepliesOutbound
  <1>2. ASSUME NEW u \in Turns
        PROVE  /\ turn'[u] \in Fields /\ turn'[u].at = turn[u].at /\ turn'[u].q = turn[u].q
               /\ turn'[u].guarded = turn[u].guarded /\ turn'[u].stopped = turn[u].stopped
               /\ turn'[u].failed = turn[u].failed
    <2>1. turn[u] \in Fields /\ turn[u].answered \in BOOLEAN  BY DEF Typed, Fields
    <2> DEFINE b == turn[u].answered \/ turn[u].q = turn[t].q
    <2>2. turn'[u] = [turn[u] EXCEPT !.answered = b]  BY <1>1
    <2>3. b \in BOOLEAN  OBVIOUS
    <2> HIDE DEF b
    <2> QED  BY <2>1, <2>2, <2>3 DEF Fields
  <1>3. turn' \in [Turns -> Fields]  BY <1>1, <1>2
  <1> QED  BY <1>1, <1>2, <1>3 DEF KeepsTurns, Kept, Open

LEMMA StopsKeeps ==
  ASSUME Typed, OwnerStops
  PROVE  KeepsTurns /\ \A u \in Turns : turn'[u].at = turn[u].at
  <1>1. /\ inFlight' = inFlight
        /\ turn' = [u \in Turns |-> IF Open(u) THEN [turn[u] EXCEPT !.stopped = TRUE]
                                              ELSE turn[u]]
    BY DEF OwnerStops
  <1>2. ASSUME NEW u \in Turns, Open(u)
        PROVE  Kept(turn[u], turn'[u]) /\ turn'[u].at = turn[u].at
    <2>1. turn[u] \in Fields /\ turn[u].at # "free"  BY <1>2 DEF Typed, Open
    <2>2. turn'[u] = [turn[u] EXCEPT !.stopped = TRUE]  BY <1>1, <1>2
    <2> QED  BY <2>1, <2>2, SetStopped
  <1>3. ASSUME NEW u \in Turns, ~Open(u)
        PROVE  turn'[u] = turn[u] /\ turn[u] \in Fields /\ turn[u].at = "free"
    BY <1>1, <1>3 DEF Typed, Open
  <1>4. turn' \in [Turns -> Fields]  BY <1>1, <1>2, <1>3 DEF Kept
  <1> QED  BY <1>1, <1>2, <1>3, <1>4 DEF KeepsTurns

\* The turn's end decided: a stopped turn ends without an error.
LEMMA FinishKeeps ==
  ASSUME Typed, NEW t \in Turns, Finish(t)
  PROVE  /\ KeepsTurns /\ Only(t)
         /\ turn'[t].at = "ending" =>
              turn'[t].failed = EndsFailed(t) /\ turn'[t].next = FollowUp(t)
  <1>1. turn[t] \in Fields /\ turn[t].at = "settled" /\ inFlight' = inFlight
    BY DEF Typed, Finish
  <1>2. FollowUp(t) \in {"none", "resume", "reask"}  BY DEF FollowUp
  <1>3. EndsFailed(t) \in BOOLEAN  BY DEF EndsFailed
  <1>4. turn[t].stopped => ~EndsFailed(t) /\ FollowUp(t) = "none"
    <2> SUFFICES ASSUME Stopped(t) PROVE ~EndsFailed(t) /\ FollowUp(t) = "none"  BY DEF Stopped
    <2>1. ~EndsFailed(t)  BY DEF EndsFailed
    <2>2. FollowUp(t) = "none"  BY DEF FollowUp
    <2> QED  BY <2>1, <2>2
  <1>5. CASE HeldOpen(t)
    <2> DEFINE s == Opened(turn[t].q, turn[t].guarded, TRUE)
    <2>1. turn' = [turn EXCEPT ![t] = s]  BY <1>5 DEF Finish
    <2>2. turn[t].q \in Msgs \cup {NoMsg} /\ turn[t].guarded \in BOOLEAN  BY <1>1 DEF Fields
    <2>3. ~turn[t].stopped  BY <1>4, <1>5 DEF HeldOpen
    <2>4. Kept(turn[t], s) /\ s.at = "dispatch"  BY <2>2, <2>3, OpenedFields DEF Kept
    <2>5. turn'[t] = s  BY <2>1 DEF Typed
    <2> HIDE DEF s
    <2>6. KeepsTurns /\ Only(t)  BY <1>1, <2>1, <2>4, EditKeeps
    <2>7. turn'[t].at # "ending"  BY <2>4, <2>5
    <2> QED  BY <2>6, <2>7
  <1>6. CASE ~HeldOpen(t)
    <2> DEFINE s == Ending(t, EndsFailed(t), FollowUp(t))
    <2>1. turn' = [turn EXCEPT ![t] = s]  BY <1>6 DEF Finish
    <2>2. Kept(turn[t], s) /\ s.failed = EndsFailed(t) /\ s.next = FollowUp(t)
      BY <1>2, <1>3, <1>4, EndingFields
    <2>3. turn'[t] = s  BY <2>1 DEF Typed
    <2> HIDE DEF s
    <2> QED  BY <1>1, <2>1, <2>2, <2>3, EditKeeps
  <1> QED  BY <1>5, <1>6

LEMMA ForcedKeeps ==
  ASSUME Typed, NEW t \in Turns, FinishForced(t)
  PROVE  KeepsTurns /\ Only(t) /\ turn'[t].failed = ~Stopped(t)
  <1>1. turn[t] \in Fields /\ turn[t].at = "crashed" /\ inFlight' = inFlight
    BY DEF Typed, FinishForced
  <1> DEFINE f == ~Stopped(t)
             s == Ending(t, f, "none")
  <1>2. f \in BOOLEAN /\ (turn[t].stopped => ~f)  BY DEF Stopped
  <1>3. turn' = [turn EXCEPT ![t] = s]  BY DEF FinishForced
  <1>4. Kept(turn[t], s) /\ s.failed = f  BY <1>2, EndingFields
  <1>5. turn'[t] = s  BY <1>3 DEF Typed
  <1> HIDE DEF s
  <1> QED  BY <1>1, <1>3, <1>4, <1>5, EditKeeps

\* The steps of one turn's dispatch and run.
DispatchStep(t) ==
    \/ Admitted(t) \/ Steered(t) \/ QueuedBehind(t) \/ QueueWaitOver(t)
    \/ AdmissionRefused(t) \/ Redispatched(t) \/ DroppedWhenStopped(t)
    \/ Delivers(t) \/ RunCrashes(t) \/ RunEnds(t)


RunIsOpen == \A t \in Turns : run = t => turn[t].at \in {"running", "queued"}

LEMMA DispatchKeeps ==
  ASSUME Typed, RunIsOpen, NEW t \in Turns, DispatchStep(t)
  PROVE  KeepsTurns /\ Only(t) /\ EndsNone
  <1> USE DEF Steps
  <1>1. turn[t].tries + 1 \in Nat  BY DEF Typed, Fields
  <1>2. CASE Admitted(t)
    <2>1. /\ turn[t].at # "free" /\ inFlight' = inFlight
          /\ turn' = [turn EXCEPT ![t].at = "running", ![t].tries = 0]
      BY <1>2 DEF Admitted
    <2> QED  BY <2>1, TriesKeeps
  <1>3. CASE Steered(t)  BY <1>3, SteeredKeeps
  <1>4. CASE QueuedBehind(t)
    <2>1. /\ turn[t].at # "free" /\ inFlight' = inFlight
          /\ turn' = [turn EXCEPT ![t].at = "queued", ![t].tries = 0]
      BY <1>4 DEF QueuedBehind
    <2> QED  BY <2>1, TriesKeeps
  <1>5. CASE QueueWaitOver(t)
    <2>1. turn[t].at # "free" /\ inFlight' = inFlight /\ Moves(t, "settled")
      BY <1>5 DEF QueueWaitOver
    <2> QED  BY <2>1, MovesKeeps
  <1>6. CASE AdmissionRefused(t)
    <2>1. /\ turn[t].at # "free" /\ inFlight' = inFlight
          /\ Moves(t, "refused") \/ Crashes(t)
      BY <1>6 DEF AdmissionRefused
    <2> QED  BY <2>1, MovesKeeps, CrashKeeps
  <1>7. CASE Redispatched(t)
    <2> DEFINE n == turn[t].tries + 1
    <2>1. /\ turn[t].at # "free" /\ inFlight' = inFlight
          /\ turn' = [turn EXCEPT ![t].at = "dispatch", ![t].tries = n]
      BY <1>7 DEF Redispatched, Typed
    <2> HIDE DEF n
    <2> QED  BY <1>1, <2>1, TriesKeeps DEF n
  <1>8. CASE DroppedWhenStopped(t)
    <2>1. /\ turn[t].at # "free" /\ inFlight' = inFlight
          /\ Moves(t, "settled") \/ Crashes(t)
      BY <1>8 DEF DroppedWhenStopped
    <2> QED  BY <2>1, MovesKeeps, CrashKeeps
  <1>9. CASE Delivers(t)  BY <1>9, DeliversKeeps
  <1>10. CASE RunCrashes(t)
    <2>1. turn[t].at # "free" /\ inFlight' = inFlight /\ Crashes(t)
      BY <1>10 DEF RunCrashes
    <2> QED  BY <2>1, CrashKeeps
  <1>11. CASE RunEnds(t)
    <2>1. turn[t].at # "free" /\ inFlight' = inFlight
      BY <1>11 DEF RunEnds, RunIsOpen
    <2>2. PICK n \in Notices : turn' = [turn EXCEPT ![t].at = "settled", ![t].notice = n]
      BY <1>11 DEF RunEnds
    <2> QED  BY <2>1, <2>2, NoticeKeeps
  <1> QED  BY <1>2, <1>3, <1>4, <1>5, <1>6, <1>7, <1>8, <1>9, <1>10, <1>11 DEF DispatchStep

LEMMA DispatchRuns ==
  ASSUME Typed, RunIsOpen, NEW t \in Turns, DispatchStep(t), Only(t)
  PROVE  RunIsOpen'
  <1>0. /\ Idle \notin Turns /\ Orphan \notin Turns
        /\ \A s \in Fields : turn' = [turn EXCEPT ![t] = s] => turn'[t] = s
    BY InboundAssumption DEF Idle, Orphan, Typed
  <1> USE DEF RunIsOpen, Only
  <1>1. CASE Admitted(t)
    <2>1. turn'[t].at = "running" /\ run' = t  BY <1>1 DEF Admitted, Typed, Fields
    <2> QED  BY <2>1
  <1>2. CASE Steered(t) \/ QueuedBehind(t) \/ AdmissionRefused(t) \/ Redispatched(t)
               \/ DroppedWhenStopped(t)
    <2>1. run' = run /\ turn[t].at \in {"dispatch", "refused"}
      BY <1>2 DEF Steered, QueuedBehind, AdmissionRefused, Redispatched, DroppedWhenStopped, session
    <2> QED  BY <2>1
  <1>3. CASE QueueWaitOver(t)
    <2>1. run' # t /\ (run' = run \/ run' = Orphan)  BY <1>0, <1>3 DEF QueueWaitOver
    <2> QED  BY <1>0, <2>1
  <1>4. CASE Delivers(t)
    <2>1. run' = run /\ turn'[t].at = turn[t].at
      BY <1>4 DEF Delivers, session, Typed, Fields
    <2> QED  BY <2>1
  <1>5. CASE RunCrashes(t) \/ RunEnds(t)
    <2>1. run' = Idle  BY <1>5 DEF RunCrashes, RunEnds
    <2> QED  BY <1>0, <2>1
  <1> QED  BY <1>1, <1>2, <1>3, <1>4, <1>5 DEF DispatchStep

-----------------------------------------------------------------------------
(* The invariant.                                                          *)

IInv == TurnIInv /\ RunIsOpen

\* Whatever keeps the turns keeps the slots.
LEMMA KeepsSlots ==
  ASSUME TurnIInv, KeepsTurns
  PROVE  TurnIInv'
  <1>1. ASSUME NEW u \in Turns
        PROVE  /\ turn'[u].guarded = turn[u].guarded
               /\ turn[u].guarded => turn'[u].q = turn[u].q
               /\ turn'[u].at = "free" => ~turn'[u].stopped /\ ~turn'[u].guarded
    <2>1. CASE Open(u)  BY <2>1 DEF KeepsTurns, Kept
    <2>2. CASE ~Open(u)  BY <2>2 DEF KeepsTurns, TurnIInv, FreeIsQuiet
    <2> QED  BY <2>1, <2>2
  <1>2. Typed'  BY DEF TurnIInv, Typed, KeepsTurns
  <1>3. FreeIsQuiet'  BY <1>1 DEF FreeIsQuiet, Open
  <1>4. SlotOfItsOwn'
    BY <1>1 DEF TurnIInv, SlotOfItsOwn, Holds, KeepsTurns
  <1> QED  BY <1>2, <1>3, <1>4 DEF TurnIInv

LEMMA TakeUpInv ==
  ASSUME IInv, NEW m \in Msgs, TakeUp(m)
  PROVE  IInv'
  <1>1. PICK t \in Turns : ~Open(t) /\ turn' = [turn EXCEPT ![t] = Opened(m, TRUE, FALSE)]
    BY DEF TakeUp
  <1> DEFINE s == Opened(m, TRUE, FALSE)
  <1>2. s \in Fields /\ s.at = "dispatch" /\ s.q = m /\ s.guarded /\ ~s.stopped
    BY OpenedFields
  <1>3. turn' = [turn EXCEPT ![t] = s]  BY <1>1
  <1> HIDE DEF s
  <1>4. \A u \in Turns : turn'[u] = IF u = t THEN s ELSE turn[u]
    BY <1>3 DEF IInv, TurnIInv, Typed
  <1>5. m \notin inFlight /\ inFlight' = inFlight \cup {m} /\ run' = run
    BY DEF TakeUp, session
  <1>6. Typed'  BY <1>2, <1>3, <1>5 DEF IInv, TurnIInv, Typed
  <1>7. FreeIsQuiet'  BY <1>2, <1>4 DEF IInv, TurnIInv, FreeIsQuiet, Open
  <1>8. SlotOfItsOwn'
    <2>1. \A u \in Turns : turn[u].guarded => u # t /\ turn[u].q \in inFlight
      BY <1>1 DEF IInv, TurnIInv, SlotOfItsOwn, FreeIsQuiet
    <2>2. \A u \in Turns : turn'[u].guarded => turn'[u].q \in inFlight'
      BY <1>2, <1>4, <1>5, <2>1
    <2>3. \A n \in inFlight' : \E u \in Turns : Holds(u, n)'
      <3> SUFFICES ASSUME NEW n \in inFlight' PROVE \E u \in Turns : Holds(u, n)'  OBVIOUS
      <3>1. CASE n = m  BY <1>2, <1>4, <3>1 DEF Holds
      <3>2. CASE n # m
        <4>1. PICK u \in Turns : Holds(u, n)
          BY <1>5, <3>2 DEF IInv, TurnIInv, SlotOfItsOwn
        <4> QED  BY <1>4, <2>1, <4>1 DEF Holds
      <3> QED  BY <3>1, <3>2
    <2>4. \A u, v \in Turns : turn'[u].guarded /\ turn'[v].guarded /\ turn'[v].q = turn'[u].q => u = v
      BY <1>2, <1>4, <1>5, <2>1 DEF IInv, TurnIInv, SlotOfItsOwn, Holds
    <2> QED  BY <2>2, <2>3, <2>4 DEF SlotOfItsOwn, Holds
  <1>9. RunIsOpen'  BY <1>1, <1>4, <1>5 DEF IInv, RunIsOpen, Open
  <1> QED  BY <1>6, <1>7, <1>8, <1>9 DEF IInv, TurnIInv

\* What is left of a turn that ended holds no slot and is not stopped.
LEMMA AfterEndFields ==
  ASSUME Typed, NEW t \in Turns
  PROVE  /\ AfterEnd(t) \in Fields /\ ~AfterEnd(t).guarded /\ ~AfterEnd(t).stopped
         /\ turn[t].stopped => AfterEnd(t) = NoTurn
  <1>1. turn[t] \in Fields  BY DEF Typed
  <1>2. CASE turn[t].next = "none" \/ turn[t].stopped
    <2>1. AfterEnd(t) = NoTurn  BY <1>2 DEF AfterEnd
    <2> QED  BY <2>1, NoTurnFields
  <1>3. CASE ~(turn[t].next = "none" \/ turn[t].stopped)
    <2> DEFINE k == turn[t].reasked \/ turn[t].next = "reask"
    <2>1. AfterEnd(t) = Opened(turn[t].q, FALSE, k)  BY <1>3 DEF AfterEnd
    <2>2. turn[t].q \in Msgs \cup {NoMsg} /\ k \in BOOLEAN  BY <1>1 DEF Fields
    <2> HIDE DEF k
    <2> QED  BY <1>3, <2>1, <2>2, OpenedFields
  <1> QED  BY <1>2, <1>3

LEMMA EndTurnInv ==
  ASSUME IInv, NEW t \in Turns, EndTurn(t)
  PROVE  IInv'
  <1>0. Typed  BY DEF IInv, TurnIInv
  <1> DEFINE s == AfterEnd(t)
  <1>1. s \in Fields /\ ~s.guarded /\ ~s.stopped  BY <1>0, AfterEndFields
  <1>2. turn' = [turn EXCEPT ![t] = s] /\ run' = run /\ turn[t].at = "ending"
    BY DEF EndTurn, session
  <1> HIDE DEF s
  <1>3. \A u \in Turns : turn'[u] = IF u = t THEN s ELSE turn[u]  BY <1>0, <1>2 DEF Typed
  <1>4. inFlight' = IF turn[t].guarded THEN inFlight \ {turn[t].q} ELSE inFlight
    BY DEF EndTurn, Lifted
  <1>5. Typed'  BY <1>0, <1>1, <1>2, <1>4 DEF Typed
  <1>6. FreeIsQuiet'  BY <1>1, <1>3 DEF IInv, TurnIInv, FreeIsQuiet, Open
  <1>7. SlotOfItsOwn'
    <2>1. \A u \in Turns : turn'[u].guarded => u # t /\ turn[u].guarded /\ turn'[u] = turn[u]
      BY <1>1, <1>3
    <2>2. \A u \in Turns : turn'[u].guarded => turn'[u].q \in inFlight'
      BY <2>1, <1>4 DEF IInv, TurnIInv, SlotOfItsOwn, Holds
    <2>3. \A m \in inFlight' : \E u \in Turns : Holds(u, m)'
      BY <1>3, <1>4 DEF IInv, TurnIInv, SlotOfItsOwn, Holds
    <2>4. \A u, v \in Turns : turn'[u].guarded /\ turn'[v].guarded /\ turn'[v].q = turn'[u].q => u = v
      BY <2>1 DEF IInv, TurnIInv, SlotOfItsOwn, Holds
    <2> QED  BY <2>2, <2>3, <2>4 DEF SlotOfItsOwn, Holds
  <1>8. RunIsOpen'  BY <1>2, <1>3 DEF IInv, RunIsOpen
  <1> QED  BY <1>5, <1>6, <1>7, <1>8 DEF IInv, TurnIInv

-----------------------------------------------------------------------------
(* Every step.                                                             *)

\* The three steps that move slots.
MovesSlots ==
    \/ \E m \in Msgs : Accept(m) \/ AcceptStale(m)
    \/ \E t \in Turns : EndTurn(t)
    \/ GatewayDies

\* The steps of one turn, and of no turn in particular, that keep the turns.
LEMMA StepKeeps ==
  ASSUME IInv, [Next]_vars
  PROVE  MovesSlots \/ (KeepsTurns /\ RunIsOpen')
  <1>0. Typed /\ RunIsOpen  BY DEF IInv, TurnIInv
  <1>00. Idle \notin Turns /\ Background \notin Turns /\ Orphan \notin Turns
    BY InboundAssumption DEF Idle, Background, Orphan
  <1>1. ASSUME inFlight' = inFlight, turn' = turn,
               run' = run \/ run' \in {Idle, Background}
        PROVE  KeepsTurns /\ RunIsOpen'
    <2>1. \A u \in Turns : turn[u] \in Fields  BY <1>0 DEF Typed
    <2>2. KeepsTurns  BY <1>0, <1>1, <2>1 DEF KeepsTurns, Kept, Typed, Open
    <2> QED  BY <1>0, <1>00, <1>1, <2>2 DEF RunIsOpen
  <1>2. CASE UNCHANGED vars  BY <1>1, <1>2 DEF vars, session
  <1>3. ASSUME NEW m \in Msgs, OwnerWrites(m) \/ Accept(m) \/ AcceptStale(m)
        PROVE  MovesSlots \/ (KeepsTurns /\ RunIsOpen')
    BY <1>1, <1>3 DEF OwnerWrites, Accept, AcceptStale, MovesSlots, session
  <1>4. ASSUME NEW t \in Turns, TurnNext(t)
        PROVE  MovesSlots \/ (KeepsTurns /\ RunIsOpen')
    <2>1. CASE DispatchStep(t)  BY <1>0, <2>1, DispatchKeeps, DispatchRuns
    <2>2. CASE QueuedRuns(t)
      <3>1. /\ inFlight' = inFlight /\ turn' = turn /\ run' = t /\ turn[t].at = "queued"
        BY <2>2 DEF QueuedRuns
      <3>2. \A u \in Turns : turn[u] \in Fields  BY <1>0 DEF Typed
      <3>3. KeepsTurns  BY <1>0, <3>1, <3>2 DEF KeepsTurns, Kept, Typed, Open
      <3> QED  BY <3>1, <3>3 DEF RunIsOpen
    <2>3. CASE RepliesOutbound(t)
      <3>1. run' = run  BY <2>3 DEF RepliesOutbound, session
      <3> QED  BY <1>0, <2>3, <3>1, RepliesKeeps DEF RunIsOpen
    <2>4. CASE Finish(t)
      <3>1. run' = run /\ turn[t].at = "settled"  BY <2>4 DEF Finish
      <3> QED  BY <1>0, <2>4, <3>1, FinishKeeps DEF RunIsOpen, Only
    <2>5. CASE FinishForced(t)
      <3>1. run' = run /\ turn[t].at = "crashed"  BY <2>5 DEF FinishForced
      <3> QED  BY <1>0, <2>5, <3>1, ForcedKeeps DEF RunIsOpen, Only
    <2>6. CASE EndTurn(t)  BY <2>6 DEF MovesSlots
    <2> QED  BY <1>4, <2>1, <2>2, <2>3, <2>4, <2>5, <2>6 DEF TurnNext, DispatchStep
  <1>5. CASE BackgroundStarts \/ BackgroundEnds \/ OrphanEnds
    BY <1>1, <1>5 DEF BackgroundStarts, BackgroundEnds, OrphanEnds
  <1>6. CASE OwnerStops
    <2>1. run' = run  BY <1>6 DEF OwnerStops
    <2> QED  BY <1>0, <1>6, <2>1, StopsKeeps DEF RunIsOpen
  <1>7. CASE MarkExpires \/ VerdictExpires \/ ResumptionsForgotten
    BY <1>1, <1>7 DEF MarkExpires, VerdictExpires, ResumptionsForgotten
  <1>8. CASE GatewayDies  BY <1>8 DEF MovesSlots
  <1> QED  BY <1>2, <1>3, <1>4, <1>5, <1>6, <1>7, <1>8 DEF Next

LEMMA InitInv == Init => IInv
  <1> SUFFICES ASSUME Init PROVE IInv  OBVIOUS
  <1>1. turn = [t \in Turns |-> NoTurn] /\ inFlight = {} /\ run = Idle  BY DEF Init
  <1>2. \A t \in Turns : turn[t] = NoTurn  BY <1>1
  <1>3. Typed  BY <1>1, NoTurnFields DEF Typed
  <1>4. FreeIsQuiet /\ SlotOfItsOwn
    BY <1>1, <1>2, NoTurnFields DEF FreeIsQuiet, SlotOfItsOwn, Holds
  <1>5. RunIsOpen  BY <1>1, InboundAssumption DEF RunIsOpen, Idle
  <1> QED  BY <1>3, <1>4, <1>5 DEF IInv, TurnIInv

LEMMA StepInv == IInv /\ [Next]_vars => IInv'
  <1> SUFFICES ASSUME IInv, [Next]_vars PROVE IInv'  OBVIOUS
  <1>1. CASE KeepsTurns /\ RunIsOpen'  BY <1>1, KeepsSlots DEF IInv
  <1>2. CASE \E m \in Msgs : Accept(m) \/ AcceptStale(m)
    BY <1>2, TakeUpInv DEF Accept, AcceptStale
  <1>3. CASE \E t \in Turns : EndTurn(t)  BY <1>3, EndTurnInv
  <1>4. CASE GatewayDies
    <2>1. turn' = [t \in Turns |-> NoTurn] /\ inFlight' = {} /\ run' = Idle
      BY <1>4 DEF GatewayDies
    <2>2. \A t \in Turns : turn'[t] = NoTurn  BY <2>1
    <2>3. Typed'  BY <2>1, NoTurnFields DEF Typed
    <2>4. FreeIsQuiet' /\ SlotOfItsOwn'
      BY <2>1, <2>2, NoTurnFields DEF FreeIsQuiet, SlotOfItsOwn, Holds, Open
    <2>5. RunIsOpen'  BY <2>1, InboundAssumption DEF RunIsOpen, Idle
    <2> QED  BY <2>3, <2>4, <2>5 DEF IInv, TurnIInv
  <1> QED  BY <1>1, <1>2, <1>3, <1>4, StepKeeps DEF MovesSlots

-----------------------------------------------------------------------------
(* The theorems.                                                           *)

LEMMA Always == Spec => []IInv
  BY InitInv, StepInv, PTL DEF Spec

\* However turns interleave, crash, follow up and hand on: a slot of the in-flight guard has
\* exactly one turn, the one that frees it.
THEOREM SlotsAreHeld == Spec => []SlotHasItsTurn
  <1>1. IInv => SlotHasItsTurn
    <2> SUFFICES ASSUME IInv, NEW m \in Msgs
                 PROVE  Cardinality({t \in OpenFor(m) : turn[t].guarded})
                          = IF m \in inFlight THEN 1 ELSE 0
      BY DEF SlotHasItsTurn
    <2> DEFINE held == {t \in OpenFor(m) : turn[t].guarded}
    <2>1. \A t \in Turns : turn[t].guarded => Open(t)  BY DEF IInv, TurnIInv, FreeIsQuiet
    <2>2. held = {t \in Turns : Holds(t, m)}  BY <2>1 DEF OpenFor, Holds
    <2> HIDE DEF held
    <2>3. CASE m \in inFlight
      <3>1. PICK t \in Turns : Holds(t, m)  BY <2>3 DEF IInv, TurnIInv, SlotOfItsOwn
      <3>2. held = {t}
        BY <2>2, <3>1 DEF IInv, TurnIInv, SlotOfItsOwn, Holds
      <3> QED  BY <2>3, <3>2, FS_Singleton DEF held
    <2>4. CASE m \notin inFlight
      <3>1. held = {}  BY <2>2, <2>4 DEF IInv, TurnIInv, SlotOfItsOwn, Holds
      <3> QED  BY <2>4, <3>1, FS_EmptySet DEF held
    <2> QED  BY <2>3, <2>4
  <1> QED  BY <1>1, Always, PTL

\* A stop sticks: no step of any actor makes a stopped turn fail or follow up.
THEOREM StopSticks == Spec => StoppedStaysQuiet
  <1> DEFINE Quiet == \A t \in Turns :
               turn[t].stopped /\ turn'[t] # turn[t] /\ turn'[t].at # "free" =>
                   /\ turn'[t].stopped
                   /\ turn'[t].failed => turn[t].failed
  <1>1. IInv /\ [Next]_vars => [Quiet]_vars
    <2> SUFFICES ASSUME IInv, [Next]_vars, NEW t \in Turns,
                        turn[t].stopped, turn'[t] # turn[t], turn'[t].at # "free"
                 PROVE  turn'[t].stopped /\ (turn'[t].failed => turn[t].failed)
      OBVIOUS
    <2>0. Open(t) /\ Typed  BY DEF IInv, TurnIInv, FreeIsQuiet
    <2>1. CASE KeepsTurns  BY <2>0, <2>1 DEF KeepsTurns, Kept
    <2>2. ASSUME NEW m \in Msgs, Accept(m) \/ AcceptStale(m) PROVE FALSE
      BY <2>0, <2>2 DEF Accept, AcceptStale, TakeUp, Typed
    <2>3. ASSUME NEW u \in Turns, EndTurn(u) PROVE FALSE
      <3>1. u = t /\ turn'[t] = AfterEnd(t)  BY <2>0, <2>3 DEF EndTurn, Typed
      <3> QED  BY <2>0, <3>1, AfterEndFields, NoTurnFields
    <2>4. CASE GatewayDies
      <3>1. turn'[t] = NoTurn  BY <2>4 DEF GatewayDies
      <3> QED  BY <3>1, NoTurnFields
    <2> QED  BY <2>1, <2>2, <2>3, <2>4, StepKeeps DEF MovesSlots
  <1> QED  BY <1>1, Always, PTL DEF Spec, StoppedStaysQuiet

\* Only a turn's own end makes it end.
LEMMA WhoEnds ==
  ASSUME IInv, [Next]_vars, NEW t \in Turns,
         turn[t].at \in {"settled", "crashed"}, turn'[t].at = "ending"
  PROVE  Finish(t) \/ FinishForced(t)
  <1>0. Typed /\ RunIsOpen /\ Open(t)  BY DEF IInv, TurnIInv, Open
  <1>1. turn' # turn  OBVIOUS
  <1>2. ASSUME NEW m \in Msgs, OwnerWrites(m) \/ Accept(m) \/ AcceptStale(m) PROVE FALSE
    <2>1. TakeUp(m)  BY <1>1, <1>2 DEF OwnerWrites, Accept, AcceptStale
    <2>2. turn'[t] = turn[t]  BY <1>0, <2>1 DEF TakeUp, Typed
    <2> QED  BY <2>2
  <1>3. ASSUME NEW u \in Turns, TurnNext(u) PROVE u = t /\ (Finish(t) \/ FinishForced(t))
    <2>1. CASE DispatchStep(u)  BY <1>0, <2>1, DispatchKeeps DEF EndsNone
    <2>2. CASE QueuedRuns(u)  BY <1>1, <2>2 DEF QueuedRuns
    <2>3. CASE RepliesOutbound(u)
      <3>1. turn'[t].at = turn[t].at  BY <1>0, <2>3, RepliesKeeps
      <3> QED  BY <3>1
    <2>4. CASE Finish(u)
      <3>1. CASE u = t  BY <2>4, <3>1
      <3>2. CASE u # t
        <4>1. turn'[t] = turn[t]  BY <1>0, <2>4, <3>2, FinishKeeps DEF Only
        <4> QED  BY <4>1
      <3> QED  BY <3>1, <3>2
    <2>5. CASE FinishForced(u)
      <3>1. CASE u = t  BY <2>5, <3>1
      <3>2. CASE u # t
        <4>1. turn'[t] = turn[t]  BY <1>0, <2>5, <3>2, ForcedKeeps DEF Only
        <4> QED  BY <4>1
      <3> QED  BY <3>1, <3>2
    <2>6. CASE EndTurn(u)
      <3>1. turn[u].at = "ending"  BY <2>6 DEF EndTurn
      <3>2. turn'[t] = turn[t]  BY <1>0, <2>6, <3>1 DEF EndTurn, Typed
      <3> QED  BY <3>2
    <2> QED  BY <1>3, <2>1, <2>2, <2>3, <2>4, <2>5, <2>6 DEF TurnNext, DispatchStep
  <1>4. CASE OwnerStops
    <2>1. turn'[t].at = turn[t].at  BY <1>0, <1>4, StopsKeeps
    <2> QED  BY <2>1
  <1>5. CASE GatewayDies
    <2>1. turn'[t] = NoTurn  BY <1>5 DEF GatewayDies
    <2> QED  BY <2>1, NoTurnFields
  <1> QED
    BY <1>1, <1>2, <1>3, <1>4, <1>5
    DEF Next, vars, BackgroundStarts, BackgroundEnds, OrphanEnds, MarkExpires, VerdictExpires,
        ResumptionsForgotten

\* A turn that put nothing before the owner does not just end: whatever its dispatch, its run and
\* the recorded outcome came to, it says so, goes on, or was to stay silent.
THEOREM SilenceIsAnswered == Spec => NeverLeftInSilence
  <1> DEFINE Spoken == \A t \in Turns :
         /\ turn[t].at \in {"settled", "crashed"} /\ turn'[t].at = "ending"
         /\ ~turn[t].answered /\ ~turn'[t].failed /\ turn'[t].next = "none"
         => Stopped(t) \/ turn[t].steered \/ turn[t].reasked
  <1>1. IInv /\ [Next]_vars => [Spoken]_vars
    <2> SUFFICES ASSUME IInv, [Next]_vars, NEW t \in Turns,
                        turn[t].at \in {"settled", "crashed"}, turn'[t].at = "ending",
                        ~turn[t].answered, ~turn'[t].failed, turn'[t].next = "none",
                        ~Stopped(t), ~turn[t].steered, ~turn[t].reasked
                 PROVE  FALSE
      OBVIOUS
    <2>0. Typed  BY DEF IInv, TurnIInv
    <2>1. CASE FinishForced(t)  BY <2>0, <2>1, ForcedKeeps
    <2>2. CASE Finish(t)
      <3>1. turn'[t].failed = EndsFailed(t) /\ turn'[t].next = FollowUp(t)
        BY <2>0, <2>2, FinishKeeps
      <3>2. ~EndsFailed(t) /\ FollowUp(t) = "none"  BY <3>1
      <3>3. ~Silent(t)  BY <3>2 DEF FollowUp
      <3>4. turn[t].notice # "none"  BY <3>3 DEF Silent
      <3>5. ~Normal(t)  BY DEF Normal
      <3> QED  BY <3>2, <3>3, <3>4, <3>5 DEF EndsFailed
    <2> QED  BY <2>1, <2>2, WhoEnds
  <1> QED  BY <1>1, Always, PTL DEF Spec, NeverLeftInSilence


-----------------------------------------------------------------------------
(* One turn per message, and MessageLife.                                  *)

\* A turn outside the guard goes on after the cloud closed its message, unless the two disagree.
Together ==
    /\ cloud \in [Msgs -> {"unsent", "processing", "closed"}]
    /\ \A t \in Turns : Open(t) => turn[t].q \in Msgs
    /\ \A t, u \in Turns :
         Open(t) /\ Open(u) /\ turn[t].q = turn[u].q /\ turn[t].q \notin apart => t = u
    /\ \A t \in Turns :
         Open(t) /\ ~turn[t].guarded /\ turn[t].q \notin apart => cloud[turn[t].q] = "closed"

\* What the steps do to the cloud's side.
LEMMA CloudSide ==
  ASSUME [Next]_vars
  PROVE  /\ apart \subseteq apart'
         /\ \/ cloud' = cloud
            \/ \E m \in Msgs : OwnerWrites(m)
            \/ \E t \in Turns : EndTurn(t)
  <1>1. ASSUME NEW t \in Turns, TurnNext(t)
        PROVE  apart \subseteq apart' /\ (cloud' = cloud \/ EndTurn(t))
    <2>1. CASE Admitted(t) \/ Steered(t) \/ QueuedBehind(t) \/ QueuedRuns(t) \/ QueueWaitOver(t)
      BY <2>1 DEF Admitted, Steered, QueuedBehind, QueuedRuns, QueueWaitOver
    <2>2. CASE AdmissionRefused(t) \/ Redispatched(t) \/ DroppedWhenStopped(t)
      BY <2>2 DEF AdmissionRefused, Redispatched, DroppedWhenStopped
    <2>3. CASE Delivers(t) \/ RepliesOutbound(t) \/ RunEnds(t) \/ RunCrashes(t)
      BY <2>3 DEF Delivers, Lose, RepliesOutbound, RunEnds, RunCrashes
    <2>4. CASE Finish(t) \/ FinishForced(t)  BY <2>4 DEF Finish, FinishForced
    <2>5. CASE EndTurn(t)  BY <2>5 DEF EndTurn, Lose
    <2> QED  BY <1>1, <2>1, <2>2, <2>3, <2>4, <2>5 DEF TurnNext
  <1>2. ASSUME NEW m \in Msgs, OwnerWrites(m) \/ Accept(m) \/ AcceptStale(m)
        PROVE  apart \subseteq apart' /\ (cloud' = cloud \/ OwnerWrites(m))
    BY <1>2 DEF OwnerWrites, Accept, AcceptStale, TakeUp
  <1>3. CASE BackgroundStarts \/ BackgroundEnds \/ OrphanEnds \/ OwnerStops
    BY <1>3 DEF BackgroundStarts, BackgroundEnds, OrphanEnds, OwnerStops
  <1>4. CASE MarkExpires \/ VerdictExpires \/ ResumptionsForgotten \/ GatewayDies
    BY <1>4 DEF MarkExpires, VerdictExpires, ResumptionsForgotten, GatewayDies
  <1>5. CASE UNCHANGED vars  BY <1>5 DEF vars
  <1> QED  BY <1>1, <1>2, <1>3, <1>4, <1>5 DEF Next

\* A turn that stays keeps its message, and none opens.
LEMMA KeepsTogether ==
  ASSUME IInv, Together, KeepsTurns, apart \subseteq apart',
         cloud' = cloud \/ \E m \in Msgs : OwnerWrites(m)
  PROVE  Together'
  <1>1. ASSUME NEW u \in Turns, Open(u)'
        PROVE  Open(u) /\ turn'[u].q = turn[u].q /\ turn'[u].guarded = turn[u].guarded
    <2>1. Open(u)  BY <1>1 DEF KeepsTurns, Open
    <2> QED  BY <2>1 DEF KeepsTurns, Kept
  <1>2. /\ cloud' \in [Msgs -> {"unsent", "processing", "closed"}]
        /\ \A m \in Msgs : cloud[m] = "closed" => cloud'[m] = "closed"
    BY DEF Together, OwnerWrites
  <1> QED  BY <1>1, <1>2 DEF Together

LEMMA AcceptTogether ==
  ASSUME IInv, Together, NEW m \in Msgs, Accept(m) \/ AcceptStale(m)
  PROVE  Together'
  <1>0. TakeUp(m) /\ cloud' = cloud /\ m \notin inFlight /\ apart \subseteq apart'
    BY DEF Accept, AcceptStale, TakeUp
  <1>1. PICK t \in Turns : ~Open(t) /\ turn' = [turn EXCEPT ![t] = Opened(m, TRUE, FALSE)]
    BY <1>0 DEF TakeUp
  <1> DEFINE s == Opened(m, TRUE, FALSE)
  <1>2. s.q = m /\ s.guarded /\ s.at # "free"  BY OpenedFields
  <1>3. turn' = [turn EXCEPT ![t] = s]  BY <1>1
  <1> HIDE DEF s
  <1>4. \A u \in Turns : turn'[u] = IF u = t THEN s ELSE turn[u]
    BY <1>3 DEF IInv, TurnIInv, Typed
  <1>5. m \in apart' \/ \A u \in Turns : Open(u) => turn[u].q # m
    <2>1. CASE AcceptStale(m)  BY <2>1 DEF AcceptStale
    <2>2. CASE Accept(m)
      <3>1. cloud[m] = "processing" /\ apart' = apart  BY <2>2 DEF Accept
      <3>2. ASSUME NEW u \in Turns, Open(u), turn[u].q = m, m \notin apart PROVE FALSE
        <4>1. ~turn[u].guarded  BY <1>0, <3>2 DEF IInv, TurnIInv, SlotOfItsOwn
        <4> QED  BY <3>1, <3>2, <4>1 DEF Together
      <3> QED  BY <3>1, <3>2
    <2> QED  BY <2>1, <2>2
  <1>6. ASSUME NEW u \in Turns, Open(u)', u # t
        PROVE  Open(u) /\ turn'[u] = turn[u]
    BY <1>4, <1>6 DEF Open
  <1> QED  BY <1>0, <1>2, <1>4, <1>5, <1>6 DEF Together

\* What a turn that ends leaves in its place: nothing, or a follow-up outside the guard.
LEMMA EndedTurn ==
  ASSUME IInv, NEW t \in Turns, EndTurn(t)
  PROVE  \E s \in Fields :
           /\ \A u \in Turns : turn'[u] = IF u = t THEN s ELSE turn[u]
           /\ ~s.guarded /\ (s.at = "free" \/ s.q = turn[t].q)
  <1>0. Typed /\ turn[t] \in Fields  BY DEF IInv, TurnIInv, Typed
  <1> DEFINE s == AfterEnd(t)
             q == turn[t].q
  <1>1. turn' = [turn EXCEPT ![t] = s]  BY DEF EndTurn
  <1>2. s \in Fields /\ ~s.guarded  BY <1>0, AfterEndFields
  <1>3. s.at = "free" \/ s.q = q
    <2>1. CASE s = NoTurn  BY <2>1, NoTurnFields
    <2>2. CASE s # NoTurn
      <3> DEFINE k == turn[t].reasked \/ turn[t].next = "reask"
      <3>1. s = Opened(q, FALSE, k)  BY <2>2 DEF AfterEnd
      <3>2. k \in BOOLEAN /\ q \in Msgs \cup {NoMsg}  BY <1>0 DEF Fields
      <3> HIDE DEF k
      <3>3. Opened(q, FALSE, k).q = q  BY <3>2, OpenedFields
      <3> QED  BY <3>1, <3>3
    <2> QED  BY <2>1, <2>2
  <1> HIDE DEF s
  <1>4. \A u \in Turns : turn'[u] = IF u = t THEN s ELSE turn[u]  BY <1>0, <1>1 DEF Typed
  <1> QED  BY <1>2, <1>3, <1>4

LEMMA EndTogether ==
  ASSUME IInv, Together, NEW t \in Turns, EndTurn(t)
  PROVE  Together'
  <1> DEFINE q == turn[t].q
  <1>1. Open(t)  BY DEF EndTurn, Open
  <1>2. PICK s \in Fields :
          /\ \A u \in Turns : turn'[u] = IF u = t THEN s ELSE turn[u]
          /\ ~s.guarded /\ (s.at = "free" \/ s.q = q)
    BY EndedTurn
  <1>4. /\ cloud' \in [Msgs -> {"unsent", "processing", "closed"}] /\ apart \subseteq apart'
        /\ \A m \in Msgs : cloud[m] = "closed" => cloud'[m] = "closed"
        /\ cloud'[q] = "closed" \/ q \in apart'
    BY <1>1 DEF Together, EndTurn, Lose
  <1>5. ASSUME NEW u \in Turns, Open(u)'
        PROVE  /\ Open(u) /\ turn'[u].q = turn[u].q
               /\ u # t => turn'[u] = turn[u]
               /\ u = t => ~turn'[u].guarded
    BY <1>1, <1>2, <1>5 DEF Open
  <1>6. q \in Msgs  BY <1>1 DEF Together
  <1>7. \A u \in Turns : Open(u)' => turn'[u].q \in Msgs  BY <1>5 DEF Together
  <1>8. \A u, v \in Turns :
          Open(u)' /\ Open(v)' /\ turn'[u].q = turn'[v].q /\ turn'[u].q \notin apart' => u = v
    BY <1>4, <1>5 DEF Together
  <1>9. \A u \in Turns :
          Open(u)' /\ ~turn'[u].guarded /\ turn'[u].q \notin apart' => cloud'[turn'[u].q] = "closed"
    <2> SUFFICES ASSUME NEW u \in Turns, Open(u)', ~turn'[u].guarded, turn'[u].q \notin apart'
                 PROVE  cloud'[turn'[u].q] = "closed"
      OBVIOUS
    <2>1. CASE u = t  BY <1>4, <1>5, <2>1
    <2>2. CASE u # t
      <3>1. cloud[turn[u].q] = "closed" /\ turn[u].q \in Msgs  BY <1>4, <1>5, <2>2 DEF Together
      <3> QED  BY <1>4, <1>5, <2>2, <3>1
    <2> QED  BY <2>1, <2>2
  <1> QED  BY <1>4, <1>7, <1>8, <1>9 DEF Together

LEMMA AlwaysTogether == Spec => []Together
  <1>1. Init => Together
    <2> SUFFICES ASSUME Init PROVE Together  OBVIOUS
    <2>1. \A t \in Turns : ~Open(t)  BY NoTurnFields DEF Init, Open
    <2> QED  BY <2>1 DEF Init, Together
  <1>2. IInv /\ Together /\ [Next]_vars => Together'
    <2> SUFFICES ASSUME IInv, Together, [Next]_vars PROVE Together'  OBVIOUS
    <2>1. CASE \E t \in Turns : EndTurn(t)  BY <2>1, EndTogether
    <2>2. CASE \E m \in Msgs : Accept(m) \/ AcceptStale(m)  BY <2>2, AcceptTogether
    <2>3. CASE GatewayDies
      <3>1. turn' = [t \in Turns |-> NoTurn] /\ cloud' = cloud  BY <2>3 DEF GatewayDies
      <3>2. \A t \in Turns : ~Open(t)'  BY <3>1, NoTurnFields DEF Open
      <3> QED  BY <3>1, <3>2 DEF Together
    <2>4. CASE KeepsTurns /\ ~\E t \in Turns : EndTurn(t)
      BY <2>4, CloudSide, KeepsTogether
    <2> QED  BY <2>1, <2>2, <2>3, <2>4, StepKeeps DEF MovesSlots
  <1> QED  BY <1>1, <1>2, Always, PTL DEF Spec

\* Repeated copies, catch-ups, follow-ups and stops put no second turn on a message.
THEOREM OneTurnEach == Spec => []OneTurnPerMessage
  <1>1. Together => OneTurnPerMessage
    <2> SUFFICES ASSUME Together, NEW m \in Msgs \ apart
                 PROVE  Cardinality(OpenFor(m)) <= 1
      BY DEF OneTurnPerMessage
    <2>1. CASE OpenFor(m) = {}  BY <2>1, FS_EmptySet
    <2>2. CASE OpenFor(m) # {}
      <3>1. PICK t \in Turns : Open(t) /\ turn[t].q = m  BY <2>2 DEF OpenFor
      <3>2. OpenFor(m) = {t}  BY <3>1 DEF OpenFor, Together
      <3> QED  BY <3>2, FS_Singleton
    <2> QED  BY <2>1, <2>2
  <1> QED  BY <1>1, AlwaysTogether, PTL

-----------------------------------------------------------------------------
(* The refinement.                                                         *)

looseMsgs == {turn[t].q : t \in {u \in Turns : Open(u) /\ ~turn[u].guarded}}

LEMMA KeepsLoose ==
  ASSUME KeepsTurns
  PROVE  looseMsgs' = looseMsgs
  <1>1. ASSUME NEW u \in Turns, Open(u) \/ Open(u)'
        PROVE  /\ Open(u) /\ Open(u)' /\ turn'[u].q = turn[u].q
               /\ turn'[u].guarded = turn[u].guarded
    <2>1. Open(u)  BY <1>1 DEF KeepsTurns, Open
    <2> QED  BY <2>1 DEF KeepsTurns, Kept, Open
  <1> QED  BY <1>1 DEF looseMsgs

LEMMA EndLoose ==
  ASSUME IInv, Together, NEW t \in Turns, EndTurn(t)
  PROVE  /\ turn[t].q \in Msgs
         /\ turn[t].guarded => looseMsgs' \in {looseMsgs, looseMsgs \cup {turn[t].q}}
         /\ ~turn[t].guarded => /\ turn[t].q \in looseMsgs
                                /\ looseMsgs' \in {looseMsgs, looseMsgs \ {turn[t].q}}
  <1> DEFINE q == turn[t].q
             others == {turn[u].q : u \in {v \in Turns \ {t} : Open(v) /\ ~turn[v].guarded}}
  <1>1. q \in Msgs /\ Open(t)  BY DEF Together, EndTurn, Open
  <1>2. PICK s \in Fields :
          /\ \A u \in Turns : turn'[u] = IF u = t THEN s ELSE turn[u]
          /\ ~s.guarded /\ (s.at = "free" \/ s.q = q)
    BY EndedTurn
  <1>3. looseMsgs = IF turn[t].guarded THEN others ELSE others \cup {q}
    BY <1>1 DEF looseMsgs
  <1>4. looseMsgs' = IF s.at = "free" THEN others ELSE others \cup {q}
    <2>1. CASE s.at = "free"  BY <1>2, <2>1 DEF looseMsgs, Open
    <2>2. CASE s.at # "free"  BY <1>2, <2>2 DEF looseMsgs, Open
    <2> QED  BY <2>1, <2>2
  <1> HIDE DEF others
  <1> QED  BY <1>1, <1>3, <1>4

LEMMA AcceptLoose ==
  ASSUME IInv, NEW m \in Msgs, TakeUp(m)
  PROVE  looseMsgs' = looseMsgs
  <1>1. PICK t \in Turns : ~Open(t) /\ turn' = [turn EXCEPT ![t] = Opened(m, TRUE, FALSE)]
    BY DEF TakeUp
  <1> DEFINE s == Opened(m, TRUE, FALSE)
  <1>2. s.guarded  BY OpenedFields
  <1>3. turn' = [turn EXCEPT ![t] = s]  BY <1>1
  <1> HIDE DEF s
  <1>4. \A u \in Turns : turn'[u] = IF u = t THEN s ELSE turn[u]
    BY <1>3 DEF IInv, TurnIInv, Typed
  <1> DEFINE L == {u \in Turns : Open(u) /\ ~turn[u].guarded}
  <1>5. \A u \in Turns : Open(u)' /\ ~turn'[u].guarded <=> Open(u) /\ ~turn[u].guarded
    BY <1>1, <1>2, <1>4 DEF Open
  <1>6. \A u \in L : turn'[u] = turn[u]  BY <1>1, <1>4
  <1>7. looseMsgs' = {turn'[u].q : u \in L}  BY <1>5 DEF looseMsgs
  <1> QED  BY <1>6, <1>7 DEF looseMsgs

LEMMA StepLives ==
  ASSUME IInv, Together, [Next]_vars
  PROVE  [Life!LifeNext]_Life!lifeVars
  <1> USE DEF Life!LifeNext, Life!lifeVars
  <1>0. {turn[t].q : t \in {u \in Turns : Open(u) /\ ~turn[u].guarded}} = looseMsgs
    BY DEF looseMsgs
  <1>1. ASSUME NEW m \in Msgs, Accept(m) \/ AcceptStale(m)
        PROVE  Life!TakenUp(m)
    <2>1. TakeUp(m) /\ cloud[m] # "unsent"  BY <1>1 DEF Accept, AcceptStale
    <2>2. looseMsgs' = looseMsgs  BY <2>1, AcceptLoose
    <2> QED  BY <2>1, <2>2 DEF TakeUp, Life!TakenUp, looseMsgs
  <1>2. ASSUME NEW t \in Turns, EndTurn(t), NEW m \in Msgs, m = turn[t].q
        PROVE  Life!GuardLifted(m) \/ Life!LooseWorkEnds(m)
    <2>1. Life!Closing(m)  BY <1>2 DEF EndTurn, Life!Closing
    <2>2. CASE turn[t].guarded
      <3>1. m \in inFlight /\ inFlight' = inFlight \ {m}
        BY <1>2, <2>2 DEF EndTurn, Lifted, IInv, TurnIInv, SlotOfItsOwn
      <3>2. looseMsgs' \in {looseMsgs, looseMsgs \cup {m}}  BY <1>2, <2>2, EndLoose
      <3> QED  BY <2>1, <3>1, <3>2 DEF Life!GuardLifted, looseMsgs
    <2>3. CASE ~turn[t].guarded
      <3>1. inFlight' = inFlight  BY <1>2, <2>3 DEF EndTurn, Lifted
      <3>2. m \in looseMsgs /\ looseMsgs' \in {looseMsgs, looseMsgs \ {m}}
        BY <1>2, <2>3, EndLoose
      <3> QED  BY <2>1, <3>1, <3>2 DEF Life!LooseWorkEnds, looseMsgs
    <2> QED  BY <2>2, <2>3
  <1>3. CASE GatewayDies
    <2>1. turn' = [t \in Turns |-> NoTurn] /\ inFlight' = {} /\ cloud' = cloud
      BY <1>3 DEF GatewayDies
    <2>2. looseMsgs' = {}  BY <2>1, NoTurnFields DEF looseMsgs, Open
    <2> QED  BY <2>1, <2>2 DEF Life!GatewayGone, looseMsgs
  <1>4. ASSUME KeepsTurns, cloud' = cloud \/ \E m \in Msgs : OwnerWrites(m)
        PROVE  [Life!LifeNext]_Life!lifeVars
    <2>1. inFlight' = inFlight /\ looseMsgs' = looseMsgs  BY <1>4, KeepsLoose DEF KeepsTurns
    <2>2. CASE cloud' = cloud  BY <2>1, <2>2 DEF looseMsgs
    <2>3. ASSUME NEW m \in Msgs, OwnerWrites(m) PROVE Life!Sends(m)
      BY <2>1, <2>3 DEF OwnerWrites, Life!Sends, looseMsgs
    <2> QED  BY <1>4, <2>2, <2>3
  <1>5. CASE MovesSlots
    <2>1. CASE \E m \in Msgs : Accept(m) \/ AcceptStale(m)  BY <1>1, <2>1
    <2>2. CASE \E t \in Turns : EndTurn(t)
      <3>1. PICK t \in Turns : EndTurn(t)  BY <2>2
      <3>2. turn[t].q \in Msgs  BY <3>1, EndLoose
      <3>3. PICK m \in Msgs : m = turn[t].q  BY <3>2
      <3> QED  BY <1>2, <3>1, <3>3
    <2> QED  BY <1>3, <1>5, <2>1, <2>2 DEF MovesSlots
  <1>6. CASE ~MovesSlots
    <2>1. KeepsTurns  BY <1>6, StepKeeps
    <2>2. cloud' = cloud \/ \E m \in Msgs : OwnerWrites(m)  BY <1>6, CloudSide DEF MovesSlots
    <2> HIDE DEF Life!LifeNext, Life!lifeVars
    <2> QED  BY <1>4, <2>1, <2>2
  <1> QED  BY <1>5, <1>6

\* Whatever the gateway does with a message is what the chat promises about one.
THEOREM LifeKept == Spec => KeepsMessageLife
  <1>1. Init => Life!LifeInit
    <2> SUFFICES ASSUME Init PROVE Life!LifeInit  OBVIOUS
    <2>1. \A t \in Turns : ~Open(t)  BY NoTurnFields DEF Init, Open
    <2> QED  BY <2>1 DEF Init, Life!LifeInit
  <1> QED  BY <1>1, StepLives, Always, AlwaysTogether, PTL DEF Spec, KeepsMessageLife, Life!LifeSpec

-----------------------------------------------------------------------------
(* What follows of the refinement.                                         *)

\* Every step of a message's life works on what the owner wrote, and closes only what is worked on.
LEMMA LifeGoesOn ==
  ASSUME Life!WorkIsWritten, [Life!LifeNext]_Life!lifeVars
  PROVE  /\ Life!WorkIsWritten'
         /\ \A m \in Msgs : cloud'[m] # cloud[m] =>
              \/ cloud[m] = "unsent" /\ cloud'[m] = "processing"
              \/ /\ cloud[m] = "processing" /\ cloud'[m] = "closed"
                 /\ m \in inFlight \cup looseMsgs
  <1>0. {turn[t].q : t \in {u \in Turns : Open(u) /\ ~turn[u].guarded}} = looseMsgs
    BY DEF looseMsgs
  <1> DEFINE Goal ==
        /\ cloud' \in [Msgs -> {"unsent", "processing", "closed"}]
        /\ \A m \in inFlight' \cup looseMsgs' : m \in Msgs /\ cloud'[m] # "unsent"
        /\ \A m \in Msgs : cloud'[m] # cloud[m] =>
              \/ cloud[m] = "unsent" /\ cloud'[m] = "processing"
              \/ /\ cloud[m] = "processing" /\ cloud'[m] = "closed"
                 /\ m \in inFlight \cup looseMsgs
  <1>1. /\ cloud \in [Msgs -> {"unsent", "processing", "closed"}]
        /\ \A m \in inFlight \cup looseMsgs : m \in Msgs /\ cloud[m] # "unsent"
    BY <1>0 DEF Life!WorkIsWritten
  <1>2. ASSUME NEW m \in Msgs, Life!Sends(m) PROVE Goal
    <2>1. /\ cloud[m] = "unsent" /\ cloud' = [cloud EXCEPT ![m] = "processing"]
          /\ inFlight' = inFlight /\ looseMsgs' = looseMsgs
      BY <1>2 DEF Life!Sends, looseMsgs
    <2> QED BY <1>1, <2>1
  <1>3. ASSUME NEW m \in Msgs, Life!TakenUp(m) PROVE Goal
    <2>1. /\ cloud[m] # "unsent" /\ cloud' = cloud
          /\ inFlight' = inFlight \cup {m} /\ looseMsgs' = looseMsgs
      BY <1>3 DEF Life!TakenUp, looseMsgs
    <2> QED BY <1>1, <2>1
  <1>4. ASSUME NEW m \in Msgs, Life!GuardLifted(m) PROVE Goal
    <2>1. /\ m \in inFlight /\ cloud' \in {cloud, [cloud EXCEPT ![m] = "closed"]}
          /\ inFlight' = inFlight \ {m} /\ looseMsgs' \in {looseMsgs, looseMsgs \cup {m}}
      BY <1>4 DEF Life!GuardLifted, Life!Closing, looseMsgs
    <2> QED BY <1>1, <2>1
  <1>5. ASSUME NEW m \in Msgs, Life!LooseWorkEnds(m) PROVE Goal
    <2>1. /\ m \in looseMsgs /\ cloud' \in {cloud, [cloud EXCEPT ![m] = "closed"]}
          /\ inFlight' = inFlight /\ looseMsgs' \in {looseMsgs, looseMsgs \ {m}}
      BY <1>5 DEF Life!LooseWorkEnds, Life!Closing, looseMsgs
    <2> QED BY <1>1, <2>1
  <1>6. ASSUME Life!GatewayGone PROVE Goal
    <2>1. cloud' = cloud /\ inFlight' = {} /\ looseMsgs' = {}
      BY <1>6 DEF Life!GatewayGone, looseMsgs
    <2> QED BY <1>1, <2>1
  <1>7. ASSUME UNCHANGED Life!lifeVars PROVE Goal
    <2>1. cloud' = cloud /\ inFlight' = inFlight /\ looseMsgs' = looseMsgs
      BY <1>7 DEF Life!lifeVars, looseMsgs
    <2> QED BY <1>1, <2>1
  <1>8. Goal
    <2> HIDE DEF Goal
    <2> QED BY <1>2, <1>3, <1>4, <1>5, <1>6, <1>7 DEF Life!LifeNext
  <1> QED BY <1>8 DEF Life!WorkIsWritten, looseMsgs

\* The plugin works only on what the owner wrote, and nothing but work on a message closes it at
\* the cloud: not a repeated copy, a stop, a crash or a call that comes late; and nothing that was
\* closed is opened again (MessageLife.ClosedByWork, of the turns in the gateway).
THEOREM ClosedByTurns == Spec => []Life!WorkIsWritten /\ Life!ClosedByWork
  <1>1. Life!LifeInit => Life!WorkIsWritten
    BY DEF Life!LifeInit, Life!WorkIsWritten
  <1>2. Life!WorkIsWritten /\ [Life!LifeNext]_Life!lifeVars => Life!WorkIsWritten'
    BY LifeGoesOn
  <1>3. Life!WorkIsWritten /\ [Life!LifeNext]_Life!lifeVars =>
          [\A m \in Msgs : cloud'[m] # cloud[m] =>
             \/ cloud[m] = "unsent" /\ cloud'[m] = "processing"
             \/ cloud[m] = "processing" /\ cloud'[m] = "closed"
                  /\ m \in inFlight \cup {turn[t].q : t \in {u \in Turns : Open(u) /\ ~turn[u].guarded}}
          ]_Life!lifeVars
    BY LifeGoesOn DEF looseMsgs
  <1> QED BY <1>1, <1>2, <1>3, LifeKept, PTL DEF KeepsMessageLife, Life!LifeSpec, Life!ClosedByWork

=============================================================================
