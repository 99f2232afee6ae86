---------------------------- MODULE ThinkingStream ----------------------------
(***************************************************************************)
(* Who tells the owner what a run was thinking.  A specialist's thinking   *)
(* is told while it works, from the engine's events; what the stream never *)
(* saw is read from the transcript when an attempt of the run has ended,   *)
(* and so is the thinking of a completion run.  Both paths see every run,  *)
(* and must not both speak.                                                *)
(*                                                                         *)
(* All of the bookkeeping is keyed by run, so one run is followed here,    *)
(* with the spawns that connect its session to the chat.  Thinking is a    *)
(* sequence of pieces, the pieces of a model round one block.              *)
(***************************************************************************)
EXTENDS Naturals, SequencesExt

CONSTANTS
    MaxPieces,    \* bound: pieces of thinking the run writes
    MaxAttempts,  \* bound: attempts of the run
    MaxLost       \* bound: posts that fail for good

ASSUME ThinkingAssumption == MaxPieces \in Nat /\ MaxAttempts \in Nat \ {0} /\ MaxLost \in Nat

VARIABLES
    kind,         \* specialist (of a chat), grandchild (of a specialist), completion, live
    origins,      \* SubagentOrigins: sessions with a chat, the run's own and its requester's
    spawns,       \* subagent_spawned hooks not run yet
    phase,        \* new, running, over
    attempt,
    shape,        \* what the model emits: cumulative text, delta, or nothing
    rounds,       \* the transcript: for each piece, its round
    newRound,     \* the next piece opens a round
    ends,         \* agent_end hooks not run yet
    terminal,     \* the terminal lifecycle event is still to come
    marks,        \* of sessionKeyByRun, ignoredRuns, liveRuns, streamedRuns, finishedRuns
    prior, buf,   \* of the live run: how far its text was seen, and what was not posted
    chain,        \* posts that wait in its FIFO
    turn,         \* its turn: none, due, open, closed, lost
    relayed,      \* rounds remembered as reported
    relays,       \* per attempt, the rounds its relay has still to post, and its turn
    told,         \* history: how often the owner was told a piece
    early,        \* history: thinking came before the session's origin was known
    missed,       \* history: the pieces of the posts that failed
    amiss,        \* history: given up, declined to answer, or never traced
    lost

bookkeeping == <<origins, spawns, marks, prior, buf>>
posts       == <<chain, turn, relays, told, missed, amiss, lost>>
engine      == <<kind, phase, attempt, shape, rounds, newRound, ends, terminal, early>>
thinkVars   == <<engine, bookkeeping, posts, relayed>>

Pieces   == 1..MaxPieces
Attempts == 1..MaxAttempts
Written  == Len(rounds)
Round    == IF Written = 0 THEN 0 ELSE Last(rounds)
Shapes   == {"text", "delta", "nothing"}
Marks    == {"session", "ignored", "live", "streamed", "finished"}
Idle     == [left |-> {}, turn |-> "none"]

ThinkingTypeOK ==
    /\ kind \in {"specialist", "grandchild", "completion", "live"}
    /\ origins \subseteq {"own", "parent"} /\ spawns \subseteq {"own", "parent"}
    /\ phase \in {"new", "running", "over"} /\ attempt \in Attempts /\ shape \in Shapes
    /\ rounds \in Seq(Pieces) /\ newRound \in BOOLEAN /\ terminal \in BOOLEAN
    /\ ends \subseteq [attempt : Attempts, upto : 0..MaxPieces, silent : BOOLEAN]
    /\ marks \subseteq Marks /\ prior \in 0..MaxPieces /\ buf \in Seq(Pieces)
    /\ chain \in Seq(Seq(Pieces)) /\ turn \in {"none", "due", "open", "closed", "lost"}
    /\ relayed \subseteq Pieces /\ told \in [Pieces -> Nat] /\ missed \subseteq Pieces
    /\ early \in BOOLEAN /\ amiss \in BOOLEAN

ThinkingInit ==
    /\ kind \in {"specialist", "grandchild", "completion", "live"}
    /\ origins = {}
    /\ spawns = CASE kind = "specialist" -> {"own"}
                  [] kind = "grandchild" -> {"own", "parent"}
                  [] OTHER -> {}
    /\ phase = "new" /\ attempt = 1 /\ shape \in Shapes
    /\ rounds = <<>> /\ newRound = TRUE /\ ends = {} /\ terminal = FALSE
    /\ marks = {} /\ prior = 0 /\ buf = <<>> /\ chain = <<>> /\ turn = "none"
    /\ relayed = {} /\ relays = [a \in Attempts |-> Idle]
    /\ told = [p \in Pieces |-> 0] /\ missed = {} /\ early = FALSE /\ amiss = FALSE /\ lost = 0

-----------------------------------------------------------------------------
(* Spawns: a session's chat is its requester's, if that one is followed.   *)

Traced(s) == s = "parent" \/ kind = "specialist" \/ "parent" \in origins

SpawnHook(s) ==
    /\ s \in spawns /\ spawns' = spawns \ {s}
    /\ origins' = IF Traced(s) THEN origins \cup {s} ELSE origins
    /\ UNCHANGED <<engine, marks, prior, buf, posts, relayed>>

-----------------------------------------------------------------------------
(* The live stream.                                                        *)

IsSpecialist == kind \in {"specialist", "grandchild"}

\* A thinking event of this run is told: it is followed already, or can be from now on.
CanFollow == /\ marks \cap {"ignored", "finished"} = {}
             /\ "session" \in marks /\ IsSpecialist /\ "own" \in origins
Follows   == "live" \in marks \/ CanFollow

\* What resolveRun remembers about the run.
Resolved ==
    IF Follows THEN marks \cup {"live"}
    ELSE IF ~IsSpecialist \/ "session" \notin marks
         THEN marks \cup (IF "finished" \in marks THEN {} ELSE {"ignored"})
    ELSE marks

\* The pieces after a up to b, in order.
Stretch(a, b) == [i \in 1..(b - a) |-> a + i]

\* The part of the event not seen before: text grows from the start of its round.
Unseen(written) ==
    LET text == {p \in DOMAIN written : written[p] = Last(written)}
        new  == IF shape = "delta" THEN {Len(written)} ELSE {p \in text : p > prior}
    IN Stretch(Len(written) - Cardinality(new), Len(written))

\* post: the first n of what is held go to the FIFO.
Posted(held, n) == IF n = 0 THEN chain ELSE Append(chain, SubSeq(held, 1, n))

\* onThinking: buffered, and posted once there is enough of it.
OnThinking(written) ==
    /\ early' = (early \/ (IsSpecialist /\ ~Follows))
    /\ IF ~Follows THEN marks' = Resolved /\ UNCHANGED <<prior, buf, chain>>
       ELSE LET held == buf \o Unseen(written) IN
            /\ prior' = IF shape = "text" THEN Len(written) ELSE prior
            /\ \E n \in 0..Len(held) :
                 /\ chain' = Posted(held, n) /\ buf' = SubSeq(held, n + 1, Len(held))
                 /\ marks' = Resolved \cup (IF n > 0 THEN {"streamed"} ELSE {})

\* finishStreamedRun: nothing, but for a run that is followed.
FinishStreamed ==
    IF "live" \notin marks
    THEN marks' = marks \ {"session", "ignored"} /\ UNCHANGED <<buf, chain, turn>>
    ELSE /\ marks' = (marks \ {"session", "ignored", "live"}) \cup {"finished", "streamed"}
         /\ buf' = <<>> /\ chain' = Posted(buf, Len(buf))
         /\ turn' = "due"

\* Mutant of AfterFailure: the post that fails takes those behind it along.
ChainBreaks == <<>>

AfterFailure == Tail(chain)

Says(p) == Cardinality({i \in DOMAIN Head(chain) : Head(chain)[i] = p})

\* The FIFO: a post that fails is logged, and the next one goes out.
PostsThought ==
    /\ chain # <<>>
    /\ \/ /\ told' = [p \in Pieces |-> told[p] + Says(p)]
          /\ chain' = Tail(chain) /\ UNCHANGED <<missed, lost>>
       \/ /\ lost < MaxLost /\ lost' = lost + 1
          /\ missed' = missed \cup {p \in Pieces : Says(p) > 0}
          /\ chain' = AfterFailure /\ UNCHANGED told
    /\ UNCHANGED <<engine, bookkeeping, turn, relays, amiss, relayed>>

\* An empty turn carries the thoughts; it is opened after the last of them.
ClosesStreamTurn ==
    /\ turn \in {"due", "open"} /\ chain = <<>>
    /\ \/ turn' = (IF turn = "due" THEN "open" ELSE "closed") /\ UNCHANGED lost
       \/ lost < MaxLost /\ lost' = lost + 1 /\ turn' = "lost"
    /\ UNCHANGED <<engine, bookkeeping, chain, relays, told, missed, amiss, relayed>>

\* Two hours after the run was last heard of.
Sweeps ==
    /\ phase = "over" /\ ends = {} /\ ~terminal /\ marks # {}
    /\ marks' = {} /\ buf' = <<>>
    /\ UNCHANGED <<engine, origins, spawns, prior, posts, relayed>>

-----------------------------------------------------------------------------
(* The engine: the run, its attempts and their events.                     *)

Begins ==
    /\ phase = "new" /\ phase' = "running" /\ marks' = marks \cup {"session"}
    /\ UNCHANGED <<kind, attempt, shape, rounds, newRound, ends, terminal, early, origins, spawns,
                   prior, buf, posts, relayed>>

Thinks ==
    /\ phase = "running" /\ Written < MaxPieces
    /\ LET written == Append(rounds, IF newRound THEN Round + 1 ELSE Round) IN
       /\ rounds' = written /\ newRound' \in BOOLEAN
       /\ IF shape = "nothing" THEN UNCHANGED <<marks, prior, buf, chain, early>>
          ELSE OnThinking(written)
    /\ UNCHANGED <<kind, phase, attempt, shape, ends, terminal, origins, spawns, turn, relays,
                   told, missed, amiss, lost, relayed>>

\* The cumulative text comes again, unchanged.
ThinksNoMore ==
    /\ phase = "running" /\ shape = "text" /\ Written > 0 /\ ~newRound
    /\ ("live" \in marks => prior # Written)
    /\ OnThinking(rounds)
    /\ UNCHANGED <<kind, phase, attempt, shape, rounds, newRound, ends, terminal, origins, spawns,
                   turn, relays, told, missed, amiss, lost, relayed>>

\* agent_end comes with every attempt, the terminal lifecycle event with the last.
AttemptEnds ==
    /\ phase = "running"
    /\ \E silent \in BOOLEAN :
         ends' = ends \cup {[attempt |-> attempt, upto |-> Written, silent |-> silent]}
    /\ \/ phase' = "over" /\ terminal' = TRUE /\ UNCHANGED <<attempt, shape, newRound>>
       \/ /\ attempt < MaxAttempts /\ attempt' = attempt + 1
          /\ shape' \in Shapes /\ newRound' = TRUE /\ UNCHANGED <<phase, terminal>>
    /\ UNCHANGED <<kind, rounds, early, bookkeeping, posts, relayed>>

\* The run is gone without a word.
IsAbandoned ==
    /\ phase = "running" /\ phase' = "over" /\ amiss' = TRUE
    /\ UNCHANGED <<kind, attempt, shape, rounds, newRound, ends, terminal, early, bookkeeping,
                   chain, turn, relays, told, missed, lost, relayed>>

LifecycleEnds ==
    /\ terminal /\ terminal' = FALSE /\ FinishStreamed
    /\ UNCHANGED <<kind, phase, attempt, shape, rounds, newRound, ends, early, origins, spawns,
                   prior, relays, told, missed, amiss, lost, relayed>>

-----------------------------------------------------------------------------
(* The relay.                                                              *)

\* ownsRunReasoning: from the first thinking event on.
OwnsReasoning == marks \cap {"live", "streamed"} # {}

\* A run of the chat's own session, or one whose chat is known; not one that declined to answer.
Relayable(e) == (kind = "completion" \/ "own" \in origins) /\ ~e.silent

Unreported(e) == {rounds[p] : p \in 1..e.upto} \ relayed

\* A specialist the live stream speaks for is only closed.
AgentEndOfStreamed(e) ==
    /\ e \in ends /\ ends' = ends \ {e}
    /\ IsSpecialist /\ "own" \in origins /\ OwnsReasoning /\ FinishStreamed
    /\ UNCHANGED <<kind, phase, attempt, shape, rounds, newRound, terminal, early, origins, spawns,
                   prior, relays, told, missed, amiss, lost, relayed>>

AgentEndRelays(e) ==
    /\ e \in ends /\ ends' = ends \ {e}
    /\ ~OwnsReasoning
    /\ IF Relayable(e)
       THEN /\ relayed' = relayed \cup Unreported(e)
            /\ relays' = [relays EXCEPT ![e.attempt].left = Unreported(e)]
            /\ UNCHANGED amiss
       ELSE amiss' = TRUE /\ UNCHANGED <<relayed, relays>>
    /\ UNCHANGED <<kind, phase, attempt, shape, rounds, newRound, terminal, early, bookkeeping,
                   chain, turn, told, missed, lost>>

\* One block after the other, then the turn; the first post that fails ends it.
RelayPosts(a) ==
    /\ relays[a].left # {}
    /\ \/ \E r \in relays[a].left :
             /\ \A other \in relays[a].left : r <= other
             /\ told' = [p \in Pieces |-> IF p <= Written /\ rounds[p] = r
                                       THEN told[p] + 1 ELSE told[p]]
             /\ LET left == relays[a].left \ {r} IN
                relays' = [relays EXCEPT ![a] =
                             [left |-> left, turn |-> IF left = {} THEN "open" ELSE "none"]]
             /\ UNCHANGED <<missed, lost>>
       \/ /\ lost < MaxLost /\ lost' = lost + 1
          /\ missed' = missed \cup {p \in 1..Written : rounds[p] \in relays[a].left}
          /\ relays' = [relays EXCEPT ![a].left = {}] /\ UNCHANGED told
    /\ UNCHANGED <<engine, bookkeeping, chain, turn, amiss, relayed>>

RelayCloses(a) ==
    /\ relays[a].turn = "open" /\ relays' = [relays EXCEPT ![a].turn = "closed"]
    /\ UNCHANGED <<engine, bookkeeping, chain, turn, told, missed, amiss, lost, relayed>>

-----------------------------------------------------------------------------
ThinkingNext ==
    \/ \E s \in {"own", "parent"} : SpawnHook(s)
    \/ PostsThought \/ ClosesStreamTurn \/ Sweeps
    \/ Begins \/ Thinks \/ ThinksNoMore \/ AttemptEnds \/ IsAbandoned \/ LifecycleEnds
    \/ \E e \in ends : AgentEndOfStreamed(e) \/ AgentEndRelays(e)
    \/ \E a \in Attempts : RelayPosts(a) \/ RelayCloses(a)

ThinkingSpec == ThinkingInit /\ [][ThinkingNext]_thinkVars

AllDone == /\ phase = "over" /\ ends = {} /\ ~terminal /\ chain = <<>>
           /\ \A a \in Attempts : relays[a].left = {}

\* One attempt, of a session that was known when it began to think; it did not decline to
\* answer, and was not given up.
Smooth == kind # "live" /\ attempt = 1 /\ ~early /\ ~amiss

(* Once everything a smooth run caused is done, the owner was told all it  *)
(* thought, each piece once, but for what stood in a post that failed: of  *)
(* the stream only that post, of the relay also the blocks behind it.      *)
NoThoughtMissed ==
    AllDone /\ Smooth => \A p \in 1..Written : told[p] = IF p \in missed THEN 0 ELSE 1

-----------------------------------------------------------------------------
(* Why it holds: a run is spoken for by the stream or by the relay.        *)

InStream == IsSpecialist /\ shape # "nothing"

ThinkingTyped ==
    /\ rounds \in Seq(Nat) /\ Written <= MaxPieces /\ told \in [Pieces -> Nat] /\ missed \subseteq Pieces
    /\ chain \in Seq(Seq(Nat)) /\ buf \in Seq(Nat) /\ prior \in Nat
    /\ attempt \in Attempts /\ shape \in Shapes
    /\ ends \subseteq [attempt : Attempts, upto : 0..Written, silent : BOOLEAN]
    /\ relays \in [Attempts -> [left : SUBSET Nat, turn : {"none", "open", "closed"}]]

\* What was told or missed, what waits in the FIFO and what is held is all of it, in order,
\* each once.
LaidOut(cut) ==
    /\ \A i \in 1..Len(chain) : cut[i - 1] <= cut[i] /\ chain[i] = Stretch(cut[i - 1], cut[i])
    /\ buf = Stretch(cut[Len(chain)], Written)
    /\ \A p \in Pieces : told[p] = IF p <= cut[0] /\ p \notin missed THEN 1 ELSE 0
    /\ \A p \in missed : p <= cut[0]

NothingRelayed == relayed = {} /\ \A a \in Attempts : relays[a].left = {}

\* The run ends once, and the relay hears of all it wrote.
EndsOnce ==
    /\ phase # "over" => ends = {} /\ ~terminal
    /\ phase = "new" => Written = 0
    /\ \A e \in ends : e.attempt = 1 /\ e.upto = Written /\ ends = {e}
    /\ \A a \in Attempts \ {1} : relays[a].left = {}

\* The stream follows the run from its first thought, and lets go of it with nothing held.
ByStream ==
    /\ NothingRelayed
    /\ \E cut \in [0..Len(chain) -> 0..Written] : LaidOut(cut)
    /\ shape = "text" => prior = Written
    /\ Written > 0 /\ phase = "running" => "live" \in marks
    /\ Written > 0 /\ ends # {} => OwnsReasoning
    /\ phase = "over" /\ ~terminal => "live" \notin marks
    /\ "live" \notin marks => buf = <<>>

\* The stream has no part in it, and the relay tells each round once.
ByRelay ==
    /\ chain = <<>> /\ buf = <<>> /\ ~OwnsReasoning
    /\ IF phase = "over" /\ ends = {}
       THEN \A p \in 1..Written :
              /\ told[p] = IF rounds[p] \in relays[1].left \/ p \in missed THEN 0 ELSE 1
              /\ p \in missed => rounds[p] \notin relays[1].left
       ELSE NothingRelayed /\ missed = {} /\ \A p \in Pieces : told[p] = 0

ThinkingIInv ==
    /\ ThinkingTyped
    /\ Smooth => EndsOnce /\ IF InStream THEN ByStream ELSE ByRelay

=============================================================================
