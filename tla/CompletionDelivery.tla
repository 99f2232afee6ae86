-------------------------- MODULE CompletionDelivery --------------------------
(***************************************************************************)
(* What the owner reads of a completion run: a run of the supervisor that  *)
(* nobody wrote for, woken by a specialist's result.  The engine withholds *)
(* its answer and sends the specialist's raw report instead; the plugin's  *)
(* hooks put the answer in the report's place, keep back what the run      *)
(* asked to keep quiet about, and send the answer themselves when the      *)
(* engine sends nothing.                                                   *)
(*                                                                         *)
(* One session, whose runs follow each other.  The hooks of a run's end    *)
(* and its delivery are not ordered; the windows of the code (TTLs) are    *)
(* taken to be longer than the moments they are made for.                  *)
(***************************************************************************)
EXTENDS Naturals, FiniteSets

CONSTANTS
    Announce,    \* completion runs
    Live,        \* runs of messages that waited in the queue: answered on the outbound road
    MaxFaults,   \* bound: tool sends and rescue sends that fail
    None

Runs == Announce \cup Live

ASSUME CompletionAssumption ==
    /\ Announce \cap Live = {} /\ MaxFaults \in Nat
    /\ None \notin Runs \cup [of : Runs, fresh : BOOLEAN]
                        \cup [answer : Runs \cup {None}, self : BOOLEAN, timer : BOOLEAN]

VARIABLES
    at,          \* where a run is: waiting, running, over
    text,        \* what it wrote last: none, words, hush (prose and the silent token)
    due,         \* hooks of its last round not run yet
    road,        \* deliveries on the outbound road
    messaged,    \* messagedRuns
    toolFlag,    \* toolSendsInFlight
    seen,        \* lastVisibleTexts: whose text, and whether it is fresh
    pending,     \* pendingAnswers
    silenced,    \* silencedTexts: whose
    rescue,      \* the run whose answer selfDeliver is sending
    shown,       \* history: how often the owner was shown what
    excused,     \* history: runs whose delivery passed for a tool's, or whose rescue failed
    overlapped,  \* history: runs whose answer two senders had in hand at once
    faults

hooks == <<messaged, toolFlag, seen, pending, silenced>>
past  == <<shown, excused, overlapped>>
deliveryVars  == <<at, text, due, road, hooks, rescue, past, faults>>

Deliveries == [of : Runs, what : {"report", "words", "note"}]
Report(r) == [of |-> r, what |-> "report"]    \* the specialist's raw result
Words(r)  == [of |-> r, what |-> "words"]     \* the run's own answer
Note(r)   == [of |-> r, what |-> "note"]      \* what it wrote before the token, the token stripped

\* An answer on record: whose (None: there is nothing to say), sent by the plugin already, timer on.
Answer(r)   == [answer |-> r, self |-> FALSE, timer |-> TRUE]
NothingSaid == [answer |-> None, self |-> FALSE, timer |-> FALSE]

DeliveryTypeOK ==
    /\ at \in [Runs -> {"waiting", "running", "over"}]
    /\ text \in [Runs -> {"none", "words", "hush"}]
    /\ due \in [Runs -> SUBSET {"llm_output", "agent_end"}]
    /\ road \subseteq Deliveries /\ messaged \subseteq Runs /\ toolFlag \in BOOLEAN
    /\ seen \in {None} \cup [of : Runs, fresh : BOOLEAN]
    /\ pending \in {None} \cup [answer : Announce \cup {None}, self : BOOLEAN, timer : BOOLEAN]
    /\ silenced \in Runs \cup {None} /\ rescue \in Runs \cup {None}
    /\ shown \in [Deliveries -> Nat] /\ excused \subseteq Runs /\ overlapped \subseteq Runs

DeliveryInit ==
    /\ at = [r \in Runs |-> "waiting"] /\ text = [r \in Runs |-> "none"]
    /\ due = [r \in Runs |-> {}] /\ road = {}
    /\ messaged = {} /\ toolFlag = FALSE
    /\ seen = None /\ pending = None /\ silenced = None /\ rescue = None
    /\ shown = [d \in Deliveries |-> 0] /\ excused = {} /\ overlapped = {}
    /\ faults = 0

Fails    == faults < MaxFaults /\ faults' = faults + 1
Shows(d) == shown' = [shown EXCEPT ![d] = @ + 1]

-----------------------------------------------------------------------------
(* The engine.                                                             *)

\* What the run before left to do is done by then: its hooks, its delivery, its rescue.
Settled ==
    /\ \A r \in Runs : at[r] # "running" /\ due[r] = {}
    /\ road = {} /\ rescue = None
    /\ pending # None => ~pending.timer

RunBegins(r) ==
    /\ at[r] = "waiting" /\ Settled
    /\ at' = [at EXCEPT ![r] = "running"]
    /\ UNCHANGED <<text, due, road, hooks, rescue, past, faults>>

\* before_tool_call; the send crosses the outbound hook moments later, or fails before it.
CallsTool(r) ==
    /\ at[r] = "running"
    /\ messaged' = messaged \cup {r}
    /\ \/ toolFlag' = FALSE /\ UNCHANGED faults
       \/ toolFlag' = TRUE /\ Fails
    /\ UNCHANGED <<at, text, due, road, seen, pending, silenced, rescue, past>>

\* What the engine delivers of a run, if anything.
Delivered(r, wrote) ==
    IF r \in Live THEN IF wrote = "words" THEN {Words(r)} ELSE {}
    ELSE {Report(r)} \cup (IF wrote = "words" THEN {Words(r)} ELSE {})
                     \cup (IF wrote = "hush" /\ r \in messaged THEN {Note(r)} ELSE {})

RunEnds(r) ==
    /\ at[r] = "running" /\ at' = [at EXCEPT ![r] = "over"]
    /\ \E wrote \in {"none", "words", "hush"} :
         /\ text' = [text EXCEPT ![r] = wrote]
         /\ due' = [due EXCEPT ![r] =
                      IF wrote = "none" THEN {"agent_end"} ELSE {"llm_output", "agent_end"}]
         /\ \/ road' = road
            \/ \E d \in Delivered(r, wrote) : road' = road \cup {d}
    /\ UNCHANGED <<hooks, rescue, past, faults>>

-----------------------------------------------------------------------------
(* The hooks of a run's end.                                               *)

Ran(r, hook) == hook \in due[r] /\ due' = [due EXCEPT ![r] = @ \ {hook}]

\* Every run's text is kept, for its own end or its own delivery.
LlmOutput(r) ==
    /\ Ran(r, "llm_output")
    /\ seen' = [of |-> r, fresh |-> TRUE]
    /\ UNCHANGED <<at, text, road, messaged, toolFlag, pending, silenced, rescue, past, faults>>

\* This run's own text, and nobody else's.
WroteLast(r) == IF seen # None /\ seen.of = r THEN text[r] ELSE "none"

\* Mutant of Remembered: a silent run leaves nothing on record.
RememberedWhenSaid(r) == IF WroteLast(r) = "words" THEN Answer(r) ELSE None

Remembered(r) == IF WroteLast(r) = "words" THEN Answer(r) ELSE NothingSaid

\* The decision: a run that spoke for itself is left alone, but for what it asked to keep quiet.
AgentEnd(r) ==
    /\ Ran(r, "agent_end")
    /\ seen' = None
    /\ IF r \in Live THEN UNCHANGED <<pending, silenced>>
       ELSE IF r \in messaged
       THEN /\ pending' = None
            /\ silenced' = IF WroteLast(r) = "hush" THEN r ELSE silenced
       ELSE pending' = Remembered(r) /\ UNCHANGED silenced
    /\ UNCHANGED <<at, text, road, messaged, toolFlag, rescue, past, faults>>

-----------------------------------------------------------------------------
(* message_sending: every delivery of the session passes here.             *)

\* adoptRacedCompletionAnswer: the text a completion run has just left and its end has not read.
Adoptable == seen # None /\ seen.of \in Announce /\ seen.fresh /\ seen.of \notin messaged

Adopted == IF text[seen.of] = "hush" THEN NothingSaid ELSE Answer(seen.of)

\* What is decided about this delivery: a record that says nothing is asked about once more.
Decision ==
    IF pending # None /\ (pending.self \/ pending.answer # None) THEN pending
    ELSE IF Adoptable THEN Adopted
    ELSE pending

TakesSeen == Adoptable /\ (pending = None \/ (~pending.self /\ pending.answer = None))

\* refuseSilencedDelivery: the words a run asked to keep quiet, recorded at its end or still here.
AskedQuiet(d) ==
    /\ d.what = "note"
    /\ \/ silenced = d.of
       \/ seen # None /\ seen.of = d.of /\ seen.fresh /\ d.of \in Announce \cap messaged

Crosses(d) == d \in road /\ "llm_output" \notin due[d.of] /\ road' = road \ {d}

\* The agent's own send, by its flag: a delivery the flag was not meant for passes with it.
PassesForTool(d) ==
    /\ toolFlag /\ Crosses(d)
    /\ toolFlag' = FALSE /\ Shows(d) /\ excused' = excused \cup {d.of}
    /\ UNCHANGED <<at, text, due, messaged, seen, pending, silenced, rescue, overlapped, faults>>

NothingDecided(d) ==
    /\ ~toolFlag /\ Crosses(d) /\ Decision = None
    /\ IF AskedQuiet(d)
       THEN silenced' = None /\ seen' = None /\ UNCHANGED shown
       ELSE Shows(d) /\ UNCHANGED <<silenced, seen>>
    /\ UNCHANGED <<at, text, due, messaged, toolFlag, pending, rescue, excused, overlapped,
                   faults>>

\* The plugin has sent the answer; the record stays for its window.
AlreadySent(d) ==
    /\ ~toolFlag /\ Crosses(d) /\ Decision # None /\ Decision.self
    /\ UNCHANGED <<at, text, due, hooks, rescue, past, faults>>

\* Nothing to show instead: cancelled.
KeptBack(d) ==
    /\ ~toolFlag /\ Crosses(d) /\ Decision # None /\ ~Decision.self /\ Decision.answer = None
    /\ pending' = None /\ seen' = IF TakesSeen THEN None ELSE seen
    /\ UNCHANGED <<at, text, due, messaged, toolFlag, silenced, rescue, past, faults>>

\* The answer takes the delivery's place, unless it is what is delivered; the timer is off.
Substituted(d) ==
    /\ ~toolFlag /\ Crosses(d) /\ Decision # None /\ ~Decision.self /\ Decision.answer # None
    /\ pending' = None /\ seen' = IF TakesSeen THEN None ELSE seen
    /\ Shows(Words(Decision.answer))
    /\ overlapped' = IF rescue = Decision.answer THEN overlapped \cup {rescue} ELSE overlapped
    /\ UNCHANGED <<at, text, due, messaged, toolFlag, silenced, rescue, excused, faults>>

-----------------------------------------------------------------------------
(* The rescue send, and the windows.                                       *)

TimerFires ==
    /\ pending # None /\ pending.timer
    /\ rescue = None /\ rescue' = pending.answer
    /\ pending' = [pending EXCEPT !.timer = FALSE]
    /\ UNCHANGED <<at, text, due, road, messaged, toolFlag, seen, silenced, past, faults>>

IsRescued == pending # None /\ pending.answer = rescue

\* Mutant of MarkedSent: the record goes with the send.
MarkedSentAndGone == IF IsRescued THEN None ELSE pending

\* The record is kept a while, only to hold back what the engine delivers late.
MarkedSent == IF IsRescued THEN [pending EXCEPT !.self = TRUE] ELSE pending

RescueDone ==
    /\ rescue # None /\ rescue' = None
    /\ Shows(Words(rescue)) /\ pending' = MarkedSent
    /\ UNCHANGED <<at, text, due, road, messaged, toolFlag, seen, silenced, excused, overlapped,
                   faults>>

RescueFails ==
    /\ rescue # None /\ rescue' = None /\ Fails
    /\ pending' = None /\ excused' = excused \cup {rescue}
    /\ UNCHANGED <<at, text, due, road, messaged, toolFlag, seen, silenced, shown, overlapped>>

\* A record is dropped when its window is over, and no delivery it was for is still on the road.
PendingExpires ==
    /\ pending # None /\ ~pending.timer /\ rescue = None /\ road = {} /\ pending' = None
    /\ UNCHANGED <<at, text, due, road, messaged, toolFlag, seen, silenced, rescue, past, faults>>

SeenAges ==
    /\ seen # None /\ due[seen.of] = {} /\ road = {}
    /\ seen' = IF seen.fresh THEN [seen EXCEPT !.fresh = FALSE] ELSE None
    /\ UNCHANGED <<at, text, due, road, messaged, toolFlag, pending, silenced, rescue, past,
                   faults>>

SilenceExpires ==
    /\ silenced # None /\ road = {} /\ silenced' = None
    /\ UNCHANGED <<at, text, due, road, messaged, toolFlag, seen, pending, rescue, past, faults>>

FlagExpires ==
    /\ toolFlag /\ toolFlag' = FALSE
    /\ UNCHANGED <<at, text, due, road, messaged, seen, pending, silenced, rescue, past, faults>>

-----------------------------------------------------------------------------
DeliveryNext ==
    \/ \E r \in Runs : RunBegins(r) \/ CallsTool(r) \/ RunEnds(r) \/ LlmOutput(r) \/ AgentEnd(r)
    \/ \E d \in Deliveries :
         PassesForTool(d) \/ NothingDecided(d) \/ AlreadySent(d) \/ KeptBack(d) \/ Substituted(d)
    \/ TimerFires \/ RescueDone \/ RescueFails
    \/ PendingExpires \/ SeenAges \/ SilenceExpires \/ FlagExpires

DeliverySpec == DeliveryInit /\ [][DeliveryNext]_deliveryVars

(* Where the run wrote anything, the specialist's raw report is shown only *)
(* if the run called a messaging tool itself, a failed tool send left its  *)
(* flag up, or the rescue send failed before the report came.              *)
RawReportStaysInside ==
    \A r \in Announce :
        shown[Report(r)] > 0 /\ text[r] # "none" => r \in messaged \cup excused

(* The owner reads an answer once, whoever sends it, unless the engine's   *)
(* delivery crossed just while the rescue send was under way, or passed    *)
(* for a tool's.                                                           *)
AnswerShownOnce ==
    \A r \in Runs \ (overlapped \cup excused) : shown[Words(r)] <= 1

(* "A normal chat turn's own delivery must pass through untouched": the    *)
(* answer to a message that waited in the queue is shown when it crosses.  *)
LiveAnswerPasses ==
    [][\A r \in Live : Words(r) \in road \ road' =>
         shown'[Words(r)] > shown[Words(r)]]_deliveryVars

-----------------------------------------------------------------------------
(* The inductive invariant behind the theorems of PluginServicesProofs.    *)

\* A run that keeps the next one from beginning.
Busy(r) ==
    \/ at[r] = "running" \/ due[r] # {} \/ rescue = r
    \/ \E d \in road : d.of = r
    \/ pending # None /\ pending.timer /\ pending.answer = r

OneAtATime ==
    /\ \A r, s \in Runs : Busy(r) /\ Busy(s) => r = s
    /\ \A d, e \in road : d = e

\* Hooks, deliveries, texts and shown words are of runs that are over.
OfTheEnded ==
    /\ \A r \in Runs : due[r] # {} => at[r] = "over"
    /\ \A d \in road : at[d.of] = "over"
    /\ \A d \in Deliveries : shown[d] > 0 => at[d.of] = "over"
    /\ seen # None => at[seen.of] = "over" /\ "llm_output" \notin due[seen.of]

\* An answer on record is of a run whose hooks are done and whose text is no longer elsewhere.
AnswersSettled ==
    /\ pending # None /\ pending.answer # None =>
          /\ at[pending.answer] = "over" /\ due[pending.answer] = {}
          /\ seen # None => seen.of # pending.answer
    /\ pending # None /\ pending.timer => pending.answer # None /\ ~pending.self

\* The answer the plugin is sending is the one on record, unless a delivery has taken that.
RescueOnRecord ==
    rescue # None =>
        /\ at[rescue] = "over" /\ due[rescue] = {}
        /\ seen # None => seen.of # rescue
        /\ IF pending # None /\ pending.answer = rescue THEN ~pending.self /\ ~pending.timer
                                                        ELSE rescue \in overlapped

\* While a report is on its way, the text of its run or a record is there to stop it.
ReportsMet ==
    /\ \A d \in road : seen # None /\ seen.of = d.of => seen.fresh
    /\ \A r \in Announce \ (messaged \cup excused) :
          Report(r) \in road /\ text[r] # "none" =>
              IF "agent_end" \in due[r]
                THEN "llm_output" \in due[r] \/ (seen # None /\ seen.of = r)
                ELSE pending # None

\* Words shown cannot come again: by their own delivery, from the record, or as a text taken over.
ShownIsDone ==
    \A r \in Runs \ (overlapped \cup excused) : shown[Words(r)] > 0 =>
        /\ shown[Words(r)] = 1
        /\ "llm_output" \notin due[r] /\ rescue # r
        /\ seen # None /\ seen.of = r => r \notin Announce \ messaged
        /\ pending # None /\ pending.answer = r => pending.self
        /\ Words(r) \in road => pending # None /\ pending.answer = r

DeliveryIInv ==
    /\ DeliveryTypeOK /\ OneAtATime /\ OfTheEnded /\ AnswersSettled /\ RescueOnRecord
    /\ ReportsMet /\ ShownIsDone
    /\ RawReportStaysInside

=============================================================================
