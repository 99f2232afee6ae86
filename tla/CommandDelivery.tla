--------------------------- MODULE CommandDelivery ---------------------------
(***************************************************************************)
(* What the remote commands promise the owner, whatever happens to the     *)
(* sessions, the requests and the agent's tasks: docs/connection-protocol  *)
(* gives a command its statuses, the agent runs it, and the result taken   *)
(* by the cloud is that of a command the agent was given and did run.      *)
(***************************************************************************)
CONSTANT Cmds  \* ids of the commands

VARIABLES
    status,    \* absent, pending, delivered, done (its result taken), closed (cancelled, timed out)
    ran,       \* commands the agent has begun to execute
    reported   \* commands whose result the cloud took

vars == <<status, ran, reported>>

Init == status = [c \in Cmds |-> "absent"] /\ ran = {} /\ reported = {}

Active == {c \in Cmds : status[c] \in {"pending", "delivered"}}

\* The owner has one command active at a time.
Enqueue(c) ==
    /\ Active = {} /\ status[c] = "absent"
    /\ status' = [status EXCEPT ![c] = "pending"]
    /\ UNCHANGED <<ran, reported>>

\* The agent begins a command it was given, which may be over for the cloud by then.
Run(c) ==
    /\ status[c] \notin {"absent", "pending"}
    /\ ran' = ran \cup {c}
    /\ UNCHANGED <<status, reported>>

\* One ping: it may carry the result of one command that ran, and its answer may offer an active one.
Exchange(results, offers) ==
    /\ results \subseteq ran
    /\ reported' = reported \cup results
    /\ \A c \in offers : c \in Active /\ (c \in results => status[c] = "pending")
    /\ status' = [c \in Cmds |->
                    IF c \in offers THEN "delivered"
                    ELSE IF c \in results /\ status[c] = "delivered" THEN "done" ELSE status[c]]
    /\ UNCHANGED ran

\* Cancelled, timed out, or ended with their session.
Close(closing) ==
    /\ status' = [c \in Cmds |-> IF c \in closing /\ c \in Active THEN "closed" ELSE status[c]]
    /\ UNCHANGED <<ran, reported>>

Single == {{}} \cup {{c} : c \in Cmds}

Next ==
    \/ \E c \in Cmds : Enqueue(c) \/ Run(c)
    \/ \E results, offers \in Single : Exchange(results, offers)
    \/ \E closing \in SUBSET Cmds : Close(closing)

Spec == Init /\ [][Next]_vars

-----------------------------------------------------------------------------
(* What follows of it.                                                     *)

\* What has run was handed over, and what the cloud shows done has run and reported its result.
Promised ==
    /\ status \in [Cmds -> {"absent", "pending", "delivered", "done", "closed"}]
    /\ reported \subseteq ran /\ ran \subseteq Cmds
    /\ \A c \in ran : status[c] \notin {"absent", "pending"}
    /\ \A c \in Cmds : status[c] = "done" => c \in reported

\* A command that is over stays over, and one handed over is not taken back: it ends done by its
\* own result, or closed.
EndsOnce ==
    [][\A c \in Cmds : status'[c] # status[c] =>
          \/ status[c] = "absent" /\ status'[c] = "pending"
          \/ status[c] = "pending" /\ status'[c] \in {"delivered", "closed"}
          \/ status[c] = "delivered" /\ status'[c] = "done" /\ c \in ran
          \/ status[c] = "delivered" /\ status'[c] = "closed"]_vars

=============================================================================
