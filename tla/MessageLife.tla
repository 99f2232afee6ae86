----------------------------- MODULE MessageLife -----------------------------
(***************************************************************************)
(* What the chat promises about one message of the owner, whatever happens *)
(* on the way: the cloud keeps it open until some work on it ends, the     *)
(* gateway takes it up at most once at a time, and work that outlives the  *)
(* guard (a resumed turn) is known as such.  InboundTurn implements this;  *)
(* ChatPath puts the agent's listener in front of it.                      *)
(***************************************************************************)
CONSTANT Msgs    \* the owner's messages in one chat

VARIABLES
    cloud,    \* the message at the cloud: unsent, processing, closed
    held,     \* taken up under the in-flight guard
    loose     \* worked on outside the guard

lifeVars == <<cloud, held, loose>>

LifeInit ==
    /\ cloud = [m \in Msgs |-> "unsent"]
    /\ held = {} /\ loose = {}

\* The owner writes.
Sends(m) ==
    /\ cloud[m] = "unsent" /\ cloud' = [cloud EXCEPT ![m] = "processing"]
    /\ UNCHANGED <<held, loose>>

\* The gateway takes a message up; a second copy of it meanwhile changes nothing.
TakenUp(m) ==
    /\ cloud[m] # "unsent" /\ m \notin held
    /\ held' = held \cup {m}
    /\ UNCHANGED <<cloud, loose>>

Closing(m) == cloud' \in {cloud, [cloud EXCEPT ![m] = "closed"]}

\* Its turn ends: the guard is lifted, the cloud told unless the call is lost; work may go on.
GuardLifted(m) ==
    /\ m \in held /\ held' = held \ {m}
    /\ loose' \in {loose, loose \cup {m}}
    /\ Closing(m)

\* Work outside the guard ends, or goes on in a further turn.
LooseWorkEnds(m) ==
    /\ m \in loose /\ loose' \in {loose, loose \ {m}}
    /\ Closing(m)
    /\ UNCHANGED held

\* The gateway ends: everything under way is lost, and the cloud keeps the messages open.
GatewayGone == held' = {} /\ loose' = {} /\ UNCHANGED cloud

LifeNext ==
    \/ \E m \in Msgs : Sends(m) \/ TakenUp(m) \/ GuardLifted(m) \/ LooseWorkEnds(m)
    \/ GatewayGone

LifeSpec == LifeInit /\ [][LifeNext]_lifeVars

-----------------------------------------------------------------------------
(* What follows of it.                                                     *)

\* Only what the owner wrote is worked on.
WorkIsWritten ==
    /\ cloud \in [Msgs -> {"unsent", "processing", "closed"}]
    /\ \A m \in held \cup loose : m \in Msgs /\ cloud[m] # "unsent"

\* A message opens once and closes once, and it closes by work on it: nothing else closes it, and
\* no copy, restart or late call opens it again.
ClosedByWork ==
    [][\A m \in Msgs : cloud'[m] # cloud[m] =>
          \/ cloud[m] = "unsent" /\ cloud'[m] = "processing"
          \/ cloud[m] = "processing" /\ cloud'[m] = "closed" /\ m \in held \cup loose]_lifeVars

=============================================================================
