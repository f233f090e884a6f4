----------------------------- MODULE AnswerFlow -----------------------------
(***************************************************************************)
(* How an answer gets from the Kafka topic "answer" into the database.     *)
(* AnswerListener takes one message at a time, posts its answer to         *)
(* /qwanda/answers of its own server over HTTP, and acknowledges the       *)
(* message whatever came back.  The server handles the POST in a           *)
(* transaction of its own, also when the listener has given it up.  A      *)
(* crash takes the listener and the POSTs with it; the broker then goes on *)
(* from the last offset it was given, or from the end of the topic if the  *)
(* consumer comes back with another group id (the configuration sets none).*)
(***************************************************************************)
EXTENDS Naturals, Sequences

CONSTANTS
    Attribute,   \* attributes of base entities that answers are about
    Topic,       \* the attribute that each message of the topic answers, in their order
    MaxCrashes,  \* bound: crashes of the server
    NoAnswer     \* the attribute has no value yet

ASSUME TopicAssumption == Topic \in Seq(Attribute)
ASSUME BoundAssumption == MaxCrashes \in Nat /\ NoAnswer \notin Nat

Message == 1..Len(Topic)

VARIABLES
    unparsable,  \* messages whose payload is no answer; it does not change
    keepsGroup,  \* whether the consumer's group outlives the server; it does not change
    published,   \* how many messages the topic has by now
    committed,   \* how many the broker has been told are done
    next,        \* the message that the listener is at
    pc,          \* where the listener stands
    serving,     \* messages whose POSTs the server has yet to decide
    stored,      \* per attribute, the message whose answer is its value
    crashes,     \* crashes so far
    times,       \* history: how often the answer of each message was stored
    failed,      \* history: messages whose POST was given up undecided or was refused
    skipped      \* history: messages that a restart passed over

env == <<unparsable, keepsGroup>>
history == <<times, failed, skipped>>
vars == <<env, published, committed, next, pc, serving, stored, crashes, history>>

----------------------------------------------------------------------------
Init ==
    /\ unparsable \in SUBSET Message /\ keepsGroup \in BOOLEAN
    /\ published = 0 /\ committed = 0
    /\ next = 1 /\ pc = "wait"
    /\ serving = {}
    /\ stored = [a \in Attribute |-> NoAnswer]
    /\ crashes = 0
    /\ times = [m \in Message |-> 0] /\ failed = {} /\ skipped = {}

Publish ==
    /\ published < Len(Topic)
    /\ published' = published + 1
    /\ UNCHANGED <<env, committed, next, pc, serving, stored, crashes, history>>

\* (A mutant: the exception is swallowed like the one of the POST.)
NotThrown == "ack"
\* The exception leaves fromAnswers, and the channel ends.
Thrown == "ended"

\* fromAnswers with a payload that is no JSON, or no answer: the message is not
\* acknowledged.
Unparsable ==
    /\ pc = "wait" /\ next <= published /\ next \in unparsable
    /\ pc' = Thrown
    /\ UNCHANGED <<env, published, committed, next, serving, stored, crashes, history>>

\* (A mutant: a POST that is sent off and not waited for.)
NotWaiting == "ack"
\* apiPostEntity2 returns when the answer to the POST has come.
Waiting == "posting"

\* fromAnswers: the answer is posted.
FromAnswers ==
    /\ pc = "wait" /\ next <= published /\ next \notin unparsable
    /\ pc' = Waiting
    /\ serving' = serving \cup {next}
    /\ UNCHANGED <<env, published, committed, next, stored, crashes, history>>

\* QwandaEndpoint.create(Answer): the transaction of the POST commits,
Store(m) ==
    /\ m \in serving
    /\ serving' = serving \ {m}
    /\ stored' = [stored EXCEPT ![Topic[m]] = m]
    /\ times' = [times EXCEPT ![m] = @ + 1]
    /\ UNCHANGED <<env, published, committed, next, pc, crashes, failed, skipped>>

\* or ends without a change: no such entity (404), a bad value (422), no rights, an error (500).
Refuse(m) ==
    /\ m \in serving
    /\ serving' = serving \ {m}
    /\ failed' = failed \cup {m}
    /\ UNCHANGED <<env, published, committed, next, pc, stored, crashes, times, skipped>>

Response ==
    /\ pc = "posting" /\ next \notin serving
    /\ pc' = "ack"
    /\ UNCHANGED <<env, published, committed, next, serving, stored, crashes, history>>

\* (Mutants: an IOException that starts the POST again, and one that ends the channel.)
PostsAgain == "wait"
EndsChannel == "ended"
\* catch (IOException e): on to the acknowledgement.
Swallowed == "ack"

\* The POST ends in an IOException, before it reached the server or while the server is at it.
\* (An unchecked exception of apiPostEntity2 is left out: it would end the channel without an
\* acknowledgement, as an unparsable message does.)
PostFails ==
    /\ pc = "posting" /\ next \in serving
    /\ pc' = Swallowed
    /\ failed' = failed \cup {next}
    /\ \/ serving' = serving \ {next}
       \/ UNCHANGED serving
    /\ UNCHANGED <<env, published, committed, next, stored, crashes, times, skipped>>

\* message.ack(); the listener takes the next message.
Ack ==
    /\ pc = "ack"
    /\ pc' = "wait" /\ next' = next + 1
    /\ UNCHANGED <<env, published, committed, serving, stored, crashes, history>>

\* The connector tells the broker, now or later.
CommitOffset ==
    /\ \E n \in committed + 1..next - 1 : committed' = n
    /\ UNCHANGED <<env, published, next, pc, serving, stored, crashes, history>>

Crash ==
    /\ pc # "down" /\ crashes < MaxCrashes
    /\ crashes' = crashes + 1
    /\ pc' = "down" /\ serving' = {}
    /\ UNCHANGED <<env, published, committed, next, stored, history>>

Restart ==
    /\ pc = "down"
    /\ pc' = "wait"
    /\ next' = IF keepsGroup THEN committed + 1 ELSE published + 1
    /\ committed' = next' - 1
    /\ skipped' = skipped \cup (IF keepsGroup THEN {} ELSE next..published)
    /\ UNCHANGED <<env, published, serving, stored, crashes, times, failed>>

Listen == FromAnswers \/ Response \/ Ack
Next ==
    \/ Publish \/ Listen \/ Unparsable \/ PostFails \/ CommitOffset \/ Crash \/ Restart
    \/ \E m \in Message : Store(m) \/ Refuse(m)

Spec == Init /\ [][Next]_vars

\* The listener runs on, the server decides each POST, and a server that is down is restarted.
FairSpec ==
    /\ Spec
    /\ WF_vars(Listen) /\ WF_vars(Restart)
    /\ \A m \in Message : WF_vars(Store(m) \/ Refuse(m))

----------------------------------------------------------------------------
TypeOK ==
    /\ unparsable \subseteq Message /\ keepsGroup \in BOOLEAN
    /\ published \in 0..Len(Topic) /\ committed \in 0..published
    /\ next \in 1..published + 1 /\ committed < next
    /\ pc \in {"wait", "posting", "ack", "ended", "down"}
    /\ pc \in {"posting", "ack"} => next \in Message \ unparsable
    /\ serving \subseteq Message \ unparsable
    /\ stored \in [Attribute -> Message \cup {NoAnswer}]
    /\ crashes \in 0..MaxCrashes
    /\ times \in [Message -> Nat]
    /\ failed \subseteq Message /\ skipped \subseteq Message

\* A message that the listener has passed is stored, unless its POST failed or was refused,
\* or a restart without the old group passed over it; an unparsable one is passed over only so
\* (fromAnswers, which acknowledges whatever comes back).
PassedIsStored ==
    \A m \in 1..next - 1 : times[m] > 0 \/ m \in failed \cup skipped

\* An answer is stored again only after a crash: once more per crash at most, and never when
\* the consumer has a new group (fromAnswers swallows an IOException and does not post again).
RepeatsFromCrashesOnly ==
    \A m \in Message : times[m] <= 1 + (IF keepsGroup THEN crashes ELSE 0)

\* When the listener has caught up, an attribute of which no answer was lost has the value of
\* the last one, whatever crashes and redeliveries there were: answers are stored in their
\* order, and a replay ends with the newest (fromAnswers, QwandaEndpoint.create).
LastAnswerWins ==
    \A a \in Attribute :
        LET about == {m \in 1..published : Topic[m] = a} IN
        /\ next > published /\ pc = "wait" /\ about # {}
        /\ about \cap (failed \cup skipped \cup unparsable) = {}
        => stored[a] \in about /\ \A m \in about : m <= stored[a]

\* Every message that no unparsable one precedes is passed in the end: failing POSTs, refused
\* answers and crashes hold the listener up for a while only (fromAnswers).
EveryMessagePassed ==
    \A m \in Message :
        (m <= published /\ \A k \in 1..m : k \notin unparsable) ~> (m < next)

(***************************************************************************)
(* What is left when the listener's steps, the POSTs under way and the     *)
(* crashes are hidden: the delivery that AnswerDelivery specifies.         *)
(***************************************************************************)
Delivery == INSTANCE AnswerDelivery WITH
    told <- committed, position <- next, value <- stored,
    done <- {m \in Message : times[m] > 0}, lost <- failed \cup skipped

\* The listener implements the delivery: with every step it stores the answer whose turn it is
\* or a lost one, gives one up, goes on to the next only past a stored or lost one, or takes up
\* again after a restart (fromAnswers, QwandaEndpoint.create).
DeliversAnswers == Delivery!DeliverySpec
=============================================================================
