--------------------------- MODULE AnswerDelivery ---------------------------
(***************************************************************************)
(* What the delivery of answers promises, without listener, HTTP or        *)
(* broker: answers are taken in the order of the topic; none is left       *)
(* behind that has been neither stored nor lost; after a restart delivery  *)
(* takes up where it was last told to be done, or at the end of the topic; *)
(* and only answers that are lost already can still be stored out of turn. *)
(* AnswerFlow implements this.                                             *)
(***************************************************************************)
EXTENDS Naturals, Sequences

CONSTANTS
    Attribute,  \* attributes that answers are about
    Topic,      \* the attribute that each answer is about, in their order
    NoAnswer    \* no value yet

VARIABLES
    published,  \* how many answers there are by now
    told,       \* how many have been reported done
    position,   \* the answer whose turn it is
    value,      \* per attribute, the answer whose value it has
    done,       \* answers that have been stored
    lost        \* answers that were given up, refused or passed over

delivery == <<published, told, position, value, done, lost>>

Answer == 1..Len(Topic)

DeliveryInit ==
    /\ published = 0 /\ told = 0 /\ position = 1
    /\ value = [a \in Attribute |-> NoAnswer]
    /\ done = {} /\ lost = {}

\* A client publishes the next answer.
NewAnswer ==
    /\ published < Len(Topic)
    /\ published' = published + 1
    /\ UNCHANGED <<told, position, value, done, lost>>

\* The answer whose turn it is, or late a lost one, is stored.
StoreAnswer(m) ==
    /\ m <= published
    /\ m = position \/ m \in lost
    /\ value' = [value EXCEPT ![Topic[m]] = m]
    /\ done' = done \cup {m}
    /\ UNCHANGED <<published, told, position, lost>>

LoseAnswer ==
    /\ position <= published
    /\ lost' = lost \cup {position}
    /\ UNCHANGED <<published, told, position, value, done>>

\* The next answer has its turn once this one is stored or lost.
Advance ==
    /\ position \in done \cup lost
    /\ position' = position + 1
    /\ UNCHANGED <<published, told, value, done, lost>>

Tell ==
    /\ \E n \in told + 1..position - 1 : told' = n
    /\ UNCHANGED <<published, position, value, done, lost>>

\* A restart, with the memory of what it was told,
TakeUp ==
    /\ position' = told + 1
    /\ UNCHANGED <<published, told, value, done, lost>>

\* or without.
PassOver ==
    /\ position' = published + 1 /\ told' = published
    /\ lost' = lost \cup (position..published)
    /\ UNCHANGED <<published, value, done>>

DeliveryNext ==
    \/ NewAnswer \/ LoseAnswer \/ Advance \/ Tell \/ TakeUp \/ PassOver
    \/ \E m \in Answer : StoreAnswer(m)

DeliverySpec == DeliveryInit /\ [][DeliveryNext]_delivery
=============================================================================
