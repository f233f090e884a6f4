-------------------------- MODULE AnswerFlowProofs --------------------------
(***************************************************************************)
(* The delivery of answers for any topic and any number of crashes: what   *)
(* is passed, how often it is stored and which value stays, and that       *)
(* AnswerFlow implements AnswerDelivery.  The inductive invariant IInv     *)
(* follows a message through the listener: not posted yet, with the        *)
(* server, settled.                                                        *)
(***************************************************************************)
EXTENDS AnswerFlow, TLAPS

\* The listener has not posted m in this life of the server,
Unposted(m) == m > next \/ (m = next /\ pc = "wait")
\* or it is through with m.
Settled(m) ==
    \/ m < next
    \/ m = next /\ pc = "ack"
    \/ m = next /\ pc = "posting" /\ m \notin serving

\* How often an answer may have been stored before its turn in this life.
Budget == IF keepsGroup THEN crashes ELSE 0

Lost == failed \cup skipped
\* No answer about a is lost or unreadable.
Clean(a) == \A k \in 1..published : Topic[k] = a => k \notin Lost \cup unparsable

\* Only messages of the topic have been dealt with; a POST that the listener has not waited
\* for counts as failed, and none outlives the server.
PlaceInv ==
    /\ pc \in {"posting", "ack"} => next <= published
    /\ \A m \in Message : m \in serving \/ times[m] > 0 => m <= published
    /\ \A m \in serving : m \in failed \/ (m = next /\ pc = "posting")
    /\ pc = "down" => serving = {}
    /\ \A m \in serving : ~Unposted(m)

RepeatInv ==
    /\ \A m \in Message : times[m] <= 1 + Budget
    /\ \A m \in Message : m \in serving \/ Unposted(m) => times[m] <= Budget
    /\ pc = "down" /\ keepsGroup => \A m \in Message : times[m] <= crashes

SettledInv == \A m \in Message : Settled(m) => times[m] > 0 \/ m \in Lost

ValueInv ==
    \A a \in Attribute : stored[a] # NoAnswer => stored[a] <= published /\ Topic[stored[a]] = a

LatestInv ==
    \A m \in Message :
        Settled(m) /\ Clean(Topic[m]) => stored[Topic[m]] # NoAnswer /\ m <= stored[Topic[m]]

IInv == TypeOK /\ PlaceInv /\ RepeatInv /\ SettledInv /\ ValueInv /\ LatestInv

----------------------------------------------------------------------------
\* The topic is a sequence: it has a length, and each message is about an attribute.
LEMMA TopicFacts == Len(Topic) \in Nat /\ \A m \in Message : Topic[m] \in Attribute
  BY TopicAssumption DEF Message

\* Nothing is published yet, so nothing is settled.
LEMMA InitIInv == Init => IInv
  BY TopicFacts, BoundAssumption
  DEF Init, env, IInv, TypeOK, PlaceInv, RepeatInv, SettledInv, ValueInv, LatestInv,
      Unposted, Settled, Budget, Lost, Message

\* A new message is neither settled nor lost.
LEMMA PublishKeeps == ASSUME IInv, Publish PROVE IInv'
  <1> USE DEF IInv, env, history, Message
  <1>1. TypeOK'
    BY DEF Publish, TypeOK
  <1>2. PlaceInv'
    BY DEF Publish, PlaceInv, Unposted, TypeOK
  <1>3. RepeatInv'
    BY DEF Publish, RepeatInv, Budget, Unposted
  <1>4. SettledInv'
    BY DEF Publish, SettledInv, Settled, Lost
  <1>5. ValueInv'
    BY DEF Publish, ValueInv, TypeOK
  <1>6. LatestInv'
    BY DEF Publish, LatestInv, Settled, Clean, Lost, TypeOK
  <1> QED BY <1>1, <1>2, <1>3, <1>4, <1>5, <1>6

\* The channel that has ended posts nothing more.
LEMMA UnparsableKeeps == ASSUME IInv, Unparsable PROVE IInv'
  <1> USE DEF IInv, env, history, Message
  <1>1. TypeOK'
    BY DEF Unparsable, Thrown, TypeOK
  <1>2. PlaceInv'
    BY DEF Unparsable, Thrown, PlaceInv, Unposted
  <1>3. RepeatInv'
    BY DEF Unparsable, Thrown, RepeatInv, Budget, Unposted
  <1>4. SettledInv'
    BY DEF Unparsable, Thrown, SettledInv, Settled, Lost
  <1>5. ValueInv'
    BY DEF Unparsable, ValueInv
  <1>6. LatestInv'
    BY DEF Unparsable, LatestInv, Settled, Clean, Lost
  <1> QED BY <1>1, <1>2, <1>3, <1>4, <1>5, <1>6

\* The message goes from unposted to the server.
LEMMA FromAnswersKeeps == ASSUME IInv, FromAnswers PROVE IInv'
  <1> USE DEF IInv, env, history, Message
  <1>1. TypeOK'
    BY DEF FromAnswers, Waiting, TypeOK
  <1>2. PlaceInv'
    BY DEF FromAnswers, Waiting, PlaceInv, Unposted, TypeOK
  <1>3. RepeatInv'
    BY DEF FromAnswers, Waiting, RepeatInv, Budget, Unposted
  <1>4. SettledInv'
    BY DEF FromAnswers, Waiting, SettledInv, Settled, Lost
  <1>5. ValueInv'
    BY DEF FromAnswers, ValueInv
  <1>6. LatestInv'
    BY DEF FromAnswers, Waiting, LatestInv, Settled, Clean, Lost
  <1> QED BY <1>1, <1>2, <1>3, <1>4, <1>5, <1>6

\* The answer to the POST of a message settles nothing that was not settled.
LEMMA ResponseKeeps == ASSUME IInv, Response PROVE IInv'
  <1> USE DEF IInv, env, history, Message
  <1>1. TypeOK'
    BY DEF Response, TypeOK
  <1>2. PlaceInv'
    BY DEF Response, PlaceInv, Unposted
  <1>3. RepeatInv'
    BY DEF Response, RepeatInv, Budget, Unposted
  <1>4. SettledInv'
    BY DEF Response, SettledInv, Settled, Lost
  <1>5. ValueInv'
    BY DEF Response, ValueInv
  <1>6. LatestInv'
    BY DEF Response, LatestInv, Settled, Clean, Lost
  <1> QED BY <1>1, <1>2, <1>3, <1>4, <1>5, <1>6

\* The message is settled as failed, wherever its POST is.
LEMMA PostFailsKeeps == ASSUME IInv, PostFails PROVE IInv'
  <1> USE DEF IInv, env, history, Message
  <1>1. TypeOK'
    BY DEF PostFails, Swallowed, TypeOK
  <1>2. PlaceInv'
    BY DEF PostFails, Swallowed, PlaceInv, Unposted
  <1>3. RepeatInv'
    BY DEF PostFails, Swallowed, RepeatInv, Budget, Unposted
  <1>4. SettledInv'
    BY DEF PostFails, SettledInv, Settled, Lost
  <1>5. ValueInv'
    BY DEF PostFails, ValueInv
  <1>6. LatestInv'
    BY DEF PostFails, LatestInv, Settled, Clean, Lost, PlaceInv
  <1> QED BY <1>1, <1>2, <1>3, <1>4, <1>5, <1>6

\* A settled message is passed, and the next one is unposted.
LEMMA AckKeeps == ASSUME IInv, Ack PROVE IInv'
  <1> USE DEF IInv, env, history, Message
  <1>1. TypeOK'
    BY DEF Ack, TypeOK, PlaceInv
  <1>2. PlaceInv'
    BY DEF Ack, PlaceInv, Unposted, TypeOK
  <1>3. RepeatInv'
    BY DEF Ack, RepeatInv, Budget, Unposted, TypeOK
  <1>4. SettledInv'
    BY DEF Ack, SettledInv, Settled, Lost, TypeOK
  <1>5. ValueInv'
    BY DEF Ack, ValueInv
  <1>6. LatestInv'
    BY DEF Ack, LatestInv, Settled, Clean, Lost, TypeOK
  <1> QED BY <1>1, <1>2, <1>3, <1>4, <1>5, <1>6

\* Telling the broker changes nothing but what it knows.
LEMMA CommitOffsetKeeps == ASSUME IInv, CommitOffset PROVE IInv'
  <1> USE DEF IInv, env, history, Message
  <1>1. TypeOK'
    BY DEF CommitOffset, TypeOK
  <1>2. PlaceInv'
    BY DEF CommitOffset, PlaceInv, Unposted
  <1>3. RepeatInv'
    BY DEF CommitOffset, RepeatInv, Budget, Unposted
  <1>4. SettledInv'
    BY DEF CommitOffset, SettledInv, Settled, Lost
  <1>5. ValueInv'
    BY DEF CommitOffset, ValueInv
  <1>6. LatestInv'
    BY DEF CommitOffset, LatestInv, Settled, Clean, Lost
  <1> QED BY <1>1, <1>2, <1>3, <1>4, <1>5, <1>6

\* A crash pays for one more round of answers when the group is kept.
LEMMA CrashKeeps == ASSUME IInv, Crash PROVE IInv'
  <1> USE DEF IInv, env, history, Message
  <1>1. TypeOK'
    BY BoundAssumption DEF Crash, TypeOK
  <1>2. PlaceInv'
    BY DEF Crash, PlaceInv, Unposted
  <1>3. RepeatInv'
    BY DEF Crash, RepeatInv, Budget, Unposted, TypeOK
  <1>4. SettledInv'
    BY DEF Crash, SettledInv, Settled, Lost
  <1>5. ValueInv'
    BY DEF Crash, ValueInv
  <1>6. LatestInv'
    BY DEF Crash, LatestInv, Settled, Clean, Lost
  <1> QED BY <1>1, <1>2, <1>3, <1>4, <1>5, <1>6

\* Back to the committed offset, behind what is settled; or to the end, and what was skipped is lost.
LEMMA RestartKeeps == ASSUME IInv, Restart PROVE IInv'
  <1> USE DEF IInv, env, history, Message
  <1>1. TypeOK'
    BY TopicFacts DEF Restart, TypeOK
  <1>2. PlaceInv'
    BY TopicFacts DEF Restart, PlaceInv, Unposted, TypeOK
  <1>3. RepeatInv'
    BY TopicFacts DEF Restart, RepeatInv, PlaceInv, Budget, Unposted, TypeOK
  <1>4. SettledInv'
    BY TopicFacts DEF Restart, SettledInv, Settled, Lost, TypeOK
  <1>5. ValueInv'
    BY DEF Restart, ValueInv
  <1>6. LatestInv'
    BY TopicFacts DEF Restart, LatestInv, Settled, Clean, Lost, TypeOK
  <1> QED BY <1>1, <1>2, <1>3, <1>4, <1>5, <1>6

\* The message is the one the listener waits for, and then the newest of those that are settled; or
\* it has failed, and its attribute is not clean.
LEMMA StoreKeeps == ASSUME IInv, NEW m \in Message, Store(m) PROVE IInv'
  <1> USE DEF IInv, env, history, Message
  <1>1. TypeOK'
    BY TopicFacts DEF Store, TypeOK
  <1>2. PlaceInv'
    BY DEF Store, PlaceInv, Unposted, TypeOK
  <1>3. RepeatInv'
    BY DEF Store, RepeatInv, PlaceInv, Budget, Unposted, TypeOK
  <1>4. SettledInv'
    BY DEF Store, SettledInv, Settled, Lost, TypeOK
  <1>5. ValueInv'
    BY TopicFacts, BoundAssumption DEF Store, ValueInv, PlaceInv, TypeOK
  <1>6. LatestInv'
    BY TopicFacts, BoundAssumption DEF Store, LatestInv, PlaceInv, Settled, Clean, Lost, TypeOK
  <1> QED BY <1>1, <1>2, <1>3, <1>4, <1>5, <1>6

\* The message is settled as failed.
LEMMA RefuseKeeps == ASSUME IInv, NEW m \in Message, Refuse(m) PROVE IInv'
  <1> USE DEF IInv, env, history, Message
  <1>1. TypeOK'
    BY DEF Refuse, TypeOK
  <1>2. PlaceInv'
    BY DEF Refuse, PlaceInv, Unposted
  <1>3. RepeatInv'
    BY DEF Refuse, RepeatInv, Budget, Unposted
  <1>4. SettledInv'
    BY DEF Refuse, SettledInv, Settled, Lost
  <1>5. ValueInv'
    BY DEF Refuse, ValueInv
  <1>6. LatestInv'
    BY TopicFacts DEF Refuse, LatestInv, PlaceInv, Settled, Clean, Lost, TypeOK
  <1> QED BY <1>1, <1>2, <1>3, <1>4, <1>5, <1>6

\* Every step keeps IInv.
LEMMA NextIInv == ASSUME IInv, [Next]_vars PROVE IInv'
  <1>1. CASE UNCHANGED vars
    BY <1>1 DEF vars, env, history, IInv, TypeOK, PlaceInv, RepeatInv, SettledInv, ValueInv, LatestInv,
                Unposted, Settled, Budget, Lost, Clean
  <1>2. CASE \E m \in Message : Store(m) \/ Refuse(m)
    BY <1>2, StoreKeeps, RefuseKeeps
  <1> QED
    BY <1>1, <1>2, PublishKeeps, UnparsableKeeps, FromAnswersKeeps, ResponseKeeps, PostFailsKeeps,
       AckKeeps, CommitOffsetKeeps, CrashKeeps, RestartKeeps
    DEF Next, Listen

\* IInv holds in every reachable state.
LEMMA SpecIInv == Spec => []IInv
  BY InitIInv, NextIInv, PTL DEF Spec

\* The listener, the POSTs and the history keep their types.
THEOREM AnswersTypeCorrect == Spec => []TypeOK
  <1>1. IInv => TypeOK  BY DEF IInv
  <1> QED BY SpecIInv, <1>1, PTL

\* For any topic, what the listener has passed is stored, failed, or was skipped by a restart.
THEOREM PassedAnswersAreStored == Spec => []PassedIsStored
  <1>1. IInv => PassedIsStored
    BY TopicFacts DEF IInv, TypeOK, SettledInv, Settled, Lost, PassedIsStored, Message
  <1> QED BY SpecIInv, <1>1, PTL

\* However often the server crashes, no answer is stored more than once per life of the server.
THEOREM OnlyCrashesRepeat == Spec => []RepeatsFromCrashesOnly
  <1>1. IInv => RepeatsFromCrashesOnly
    BY DEF IInv, RepeatInv, Budget, RepeatsFromCrashesOnly
  <1> QED BY SpecIInv, <1>1, PTL

\* When the listener has caught up, replays and late POSTs have left each attribute of which
\* no answer was lost with its last one.
THEOREM LastAnswersWin == Spec => []LastAnswerWins
  <1>1. ASSUME IInv PROVE LastAnswerWins
    <2> SUFFICES ASSUME NEW a \in Attribute,
                        NEW about, about = {m \in 1..published : Topic[m] = a},
                        next > published, about # {},
                        about \cap (failed \cup skipped \cup unparsable) = {}
                 PROVE  stored[a] \in about /\ \A m \in about : m <= stored[a]
      BY DEF LastAnswerWins
    <2>1. \A m \in about : m \in Message /\ Settled(m) /\ Topic[m] = a
      BY <1>1, TopicFacts DEF IInv, TypeOK, Settled, Message
    <2>2. Clean(a)
      BY DEF Clean, Lost
    <2>3. stored[a] # NoAnswer /\ \A m \in about : m <= stored[a]
      BY <1>1, <2>1, <2>2 DEF IInv, LatestInv
    <2>4. stored[a] \in 1..published /\ Topic[stored[a]] = a
      BY <1>1, <2>3, TopicFacts DEF IInv, TypeOK, ValueInv, Message
    <2> QED BY <2>3, <2>4
  <1> QED BY SpecIInv, <1>1, PTL

----------------------------------------------------------------------------
\* The refinement: the mapped initial state is one of AnswerDelivery,
LEMMA InitMaps == Init => Delivery!DeliveryInit
  BY DEF Init, Delivery!DeliveryInit, Message

\* a POST that commits stores the answer whose turn it is or a lost one,
LEMMA StoreMaps == ASSUME IInv, NEW m \in Message, Store(m)
                   PROVE  Delivery!StoreAnswer(m)
  <1>1. m <= published /\ (m = next \/ m \in failed)
    BY DEF Store, IInv, PlaceInv
  <1>2. {n \in Message : times'[n] > 0} = {n \in Message : times[n] > 0} \cup {m}
    BY DEF Store, IInv, TypeOK
  <1> QED BY <1>1, <1>2 DEF Store, Delivery!StoreAnswer

\* A refusal loses the answer, which may be lost already.
LEMMA RefuseMaps == ASSUME IInv, NEW m \in Message, Refuse(m)
                    PROVE  [Delivery!DeliveryNext]_Delivery!delivery
  <1>1. m <= published /\ (m = next \/ m \in failed)
    BY DEF Refuse, IInv, PlaceInv
  <1>2. CASE m = next
    BY <1>1, <1>2 DEF Refuse, Delivery!DeliveryNext, Delivery!LoseAnswer
  <1>3. CASE m \in failed
    BY <1>3 DEF Refuse, Delivery!delivery
  <1> QED BY <1>1, <1>2, <1>3

\* With the group the listener takes up where the broker was told; without, at the end.
LEMMA RestartMaps == ASSUME IInv, Restart
                     PROVE  Delivery!TakeUp \/ Delivery!PassOver
  <1>1. committed \in Nat /\ published \in Nat
    BY TopicFacts DEF IInv, TypeOK
  <1>2. CASE keepsGroup
    BY <1>1, <1>2 DEF Restart, Delivery!TakeUp
  <1>3. CASE ~keepsGroup
    BY <1>1, <1>3 DEF Restart, Delivery!PassOver
  <1> QED BY <1>2, <1>3

\* and every step is one of its steps or leaves what it sees alone.
LEMMA StepMaps == ASSUME IInv, [Next]_vars
                  PROVE  [Delivery!DeliveryNext]_Delivery!delivery
  <1> USE DEF history, Delivery!DeliveryNext
  <1>1. CASE Publish
    BY <1>1 DEF Publish, Delivery!NewAnswer
  <1>2. CASE Unparsable \/ FromAnswers \/ Response \/ Crash \/ UNCHANGED vars
    BY <1>2 DEF Unparsable, FromAnswers, Response, Crash, vars, Delivery!delivery
  <1>3. CASE PostFails
    BY <1>3 DEF PostFails, IInv, PlaceInv, Delivery!LoseAnswer
  <1>4. CASE Ack
    <2>1. next \in Message /\ Settled(next)
      BY <1>4 DEF Ack, IInv, TypeOK, Settled
    <2> QED BY <1>4, <2>1 DEF Ack, IInv, SettledInv, Lost, Delivery!Advance
  <1>5. CASE CommitOffset
    BY <1>5 DEF CommitOffset, Delivery!Tell
  <1>6. CASE Restart
    BY <1>6, RestartMaps
  <1>7. CASE \E m \in Message : Store(m) \/ Refuse(m)
    BY <1>7, StoreMaps, RefuseMaps DEF Message, Delivery!Answer
  <1> QED BY <1>1, <1>2, <1>3, <1>4, <1>5, <1>6, <1>7 DEF Next, Listen

\* For any topic and any crashes, the listener implements the delivery that AnswerDelivery
\* specifies.
THEOREM ListenerDelivers == Spec => DeliversAnswers
  BY SpecIInv, InitMaps, StepMaps, PTL DEF Spec, DeliversAnswers, Delivery!DeliverySpec
=============================================================================
