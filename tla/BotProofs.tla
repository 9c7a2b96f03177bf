------------------------------ MODULE BotProofs ------------------------------
(***************************************************************************)
(* Proofs about BotGateway, for any number of messages and commands, every *)
(* cap, mode and way to drop: the state is well typed, the session lock is *)
(* held by one turn until a /stop, it is not lost but to a message that    *)
(* interrupts, messages are run in order and no summarized message is      *)
(* dropped in silence.                                                     *)
(***************************************************************************)
EXTENDS BotGateway, TLAPS

\* The message that is being handled has not been given to anybody yet.
Undecided == dispatch \notin {"idle", "release"}
Waiting(m) == Undecided /\ m = Current

\* A turn, the queue, the dropped summaries or the guidance has the message.
Placed(m) ==
    \/ turn[m] # "none"
    \/ m \in loose
    \/ m \in dropped
    \/ \E n \in Message : m \in batch[n]
    \/ \E i \in DOMAIN pending : m \in pending[i].msgs
    \/ \E i \in DOMAIN steers : m = steers[i]

\* A message is being handled once one was received, a /stop once it was sent.
TypeInv ==
    /\ TypeOK
    /\ Undecided => Current \in Message
    /\ dispatch = "release" => stops < commands

\* Nobody has a message before handleMessage gives it away, or ever when it
\* was lost to an orphaned session.
FreshInv ==
    /\ \A m \in Message : Placed(m) => m <= Current /\ ~Waiting(m)
    /\ \A m \in Message : fate[m] = "orphaned" => ~Placed(m) /\ ~Waiting(m) /\ m <= Current

\* The queue belongs to an active session, and what waits in it will be a turn
\* of the gateway and not one of the controller's own.
QueueInv ==
    /\ pending # <<>> => active
    /\ \A i \in DOMAIN pending :
          /\ pending[i].first \in pending[i].msgs
          /\ \A m \in pending[i].msgs : m \notin loose
    /\ \A m \in Message : turn[m] = "submitted" => m \in loose

\* A turn the controller started itself never comes to a Release.
LoosePC == {"submitted", "running", "ending", "cleared", "gone"}
LooseInv == \A m \in loose : turn[m] \in LoosePC

\* A goroutine that will release the session holds its lock.
LockInv ==
    /\ stops = 0 /\ Alive # {} => active
    /\ OneTurnUntilStopped
    /\ LockHasHolder

Inv == TypeInv /\ FreshInv /\ QueueInv /\ LooseInv /\ LockInv /\ TurnsInOrder /\ DroppedIsNoted

-----------------------------------------------------------------------------
(* Queues.                                                                 *)

LEMMA TailFacts ==
    ASSUME NEW S, NEW q \in Seq(S), q # <<>>
    PROVE  /\ Tail(q) \in Seq(S)
           /\ Len(q) \in Nat \ {0}
           /\ Len(Tail(q)) = Len(q) - 1
           /\ \A i \in 1..Len(Tail(q)) : i + 1 \in 1..Len(q) /\ Tail(q)[i] = q[i + 1]
           /\ Head(q) = q[1] /\ 1 \in 1..Len(q) /\ q[1] \in S
  OBVIOUS

LEMMA AppendFacts ==
    ASSUME NEW S, NEW q \in Seq(S), NEW x \in S
    PROVE  /\ Append(q, x) \in Seq(S)
           /\ Len(Append(q, x)) = Len(q) + 1
           /\ Append(q, x)[Len(q) + 1] = x
           /\ \A i \in 1..Len(q) : Append(q, x)[i] = q[i]
  OBVIOUS

\* Making room keeps the entries in their order and leaves a free place.
LEMMA RoomFacts ==
    ASSUME TypeOK
    PROVE  /\ Room \in Seq(Entry)
           /\ Len(Room) < Cap
           /\ \E d \in {0, 1} : \A i \in 1..Len(Room) :
                 i + d \in 1..Len(pending) /\ Room[i] = pending[i + d]
<1> USE CapAssumption
<1>1. pending \in Seq(Entry) /\ Len(pending) <= Cap BY DEF TypeOK
<1>2. CASE Full
  <2>1. pending # <<>> BY <1>1, <1>2 DEF Full
  <2>2. Room = Tail(pending) BY <1>2 DEF Room
  <2>3. \A i \in 1..Len(Room) : i + 1 \in 1..Len(pending) /\ Room[i] = pending[i + 1]
    BY <1>1, <2>1, <2>2, TailFacts
  <2>4. Room \in Seq(Entry) /\ Len(Room) < Cap BY <1>1, <2>1, <2>2, TailFacts
  <2> QED BY <2>3, <2>4
<1>3. CASE ~Full
  <2>1. Room = pending BY <1>3 DEF Room
  <2>2. Len(Room) < Cap BY <1>1, <1>3, <2>1 DEF Full
  <2>3. \A i \in 1..Len(Room) : i + 0 \in 1..Len(pending) /\ Room[i] = pending[i + 0]
    BY <1>1, <2>1
  <2> QED BY <1>1, <2>1, <2>2, <2>3
<1> QED BY <1>2, <1>3

\* The queue after a message was appended or merged: it is in the last entry,
\* and the others are entries of the old queue in their order.
LEMMA EnqueueFacts ==
    ASSUME TypeOK, Enqueue, Current \in Message
    PROVE  /\ pending' \in Seq(Entry)
           /\ Len(pending') \in 1..Cap
           /\ \E d \in {0, 1} :
                /\ \A i \in 1..(Len(pending') - 1) :
                      i + d \in 1..Len(pending) /\ pending'[i] = pending[i + d]
                /\ \/ /\ pending'[Len(pending')].msgs = {Current}
                      /\ pending'[Len(pending')].first = Current
                   \/ /\ Len(pending') + d \in 1..Len(pending)
                      /\ pending'[Len(pending')].msgs = pending[Len(pending') + d].msgs \cup {Current}
                      /\ pending'[Len(pending')].first = pending[Len(pending') + d].first
<1> USE CapAssumption
<1>1. Room \in Seq(Entry) /\ Len(Room) < Cap BY RoomFacts
<1>2. PICK d \in {0, 1} : \A i \in 1..Len(Room) :
            i + d \in 1..Len(pending) /\ Room[i] = pending[i + d]
  BY RoomFacts
<1>3. CASE pending' = Appended(Room, Current)
  <2> DEFINE e == [first |-> Current, msgs |-> {Current},
                   mode |-> IF mode = "collect" THEN "collect" ELSE "followup"]
  <2>1. e \in Entry /\ e.msgs = {Current} /\ e.first = Current BY DEF Entry
  <2>2. pending' = Append(Room, e) BY <1>3 DEF Appended
  <2> HIDE DEF e
  <2>3. /\ pending' \in Seq(Entry)
        /\ Len(pending') = Len(Room) + 1
        /\ pending'[Len(Room) + 1] = e
        /\ \A i \in 1..Len(Room) : pending'[i] = Room[i]
    BY <1>1, <2>1, <2>2, AppendFacts
  <2>4. Len(Room) \in Nat /\ Len(pending') - 1 = Len(Room) /\ Len(pending') \in 1..Cap
    BY <1>1, <2>3
  <2>5. \A i \in 1..(Len(pending') - 1) :
            i + d \in 1..Len(pending) /\ pending'[i] = pending[i + d]
    BY <1>2, <2>3, <2>4
  <2> QED BY <2>1, <2>3, <2>4, <2>5
<1>4. CASE mode = "collect" /\ Room # <<>> /\ pending' = Merged(Room, Current)
  <2> DEFINE n == Len(Room)
             e == [first |-> Room[n].first, msgs |-> Room[n].msgs \cup {Current},
                   mode |-> "collect"]
  <2>1. n \in 1..n /\ n \in Nat /\ Room[n] \in Entry BY <1>1, <1>4
  <2>2. e \in Entry /\ e.msgs = Room[n].msgs \cup {Current} /\ e.first = Room[n].first
    BY <2>1 DEF Entry
  <2>3. pending' = [Room EXCEPT ![n] = e] BY <1>4 DEF Merged
  <2> HIDE DEF e
  <2>4. /\ pending' \in Seq(Entry)
        /\ Len(pending') = n
        /\ pending'[n] = e
        /\ \A i \in 1..(n - 1) : pending'[i] = Room[i]
    BY <1>1, <2>1, <2>2, <2>3
  <2>5. \A i \in 1..(Len(pending') - 1) :
            i + d \in 1..Len(pending) /\ pending'[i] = pending[i + d]
    BY <1>2, <2>1, <2>4
  <2>6. n + d \in 1..Len(pending) /\ Room[n] = pending[n + d] BY <1>2, <2>1
  <2>7. /\ Len(pending') + d \in 1..Len(pending)
        /\ pending'[Len(pending')].msgs = pending[Len(pending') + d].msgs \cup {Current}
        /\ pending'[Len(pending')].first = pending[Len(pending') + d].first
    BY <2>2, <2>4, <2>6
  <2>8. Len(pending') \in 1..Cap BY <1>1, <2>1, <2>4
  <2> HIDE DEF n
  <2> QED BY <2>4, <2>5, <2>7, <2>8
<1> QED BY <1>3, <1>4 DEF Enqueue

LEMMA EnqueuedMessages ==
    ASSUME TypeOK, Enqueue, Current \in Message
    PROVE  \A i \in DOMAIN pending' : \A m \in pending'[i].msgs :
              m = Current \/ \E j \in DOMAIN pending : m \in pending[j].msgs
<1> DEFINE n == Len(pending')
<1>1. DOMAIN pending' = 1..n /\ n \in Nat /\ n >= 1
  BY EnqueueFacts, CapAssumption
<1>2. DOMAIN pending = 1..Len(pending) BY DEF TypeOK
<1>3. PICK d \in {0, 1} :
        /\ \A i \in 1..(n - 1) : i + d \in 1..Len(pending) /\ pending'[i] = pending[i + d]
        /\ \/ pending'[n].msgs = {Current}
           \/ /\ n + d \in 1..Len(pending)
              /\ pending'[n].msgs = pending[n + d].msgs \cup {Current}
  BY EnqueueFacts
<1> HIDE DEF n
<1>4. \A i \in 1..n : i = n \/ i \in 1..(n - 1) BY <1>1
<1>5. ASSUME NEW i \in DOMAIN pending', NEW m \in pending'[i].msgs
      PROVE  m = Current \/ \E j \in DOMAIN pending : m \in pending[j].msgs
  <2>1. CASE i = n BY <1>2, <1>3, <1>5, <2>1
  <2>2. CASE i \in 1..(n - 1) BY <1>2, <1>3, <1>5, <2>2
  <2> QED BY <1>1, <1>4, <2>1, <2>2
<1> QED BY <1>5

LEMMA DisplacedMessages ==
    ASSUME TypeOK
    PROVE  \A m \in Displaced : \E j \in DOMAIN pending : m \in pending[j].msgs
<1>1. CASE Full
  <2>1. pending # <<>> BY <1>1, CapAssumption DEF Full
  <2>2. Head(pending) = pending[1] /\ 1 \in DOMAIN pending BY <2>1, TailFacts DEF TypeOK
  <2> QED BY <1>1, <2>2 DEF Displaced
<1> QED BY <1>1 DEF Displaced

\* What Release leaves in the queue comes after what it takes.
LEMMA ReleaseFacts ==
    ASSUME TypeOK, pending # <<>>
    PROVE  /\ Rest \in Seq(Entry) /\ Len(Rest) <= Len(pending)
           /\ NextBatch.first \in Message /\ NextBatch.msgs \in SUBSET Message
           /\ 1 \in 1..Len(pending) /\ NextBatch.first = pending[1].first
           /\ \A i \in 1..Len(Rest) : i + 1 \in 1..Len(pending) /\ Rest[i] = pending[i + 1]
           /\ \A b \in NextBatch.msgs : \E i \in 1..Len(pending) : b \in pending[i].msgs
           /\ Rest # <<>> => NextBatch.msgs = pending[1].msgs
<1>1. pending \in Seq(Entry) BY DEF TypeOK
<1>2. Head(pending) = pending[1] /\ 1 \in 1..Len(pending) /\ pending[1] \in Entry
  BY <1>1, TailFacts
<1>3. CASE Head(pending).mode = "followup"
  <2>1. Rest = Tail(pending) /\ NextBatch = pending[1] BY <1>2, <1>3 DEF Rest, NextBatch
  <2>2. /\ Tail(pending) \in Seq(Entry) /\ Len(Tail(pending)) <= Len(pending)
        /\ \A i \in 1..Len(Tail(pending)) :
              i + 1 \in 1..Len(pending) /\ Tail(pending)[i] = pending[i + 1]
    BY <1>1, TailFacts
  <2> QED BY <1>2, <2>1, <2>2 DEF Entry
<1>4. CASE Head(pending).mode # "followup"
  <2>1. Rest = <<>> /\ NextBatch.first = pending[1].first /\ NextBatch.msgs = QueuedMessages
    BY <1>2, <1>4 DEF Rest, NextBatch
  <2>2. DOMAIN pending = 1..Len(pending) BY <1>1
  <2>3. \A b \in QueuedMessages : \E i \in 1..Len(pending) : b \in pending[i].msgs
    BY <2>2 DEF QueuedMessages
  <2>4. \A i \in 1..Len(pending) : pending[i].msgs \subseteq Message
    <3>1. \A i \in 1..Len(pending) : pending[i] \in Entry BY <1>1
    <3> QED BY <3>1 DEF Entry
  <2>5. QueuedMessages \subseteq Message BY <2>3, <2>4
  <2> QED BY <1>1, <1>2, <2>1, <2>3, <2>5 DEF Entry
<1> QED BY <1>3, <1>4
-----------------------------------------------------------------------------
(* Types.                                                                  *)

LEMMA NextCases ==
    ASSUME Next
    PROVE  \/ Receive \/ Handle \/ Stop
           \/ \E q \in Modes : SetQueueMode(q)
           \/ \E m \in Message : Proceed(m) \/ Consume(m)
  BY DEF Next

LEMMA TypeInit == Init => TypeInv
<1> SUFFICES ASSUME Init PROVE TypeInv OBVIOUS
<1> USE BoundsAssumption, CapAssumption
<1>1. pending \in Seq(Entry) /\ Len(pending) <= Cap /\ steers \in Seq(Message)
  BY DEF Init
<1>2. /\ received \in 0..MaxMessages /\ commands \in 0..MaxCommands /\ stops \in 0..commands
      /\ dispatch \in DispatchPC
  BY DEF Init, DispatchPC
<1>3. /\ turn \in [Message -> TurnPC] /\ batch \in [Message -> SUBSET Message]
      /\ fate \in [Message -> Fate]
  BY DEF Init, TurnPC, Fate
<1> QED BY <1>1, <1>2, <1>3 DEF Init, TypeInv, TypeOK, Undecided

LEMMA DecidedType ==
    ASSUME TypeOK, NEW ms, NEW f \in Fate
    PROVE  Decided(ms, f) \in [Message -> Fate]
  BY DEF TypeOK, Decided

LEMMA GoesType ==
    ASSUME TypeOK, NEW m \in Message, NEW from, NEW to \in TurnPC, Goes(m, from, to)
    PROVE  turn' \in [Message -> TurnPC]
  BY DEF TypeOK, Goes

LEMMA TypeHandle ==
    ASSUME TypeInv, Handle
    PROVE  TypeInv'
<1> USE DEF TypeInv, Current, Undecided, vars, dispatchVars, queueVars, turnVars, controlVars
<1>1. CASE CheckActive BY <1>1 DEF CheckActive, TypeOK, DispatchPC
<1>2. CASE FindController BY <1>2 DEF FindController, TypeOK, DispatchPC
<1>3. CASE SteerCheck BY <1>3 DEF SteerCheck, TypeOK, DispatchPC, TurnPC
<1>4. CASE Guide
  <2>1. steers' \in Seq(Message) BY <1>4, AppendFacts DEF Guide, TypeOK
  <2> QED BY <1>4, <2>1 DEF Guide, TypeOK, DispatchPC
<1>5. CASE CancelActive BY <1>5 DEF CancelActive, TypeOK, DispatchPC, Target
<1>6. CASE Replace
  <2> DEFINE e == [first |-> Current, msgs |-> {Current}, mode |-> "followup"]
  <2>1. e \in Entry BY <1>6 DEF Replace, Entry
  <2> HIDE DEF e
  <2>2. <<e>> \in Seq(Entry) /\ Len(<<e>>) <= Cap BY <2>1, CapAssumption
  <2>3. pending' = <<e>> \/ pending' = pending BY <1>6 DEF Replace, e
  <2>4. pending' \in Seq(Entry) /\ Len(pending') <= Cap BY <2>2, <2>3 DEF TypeOK
  <2>5. fate' \in [Message -> Fate] BY <1>6, DecidedType DEF Replace, Fate
  <2> QED BY <1>6, <2>4, <2>5 DEF Replace, TypeOK, DispatchPC
<1>7. CASE Acquire BY <1>7 DEF Acquire, TypeOK, DispatchPC, TurnPC
<1>8. CASE Reject
  <2>1. fate' \in [Message -> Fate] BY <1>8, DecidedType DEF Reject, Fate
  <2> QED BY <1>8, <2>1 DEF Reject, TypeOK, DispatchPC
<1>9. CASE Enqueue
  <2>1. Current \in Message BY <1>9 DEF Enqueue
  <2>2. pending' \in Seq(Entry) /\ Len(pending') <= Cap
    <3>1. Len(pending') \in 1..Cap BY <1>9, <2>1, EnqueueFacts
    <3> QED BY <1>9, <2>1, <3>1, EnqueueFacts, CapAssumption
  <2>3. fate' \in [Message -> Fate] BY <1>9, DecidedType DEF Enqueue, Fate
  <2>4. Displaced \subseteq Message
    <3>1. CASE Full
      <4>1. pending # <<>> BY <3>1, CapAssumption DEF Full
      <4>2. Head(pending) \in Entry BY <4>1, TailFacts DEF TypeOK
      <4> QED BY <3>1, <4>2 DEF Displaced, Entry
    <3> QED BY <3>1 DEF Displaced
  <2>5. dropped' \subseteq Message BY <1>9, <2>4 DEF Enqueue, TypeOK
  <2> HIDE DEF Displaced
  <2> QED BY <1>9, <2>2, <2>3, <2>5 DEF Enqueue, TypeOK, DispatchPC
<1>10. CASE ForceRelease
  <2>1. fate' \in [Message -> Fate] BY <1>10, DecidedType DEF ForceRelease, Fate
  <2>2. pending' \in Seq(Entry) /\ Len(pending') <= Cap
    BY <1>10, CapAssumption DEF ForceRelease
  <2>3. stops' \in 0..commands' BY <1>10 DEF ForceRelease, TypeOK
  <2> QED BY <1>10, <2>1, <2>2, <2>3 DEF ForceRelease, TypeOK, DispatchPC
<1> QED BY <1>1, <1>2, <1>3, <1>4, <1>5, <1>6, <1>7, <1>8, <1>9, <1>10 DEF Handle

LEMMA TypeProceed ==
    ASSUME TypeInv, NEW m \in Message, Proceed(m)
    PROVE  TypeInv'
<1> USE DEF TypeInv, Current, Undecided, vars, dispatchVars, queueVars, turnVars, controlVars
<1>1. \A from, to : to \in TurnPC /\ Goes(m, from, to) => turn' \in [Message -> TurnPC]
  BY GoesType
<1>2. \A ms, f : f \in Fate => Decided(ms, f) \in [Message -> Fate] BY DecidedType
<1>3. CASE Open(m) BY <1>1, <1>3 DEF Open, TypeOK, TurnPC
<1>4. CASE FailToOpen(m) BY <1>1, <1>2, <1>4 DEF FailToOpen, TypeOK, TurnPC, Fate
<1>5. CASE Arm(m) BY <1>1, <1>5 DEF Arm, TypeOK, TurnPC
<1>6. CASE Enter(m) BY <1>1, <1>2, <1>6 DEF Enter, TypeOK, TurnPC, Fate
<1>7. CASE Refused(m) BY <1>1, <1>2, <1>7 DEF Refused, TypeOK, TurnPC, Fate
<1>8. CASE Submit(m) BY <1>1, <1>2, <1>8 DEF Submit, TypeOK, TurnPC, Fate
<1>9. CASE Answer(m) BY <1>1, <1>9 DEF Answer, TypeOK, TurnPC
<1>10. CASE Abort(m) BY <1>1, <1>10 DEF Abort, TypeOK, TurnPC
<1>11. CASE Clear(m)
  <2>1. steers' \in Seq(Message) BY <1>11 DEF Clear
  <2> QED BY <1>1, <1>2, <1>11, <2>1 DEF Clear, TypeOK, TurnPC, Fate
<1>12. CASE Leave(m) BY <1>1, <1>12 DEF Leave, TypeOK, TurnPC
<1>13. CASE Release(m)
  <2>1. CASE pending = <<>> BY <1>13, <2>1 DEF Release, TypeOK, TurnPC, KeepsLock
  <2>2. CASE pending # <<>>
    <3>1. NextBatch.first \in Message /\ NextBatch.msgs \in SUBSET Message
      BY <2>2, ReleaseFacts
    <3>2. pending' \in Seq(Entry) /\ Len(pending') <= Cap
      BY <1>13, <2>2, ReleaseFacts, CapAssumption DEF Release, TypeOK
    <3>3. turn' \in [Message -> TurnPC] /\ batch' \in [Message -> SUBSET Message]
      BY <1>13, <2>2, <3>1 DEF Release, TypeOK, TurnPC
    <3>4. active' \in BOOLEAN /\ noted' \subseteq Message /\ dropped' \subseteq Message
      BY <1>13, <2>2 DEF Release, TypeOK, KeepsLock, Told
    <3> QED BY <1>13, <3>2, <3>3, <3>4 DEF Release, TypeOK
  <2> QED BY <2>1, <2>2
<1> QED BY <1>3, <1>4, <1>5, <1>6, <1>7, <1>8, <1>9, <1>10, <1>11, <1>12, <1>13
        DEF Proceed

LEMMA TypeStep ==
    ASSUME TypeInv, [Next]_vars
    PROVE  TypeInv'
<1> USE BoundsAssumption
        DEF TypeInv, Current, Undecided, vars, dispatchVars, queueVars, turnVars, controlVars
<1>1. CASE Receive BY <1>1 DEF Receive, TypeOK, DispatchPC, Message
<1>2. CASE Handle BY <1>2, TypeHandle
<1>3. CASE Stop
  <2>1. canceler # None => canceler \in Message BY DEF TypeOK
  <2> QED BY <1>3, <2>1 DEF Stop, Command, TypeOK, DispatchPC
<1>4. ASSUME NEW q \in Modes, SetQueueMode(q) PROVE TypeInv'
  BY <1>4 DEF SetQueueMode, Command, TypeOK
<1>5. ASSUME NEW m \in Message, Proceed(m) PROVE TypeInv' BY <1>5, TypeProceed
<1>6. ASSUME NEW m \in Message, Consume(m) PROVE TypeInv'
  <2>1. steers' \in Seq(Message) BY <1>6, TailFacts DEF Consume, TypeOK
  <2>2. fate' \in [Message -> Fate] BY <1>6, DecidedType DEF Consume, Fate
  <2> QED BY <1>6, <2>1, <2>2 DEF Consume, TypeOK
<1>7. CASE UNCHANGED vars BY <1>7 DEF TypeOK
<1> QED BY <1>1, <1>2, <1>3, <1>4, <1>5, <1>6, <1>7, NextCases

(* The gateway's state is well typed: the queue never holds more than its   *)
(* cap, whatever is displaced, merged or replaced (session.go).             *)
THEOREM TypeCorrect == Spec => []TypeOK
<1>1. TypeInv /\ [Next]_vars => TypeInv' BY TypeStep
<1>2. TypeInv => TypeOK BY DEF TypeInv
<1> QED BY <1>1, <1>2, TypeInit, PTL DEF Spec
-----------------------------------------------------------------------------
(* Nobody has a message before it is given away.                           *)

\* What a step may do with messages: the one being handled is given to
\* somebody or lost, no other one comes into anybody's hands, and the next one
\* to be handled is a new one.
Moves ==
    /\ \A m \in Message : Placed(m)' => Placed(m) \/ (Waiting(m) /\ ~Undecided')
    /\ \A m \in Message : Waiting(m)' => Waiting(m) \/ m > Current
    /\ \A m \in Message : fate'[m] = "orphaned" =>
          fate[m] = "orphaned" \/ (Waiting(m) /\ ~Undecided' /\ ~Placed(m)')
    /\ Current' >= Current

LEMMA DecidedIsNot ==
    ASSUME NEW ms, NEW f, f # "orphaned"
    PROVE  \A m \in Message : Decided(ms, f)[m] = "orphaned" => fate[m] = "orphaned"
  BY DEF Decided

LEMMA PlacedSame ==
    ASSUME UNCHANGED <<turn, loose, dropped, batch, pending, steers>>, NEW m \in Message
    PROVE  Placed(m)' = Placed(m)
  BY DEF Placed

LEMMA MovesHandle ==
    ASSUME TypeInv, FreshInv, Handle
    PROVE  Moves
<1> USE DEF queueVars, turnVars, controlVars
<1>0. received \in Nat BY BoundsAssumption DEF TypeInv, TypeOK
<1>a. received' = received => Current' >= Current BY <1>0 DEF Current
<1>b. received' = received /\ (Undecided' => Undecided)
        => \A m \in Message : Waiting(m)' => Waiting(m)
  BY DEF Waiting, Current
<1>c. received' = received /\ (Undecided' => Undecided) /\ fate' = fate
        /\ (\A m \in Message : Placed(m)' => Placed(m) \/ (Waiting(m) /\ ~Undecided'))
        => Moves
  BY <1>a, <1>b DEF Moves
<1>1. CASE CheckActive \/ FindController
  BY <1>1, <1>c, PlacedSame DEF CheckActive, FindController, Undecided
<1>2. CASE SteerCheck
  <2>1. \A m \in Message : Placed(m)' => Placed(m) \/ (Waiting(m) /\ ~Undecided')
    <3>1. CASE running # None
      BY <1>2, <3>1, PlacedSame DEF SteerCheck
    <3>2. CASE running = None
      <4>1. ~Undecided' /\ Undecided BY <1>2, <3>2 DEF SteerCheck, Undecided
      <4>2. \A m \in Message : m # Current => turn'[m] = turn[m]
        BY <1>2, <3>2 DEF SteerCheck, TypeInv, TypeOK
      <4>3. \A m, n \in Message : m # Current /\ m \in batch'[n] => m \in batch[n]
        BY <1>2, <3>2 DEF SteerCheck, TypeInv, TypeOK
      <4> QED BY <1>2, <3>2, <4>1, <4>2, <4>3 DEF SteerCheck, Placed, Waiting
    <3> QED BY <3>1, <3>2
  <2> QED BY <1>2, <2>1, <1>c DEF SteerCheck, Undecided
<1>3. CASE Guide
  <2>1. Current \in Message BY <1>3 DEF Guide, TypeInv, Undecided
  <2>2. DOMAIN steers = 1..Len(steers) /\ DOMAIN steers' = 1..(Len(steers) + 1)
        /\ steers'[Len(steers) + 1] = Current
        /\ \A i \in 1..Len(steers) : steers'[i] = steers[i]
    BY <1>3, <2>1, AppendFacts DEF Guide, TypeInv, TypeOK
  <2>3. ~Undecided' /\ Undecided BY <1>3 DEF Guide, Undecided
  <2>4. Len(steers) \in Nat BY DEF TypeInv, TypeOK
  <2>5. \A i \in DOMAIN steers' : steers'[i] = Current \/ \E j \in DOMAIN steers : steers'[i] = steers[j]
    BY <2>2, <2>4
  <2>6. \A m \in Message : Placed(m)' => Placed(m) \/ (Waiting(m) /\ ~Undecided')
    BY <1>3, <2>3, <2>5 DEF Guide, Placed, Waiting
  <2> QED BY <1>3, <2>6, <1>c DEF Guide, Undecided
<1>4. CASE CancelActive BY <1>4, <1>c, PlacedSame DEF CancelActive, Undecided
<1>5. CASE Replace
  <2>1. ~Undecided' /\ Undecided /\ received' = received BY <1>5 DEF Replace, Undecided
  <2>2. CASE active
    <3>1. /\ pending' = <<[first |-> Current, msgs |-> {Current}, mode |-> "followup"]>>
          /\ dropped' = {}
      BY <1>5, <2>2 DEF Replace
    <3>2. \A i \in DOMAIN pending' : pending'[i].msgs = {Current} BY <3>1
    <3>3. \A m \in Message : Placed(m)' => Placed(m) \/ (Waiting(m) /\ ~Undecided')
      BY <1>5, <2>1, <3>1, <3>2 DEF Replace, Placed, Waiting
    <3>4. \A m \in Message : fate'[m] = "orphaned" => fate[m] = "orphaned"
      BY <1>5, <2>2, DecidedIsNot DEF Replace
    <3> QED BY <2>1, <3>3, <3>4, <1>a, <1>b DEF Moves
  <2>3. CASE ~active
    <3>1. UNCHANGED <<turn, loose, dropped, batch, pending, steers>> BY <1>5, <2>3 DEF Replace
    <3>2. \A m \in Message : Placed(m)' = Placed(m) BY <3>1, PlacedSame
    <3>3. \A m \in Message : fate'[m] = "orphaned" => fate[m] = "orphaned" \/ m = Current
      BY <1>5, <2>3 DEF Replace, Decided
    <3>4. \A m \in Message : m = Current => Waiting(m) /\ ~Undecided' /\ ~Placed(m)'
      BY <2>1, <3>2 DEF Waiting, FreshInv
    <3>5. \A m \in Message : fate'[m] = "orphaned" =>
            fate[m] = "orphaned" \/ (Waiting(m) /\ ~Undecided' /\ ~Placed(m)')
      BY <3>3, <3>4
    <3> QED BY <2>1, <3>2, <3>5, <1>a, <1>b DEF Moves
  <2> QED BY <2>2, <2>3
<1>6. CASE Acquire
  <2>1. \A m \in Message : Placed(m)' => Placed(m) \/ (Waiting(m) /\ ~Undecided')
    BY <1>6 DEF Acquire, Placed, Waiting, Undecided, TypeInv, TypeOK
  <2> QED BY <1>6, <2>1, <1>c DEF Acquire, Undecided
<1>7. CASE Reject
  <2>1. \A m \in Message : Placed(m)' = Placed(m) BY <1>7, PlacedSame DEF Reject
  <2>2. \A m \in Message : fate'[m] = "orphaned" => fate[m] = "orphaned"
    BY <1>7, DecidedIsNot DEF Reject
  <2> QED BY <1>7, <2>1, <2>2, <1>a, <1>b DEF Reject, Moves, Undecided
<1>8. CASE Enqueue
  <2>1. Current \in Message /\ TypeOK BY <1>8 DEF Enqueue, TypeInv, Undecided
  <2>2. ~Undecided' /\ Undecided /\ received' = received BY <1>8 DEF Enqueue, Undecided
  <2>3. \A i \in DOMAIN pending' : \A m \in pending'[i].msgs :
          m = Current \/ \E j \in DOMAIN pending : m \in pending[j].msgs
    BY <1>8, <2>1, EnqueuedMessages
  <2>4. \A m \in dropped' : m \in dropped \/ \E j \in DOMAIN pending : m \in pending[j].msgs
    BY <1>8, <2>1, DisplacedMessages DEF Enqueue
  <2>5. \A m \in Message : Placed(m)' => Placed(m) \/ (Waiting(m) /\ ~Undecided')
    BY <1>8, <2>2, <2>3, <2>4 DEF Enqueue, Placed, Waiting
  <2>6. \A m \in Message : fate'[m] = "orphaned" => fate[m] = "orphaned"
    BY <1>8, DecidedIsNot DEF Enqueue
  <2> QED BY <2>2, <2>5, <2>6, <1>a, <1>b DEF Moves
<1>9. CASE ForceRelease
  <2>1. \A m \in Message : Placed(m)' => Placed(m)
    BY <1>9 DEF ForceRelease, Placed
  <2>2. \A m \in Message : fate'[m] = "orphaned" => fate[m] = "orphaned"
    BY <1>9, DecidedIsNot DEF ForceRelease
  <2> QED BY <1>9, <2>1, <2>2, <1>a, <1>b DEF ForceRelease, Moves, Undecided
<1> QED BY <1>1, <1>2, <1>3, <1>4, <1>5, <1>6, <1>7, <1>8, <1>9 DEF Handle

LEMMA GoesPlaced ==
    ASSUME TypeInv, NEW m \in Message, NEW from, NEW to, Goes(m, from, to), from # "none",
           UNCHANGED <<loose, dropped, batch, pending>>,
           steers' = steers \/ steers' = <<>>
    PROVE  \A n \in Message : Placed(n)' => Placed(n)
<1>1. \A n \in Message : turn'[n] # "none" => turn[n] # "none"
  BY DEF Goes, TypeInv, TypeOK
<1> QED BY <1>1 DEF Placed

LEMMA MovesProceed ==
    ASSUME TypeInv, QueueInv, NEW m \in Message, Proceed(m)
    PROVE  Moves
<1> USE DEF dispatchVars, queueVars
<1>1. UNCHANGED dispatchVars
  BY DEF Proceed, Open, FailToOpen, Arm, Enter, Refused, Submit, Answer, Abort, Clear,
         Leave, Release
<1>2. /\ Current' >= Current
      /\ \A n \in Message : Waiting(n)' => Waiting(n)
  BY <1>1, BoundsAssumption DEF TypeInv, TypeOK, Current, Waiting, Undecided
<1>3. \A n \in Message : fate'[n] = "orphaned" => fate[n] = "orphaned"
  BY DecidedIsNot
  DEF Proceed, Open, FailToOpen, Arm, Enter, Refused, Submit, Answer, Abort, Clear,
      Leave, Release
<1>4. SUFFICES \A n \in Message : Placed(n)' => Placed(n)
  BY <1>2, <1>3 DEF Moves
<1>5. CASE ~Release(m)
  <2>1. \/ Open(m) \/ FailToOpen(m) \/ Arm(m) \/ Enter(m) \/ Refused(m) \/ Submit(m)
        \/ Answer(m) \/ Abort(m) \/ Clear(m) \/ Leave(m)
    BY <1>5 DEF Proceed
  <2>2. \E from, to : from # "none" /\ Goes(m, from, to)
    <3>1. CASE Leave(m)
      <4>1. \E to : Goes(m, "cleared", to) BY <3>1 DEF Leave
      <4> QED BY <4>1
    <3>2. CASE Submit(m)
      <4>1. \E to : Goes(m, "submitted", to) BY <3>2 DEF Submit
      <4> QED BY <4>1
    <3>3. CASE \/ Open(m) \/ FailToOpen(m) \/ Arm(m) \/ Enter(m) \/ Refused(m)
               \/ Answer(m) \/ Abort(m) \/ Clear(m)
      BY <3>3 DEF Open, FailToOpen, Arm, Enter, Refused, Answer, Abort, Clear
    <3> QED BY <2>1, <3>1, <3>2, <3>3
  <2>3. UNCHANGED <<loose, dropped, batch, pending>> /\ (steers' = steers \/ steers' = <<>>)
    BY <2>1 DEF Open, FailToOpen, Arm, Enter, Refused, Submit, Answer, Abort, Clear, Leave,
               controlVars
  <2> QED BY <2>2, <2>3, GoesPlaced
<1>6. CASE Release(m)
  <2>1. CASE pending = <<>>
    <3>1. \A n \in Message : turn'[n] # "none" => turn[n] # "none"
      BY <1>6, <2>1 DEF Release, TypeInv, TypeOK
    <3> QED BY <1>6, <2>1, <3>1 DEF Release, Placed, controlVars
  <2>2. CASE pending # <<>>
    <3>1. /\ turn[m] # "none"
          /\ turn' = [turn EXCEPT ![m] = "gone", ![NextBatch.first] = "starting"]
          /\ batch' = [batch EXCEPT ![NextBatch.first] = NextBatch.msgs]
          /\ pending' = Rest /\ dropped' = {} /\ loose' = loose /\ steers' = steers
      BY <1>6, <2>2 DEF Release, controlVars
    <3>2. TypeOK BY DEF TypeInv
    <3>3. \A n \in Message : turn'[n] # "none" => turn[n] # "none" \/ n = NextBatch.first
      BY <3>1, <3>2 DEF TypeOK
    <3>4. \A n, k \in Message : n \in batch'[k] => n \in batch[k] \/ n \in NextBatch.msgs
      BY <3>1, <3>2 DEF TypeOK
    <3>5. DOMAIN pending = 1..Len(pending) /\ DOMAIN Rest = 1..Len(Rest)
      BY <2>2, <3>2, ReleaseFacts DEF TypeOK
    <3>6. \A n \in NextBatch.msgs : \E i \in DOMAIN pending : n \in pending[i].msgs
      BY <2>2, <3>2, <3>5, ReleaseFacts
    <3>7. \A i \in DOMAIN pending' : \E j \in DOMAIN pending : pending'[i] = pending[j]
      BY <2>2, <3>1, <3>2, <3>5, ReleaseFacts
    <3>8. \E i \in DOMAIN pending : NextBatch.first \in pending[i].msgs
      BY <2>2, <3>2, <3>5, ReleaseFacts DEF QueueInv
    <3> QED BY <3>1, <3>3, <3>4, <3>6, <3>7, <3>8 DEF Placed
  <2> QED BY <2>1, <2>2
<1> QED BY <1>5, <1>6

LEMMA MovesNext ==
    ASSUME TypeInv, FreshInv, QueueInv, Next
    PROVE  Moves
<1> USE BoundsAssumption DEF queueVars, turnVars, controlVars
<1>1. CASE Receive
  <2>1. Current' = Current + 1 /\ Current \in Nat BY <1>1 DEF Receive, Current, TypeInv, TypeOK
  <2>2. \A m \in Message : Placed(m)' = Placed(m) BY <1>1, PlacedSame DEF Receive
  <2>3. \A m \in Message : Waiting(m)' => m > Current BY <2>1 DEF Waiting
  <2>4. fate' = fate BY <1>1 DEF Receive
  <2> QED BY <2>1, <2>2, <2>3, <2>4 DEF Moves
<1>2. CASE Handle BY <1>2, MovesHandle
<1>3. CASE Stop \/ \E q \in Modes : SetQueueMode(q)
  <2>1. \A m \in Message : Placed(m)' = Placed(m)
    BY <1>3, PlacedSame DEF Stop, SetQueueMode
  <2>2. received' = received /\ ~Undecided' /\ fate' = fate
    BY <1>3 DEF Stop, SetQueueMode, Command, Undecided
  <2> QED BY <2>1, <2>2 DEF Moves, Waiting, Current, TypeInv, TypeOK
<1>4. ASSUME NEW m \in Message, Proceed(m) PROVE Moves BY <1>4, MovesProceed
<1>5. ASSUME NEW m \in Message, Consume(m) PROVE Moves
  <2>1. \A i \in DOMAIN steers' : \E j \in DOMAIN steers : steers'[i] = steers[j]
    <3>1. steers \in Seq(Message) /\ steers # <<>> /\ steers' = Tail(steers)
      BY <1>5 DEF Consume, TypeInv, TypeOK
    <3> QED BY <3>1, TailFacts
  <2>2. \A n \in Message : Placed(n)' => Placed(n) BY <1>5, <2>1 DEF Consume, Placed
  <2>3. \A n \in Message : fate'[n] = "orphaned" => fate[n] = "orphaned"
    BY <1>5, DecidedIsNot DEF Consume
  <2>4. UNCHANGED dispatchVars BY <1>5 DEF Consume
  <2> QED BY <2>2, <2>3, <2>4 DEF Moves, Waiting, Undecided, Current, dispatchVars, TypeInv, TypeOK
<1> QED BY <1>1, <1>2, <1>3, <1>4, <1>5, NextCases

LEMMA FreshStep ==
    ASSUME TypeInv, FreshInv, QueueInv, Next
    PROVE  FreshInv'
<1>1. Moves BY MovesNext
<1>2. Current \in Int /\ Current' \in Int /\ Message \subseteq Int
  <2>1. TypeInv' BY TypeStep
  <2> QED BY <2>1, BoundsAssumption DEF TypeInv, TypeOK, Current, Message
<1>3. \A m \in Message : Placed(m)' => m <= Current' /\ ~Waiting(m)'
  BY <1>1, <1>2 DEF Moves, FreshInv, Waiting
<1>4. \A m \in Message : fate'[m] = "orphaned" => ~Placed(m)' /\ ~Waiting(m)' /\ m <= Current'
  BY <1>1, <1>2 DEF Moves, FreshInv, Waiting
<1> QED BY <1>3, <1>4 DEF FreshInv
-----------------------------------------------------------------------------
(* The queue of an active session.                                         *)

LEMMA QueueSame ==
    ASSUME QueueInv, pending' = pending, loose' = loose, active' = active,
           \A m \in Message : turn'[m] = "submitted" => turn[m] = "submitted"
    PROVE  QueueInv'
  BY DEF QueueInv

LEMMA QueueHandle ==
    ASSUME TypeInv, FreshInv, QueueInv, Handle
    PROVE  QueueInv'
<1> USE DEF queueVars, turnVars, controlVars
<1>1. CASE CheckActive \/ FindController \/ Guide \/ CancelActive \/ Reject
  BY <1>1, QueueSame DEF CheckActive, FindController, Guide, CancelActive, Reject
<1>2. Undecided => Current \in Message /\ ~Placed(Current)
  BY DEF TypeInv, FreshInv, Waiting
<1>3. CASE SteerCheck
  <2>1. CASE running # None BY <1>3, <2>1, QueueSame DEF SteerCheck
  <2>2. CASE running = None
    <3>1. ~Placed(Current) BY <1>2, <1>3 DEF SteerCheck, Undecided
    <3>2. \A i \in DOMAIN pending : Current \notin pending[i].msgs BY <3>1 DEF Placed
    <3>3. loose' = loose \cup {Current} /\ pending' = pending /\ active' = active
      BY <1>3, <2>2 DEF SteerCheck
    <3>4. \A m \in Message : turn'[m] = "submitted" => m \in loose'
      BY <1>3, <2>2, <3>3 DEF SteerCheck, QueueInv, TypeInv, TypeOK
    <3> QED BY <3>2, <3>3, <3>4 DEF QueueInv
  <2> QED BY <2>1, <2>2
<1>4. CASE Replace
  <2>1. CASE active
    <3>1. Current \notin loose BY <1>2, <1>4 DEF Replace, Undecided, Placed
    <3>2. pending' = <<[first |-> Current, msgs |-> {Current}, mode |-> "followup"]>>
      BY <1>4, <2>1 DEF Replace
    <3>3. \A i \in DOMAIN pending' : pending'[i].first = Current /\ pending'[i].msgs = {Current}
      BY <3>2
    <3> QED BY <1>4, <2>1, <3>1, <3>3 DEF Replace, QueueInv
  <2>2. CASE ~active BY <1>4, <2>2 DEF Replace, QueueInv
  <2> QED BY <2>1, <2>2
<1>5. CASE Acquire BY <1>5 DEF Acquire, QueueInv, TypeInv, TypeOK
<1>6. CASE Enqueue
  <2> DEFINE n == Len(pending')
  <2>1. Current \in Message /\ Current \notin loose /\ TypeOK
    BY <1>2, <1>6 DEF Enqueue, Undecided, Placed, TypeInv
  <2>2. DOMAIN pending' = 1..n /\ n \in Nat /\ n >= 1
    BY <1>6, <2>1, EnqueueFacts, CapAssumption
  <2>3. DOMAIN pending = 1..Len(pending) BY <2>1 DEF TypeOK
  <2>4. PICK d \in {0, 1} :
          /\ \A i \in 1..(n - 1) : i + d \in 1..Len(pending) /\ pending'[i] = pending[i + d]
          /\ \/ pending'[n].msgs = {Current} /\ pending'[n].first = Current
             \/ /\ n + d \in 1..Len(pending)
                /\ pending'[n].msgs = pending[n + d].msgs \cup {Current}
                /\ pending'[n].first = pending[n + d].first
    BY <1>6, <2>1, EnqueueFacts
  <2> HIDE DEF n
  <2>5. \A i \in 1..n : i = n \/ i \in 1..(n - 1) BY <2>2
  <2>6. ASSUME NEW i \in 1..n
        PROVE  /\ pending'[i].first \in pending'[i].msgs
               /\ \A m \in pending'[i].msgs : m \notin loose
    <3>1. CASE i = n BY <2>1, <2>3, <2>4, <3>1 DEF QueueInv
    <3>2. CASE i \in 1..(n - 1) BY <2>3, <2>4, <3>2 DEF QueueInv
    <3> QED BY <2>5, <3>1, <3>2
  <2> QED BY <1>6, <2>2, <2>6 DEF Enqueue, QueueInv
<1>7. CASE ForceRelease BY <1>7 DEF ForceRelease, QueueInv
<1> QED BY <1>1, <1>3, <1>4, <1>5, <1>6, <1>7 DEF Handle

\* The steps of a turn but its Release change neither the queue nor the lock.
Onward(m) ==
    \/ Open(m) \/ FailToOpen(m) \/ Arm(m) \/ Enter(m) \/ Refused(m) \/ Submit(m)
    \/ Answer(m) \/ Abort(m) \/ Clear(m) \/ Leave(m)

LEMMA OnwardFacts ==
    ASSUME TypeInv, NEW m \in Message, Onward(m)
    PROVE  /\ UNCHANGED <<dispatchVars, queueVars, batch, loose>>
           /\ \A n \in Message \ {m} : turn'[n] = turn[n]
           /\ turn'[m] \notin {"none", "submitted"}
           /\ turn[m] # "none"
           /\ m \in loose /\ turn[m] \in LoosePC => turn'[m] \in LoosePC
           /\ \/ turn[m] = "submitted"
              \/ m \in loose
              \/ /\ turn[m] \in {"starting", "ready", "armed", "running", "ending", "cleared"}
                 /\ turn'[m] \in {"ready", "armed", "running", "ending", "cleared", "finished"}
<1> USE DEF Goes, TypeInv, TypeOK, LoosePC
<1>1. CASE Open(m) BY <1>1 DEF Open
<1>2. CASE FailToOpen(m) BY <1>2 DEF FailToOpen
<1>3. CASE Arm(m) BY <1>3 DEF Arm
<1>4. CASE Enter(m) BY <1>4 DEF Enter
<1>5. CASE Refused(m) BY <1>5 DEF Refused
<1>6. CASE Submit(m) BY <1>6 DEF Submit
<1>7. CASE Answer(m) BY <1>7 DEF Answer
<1>8. CASE Abort(m) BY <1>8 DEF Abort
<1>9. CASE Clear(m) BY <1>9 DEF Clear
<1>10. CASE Leave(m) BY <1>10 DEF Leave
<1> QED BY <1>1, <1>2, <1>3, <1>4, <1>5, <1>6, <1>7, <1>8, <1>9, <1>10 DEF Onward

LEMMA QueueStep ==
    ASSUME TypeInv, FreshInv, QueueInv, Next
    PROVE  QueueInv'
<1> USE DEF queueVars, turnVars
<1>1. CASE Receive BY <1>1, QueueSame DEF Receive
<1>2. CASE Handle BY <1>2, QueueHandle
<1>3. CASE Stop \/ \E q \in Modes : SetQueueMode(q)
  BY <1>3, QueueSame DEF Stop, SetQueueMode
<1>4. ASSUME NEW m \in Message, Consume(m) PROVE QueueInv'
  BY <1>4, QueueSame DEF Consume
<1>5. ASSUME NEW m \in Message, Onward(m) PROVE QueueInv'
  BY <1>5, OnwardFacts, QueueSame
<1>6. ASSUME NEW m \in Message, Release(m) PROVE QueueInv'
  <2>1. \A n \in Message : turn'[n] = "submitted" => turn[n] = "submitted"
    BY <1>6 DEF Release, TypeInv, TypeOK
  <2>2. CASE pending = <<>> BY <1>6, <2>1, <2>2 DEF Release, QueueInv, KeepsLock
  <2>3. CASE pending # <<>>
    <3>1. \A i \in DOMAIN Rest : \E j \in DOMAIN pending : Rest[i] = pending[j]
      <4>1. DOMAIN Rest = 1..Len(Rest) /\ DOMAIN pending = 1..Len(pending)
        BY <2>3, ReleaseFacts DEF TypeInv, TypeOK
      <4> QED BY <2>3, <4>1, ReleaseFacts DEF TypeInv
    <3>2. active' /\ pending' = Rest /\ loose' = loose
      BY <1>6, <2>3 DEF Release, QueueInv, KeepsLock, TypeInv, TypeOK
    <3> QED BY <2>1, <3>1, <3>2 DEF QueueInv
  <2> QED BY <2>2, <2>3
<1> QED BY <1>1, <1>2, <1>3, <1>4, <1>5, <1>6, NextCases DEF Proceed, Onward
-----------------------------------------------------------------------------
(* The session lock.                                                       *)

\* What has been decided of placed messages leaves a lost one lost.
LEMMA OrphanedStays ==
    ASSUME FreshInv, Orphaned,
           \/ fate' = fate
           \/ \E ms, f : /\ fate' = Decided(ms, f)
                        /\ \A m \in Message : m \in ms => f = "orphaned" \/ Placed(m) \/ Waiting(m)
    PROVE  Orphaned'
<1>1. PICK o \in Message : fate[o] = "orphaned" BY DEF Orphaned
<1>2. ~Placed(o) /\ ~Waiting(o) BY <1>1 DEF FreshInv
<1>3. fate'[o] = "orphaned" BY <1>1, <1>2 DEF Decided
<1> QED BY <1>3 DEF Orphaned

LEMMA LockSame ==
    ASSUME LockInv, Alive' = Alive, active' = active, stops' = stops, Orphaned => Orphaned'
    PROVE  LockInv'
  BY DEF LockInv, OneTurnUntilStopped, LockHasHolder

LEMMA QueuedIsPlaced ==
    ASSUME NEW m \in Message, m \in QueuedMessages \cup dropped
    PROVE  Placed(m)
  BY DEF QueuedMessages, Placed

LEMMA LockHandle ==
    ASSUME TypeInv, FreshInv, QueueInv, LockInv, Handle
    PROVE  LockInv'
<1> USE DEF queueVars, turnVars, controlVars
<1>1. CASE CheckActive \/ FindController \/ Guide \/ CancelActive
  <2>1. Alive' = Alive /\ active' = active /\ stops' = stops /\ fate' = fate
    BY <1>1 DEF CheckActive, FindController, Guide, CancelActive, Alive
  <2> QED BY <2>1, LockSame, OrphanedStays
<1>2. CASE Reject
  <2>1. Alive' = Alive /\ active' = active /\ stops' = stops BY <1>2 DEF Reject, Alive
  <2>2. fate' = Decided({Current}, "rejected") /\ Waiting(Current)
    BY <1>2 DEF Reject, Waiting, Undecided
  <2> QED BY <2>1, <2>2, LockSame, OrphanedStays
<1>3. CASE SteerCheck
  <2>1. active' = active /\ stops' = stops /\ fate' = fate BY <1>3 DEF SteerCheck
  <2>2. Current \in Message /\ turn[Current] = "none"
    BY <1>3 DEF SteerCheck, TypeInv, FreshInv, Undecided, Waiting, Placed
  <2>3. Alive' = Alive
    <3>1. CASE running # None BY <1>3, <3>1 DEF SteerCheck, Alive
    <3>2. CASE running = None
      <4>1. \A m \in Message : m # Current =>
              turn'[m] = turn[m] /\ (m \in loose' <=> m \in loose)
        BY <1>3, <3>2 DEF SteerCheck, TypeInv, TypeOK
      <4>2. Current \in loose' BY <1>3, <3>2 DEF SteerCheck
      <4> QED BY <2>2, <4>1, <4>2 DEF Alive
    <3> QED BY <3>1, <3>2
  <2> QED BY <2>1, <2>3, LockSame, OrphanedStays
<1>4. CASE Replace
  <2>1. Alive' = Alive /\ stops' = stops BY <1>4 DEF Replace, Alive
  <2>2. Current \in Message /\ Waiting(Current) BY <1>4 DEF Replace, TypeInv, Undecided, Waiting
  <2>3. CASE active
    <3>1. fate' = Decided(QueuedMessages \cup dropped, "replaced") /\ active' = active
      BY <1>4, <2>3 DEF Replace
    <3> QED BY <2>1, <3>1, LockSame, OrphanedStays, QueuedIsPlaced
  <2>4. CASE ~active
    <3>1. active' /\ fate'[Current] = "orphaned" BY <1>4, <2>2, <2>4 DEF Replace, Decided
    <3> QED BY <2>1, <2>2, <3>1 DEF LockInv, OneTurnUntilStopped, LockHasHolder, Orphaned
  <2> QED BY <2>3, <2>4
<1>5. CASE Acquire
  <2>1. Current \in Message /\ Current \notin loose
    BY <1>5 DEF Acquire, TypeInv, FreshInv, Undecided, Waiting, Placed
  <2>2. active' /\ loose' = loose /\ stops' = stops /\ turn'[Current] = "starting"
    BY <1>5, <2>1 DEF Acquire, TypeInv, TypeOK
  <2>3. \A m \in Message : m # Current => turn'[m] = turn[m]
    BY <1>5 DEF Acquire, TypeInv, TypeOK
  <2>4. Alive' = Alive \cup {Current} BY <2>1, <2>2, <2>3 DEF Alive
  <2>5. stops = 0 => Alive = {} BY <1>5 DEF Acquire, MayAcquire, LockInv
  <2> QED BY <2>2, <2>4, <2>5 DEF LockInv, OneTurnUntilStopped, LockHasHolder
<1>6. CASE Enqueue
  <2>1. Alive' = Alive /\ active' = active /\ stops' = stops BY <1>6 DEF Enqueue, Alive
  <2>2. \A m \in Displaced : Placed(m) BY DisplacedMessages DEF Placed, TypeInv
  <2>3. \E f : fate' = Decided(Displaced, f) BY <1>6 DEF Enqueue
  <2> QED BY <2>1, <2>2, <2>3, LockSame, OrphanedStays
<1>7. CASE ForceRelease
  <2>1. ~active' /\ stops' # 0 BY <1>7 DEF ForceRelease, TypeInv, TypeOK
  <2> QED BY <2>1 DEF LockInv, OneTurnUntilStopped, LockHasHolder
<1> QED BY <1>1, <1>2, <1>3, <1>4, <1>5, <1>6, <1>7 DEF Handle

LEMMA OnwardFate ==
    ASSUME TypeInv, NEW m \in Message, Onward(m)
    PROVE  \/ fate' = fate
           \/ \E ms, f : /\ fate' = Decided(ms, f)
                        /\ \A n \in Message : n \in ms => Placed(n)
<1>1. CASE FailToOpen(m) \/ Enter(m) \/ Refused(m)
  <2>1. \E f : fate' = Decided(batch[m], f) BY <1>1 DEF FailToOpen, Enter, Refused
  <2>2. \A n \in Message : n \in batch[m] => Placed(n) BY DEF Placed
  <2> QED BY <2>1, <2>2
<1>2. CASE Submit(m)
  <2>1. turn[m] = "submitted" /\ \E f : fate' = Decided({m}, f) BY <1>2 DEF Submit, Goes
  <2> QED BY <2>1 DEF Placed
<1>3. CASE Clear(m)
  <2>1. fate' = Decided({steers[i] : i \in DOMAIN steers}, "cleared") BY <1>3 DEF Clear
  <2>2. \A n \in Message : n \in {steers[i] : i \in DOMAIN steers} => Placed(n) BY DEF Placed
  <2> QED BY <2>1, <2>2
<1>4. CASE Open(m) \/ Arm(m) \/ Answer(m) \/ Abort(m) \/ Leave(m)
  BY <1>4 DEF Open, Arm, Answer, Abort, Leave
<1> QED BY <1>1, <1>2, <1>3, <1>4 DEF Onward

LEMMA LooseStep ==
    ASSUME TypeInv, FreshInv, QueueInv, LooseInv, Next
    PROVE  LooseInv'
<1> USE DEF queueVars, turnVars
<1>1. CASE Receive \/ Stop \/ (\E q \in Modes : SetQueueMode(q)) \/ \E m \in Message : Consume(m)
  <2>1. turn' = turn /\ loose' = loose BY <1>1 DEF Receive, Stop, SetQueueMode, Consume
  <2> QED BY <2>1 DEF LooseInv
<1>2. CASE Handle
  <2>1. CASE ~(SteerCheck \/ Acquire)
    <3>1. turn' = turn /\ loose' = loose
      BY <1>2, <2>1
      DEF Handle, CheckActive, FindController, Guide, CancelActive, Replace, Reject, Enqueue,
          ForceRelease
    <3> QED BY <3>1 DEF LooseInv
  <2>2. CASE SteerCheck
    <3>1. CASE running # None BY <2>2, <3>1 DEF SteerCheck, LooseInv
    <3>2. CASE running = None
      <4>1. /\ loose' = loose \cup {Current} /\ loose \subseteq Message
            /\ \A m \in Message : turn'[m] = IF m = Current THEN "submitted" ELSE turn[m]
            /\ Current \in Message
        BY <2>2, <3>2 DEF SteerCheck, TypeInv, TypeOK, Undecided
      <4> QED BY <4>1 DEF LooseInv, LoosePC
    <3> QED BY <3>1, <3>2
  <2>3. CASE Acquire
    <3>1. Current \notin loose
      BY <2>3 DEF Acquire, TypeInv, FreshInv, Undecided, Waiting, Placed
    <3> QED BY <2>3, <3>1 DEF Acquire, LooseInv, TypeInv, TypeOK
  <2> QED BY <2>1, <2>2, <2>3
<1>3. ASSUME NEW m \in Message, Onward(m) PROVE LooseInv'
  BY <1>3, OnwardFacts DEF LooseInv, TypeInv, TypeOK
<1>4. ASSUME NEW m \in Message, Release(m) PROVE LooseInv'
  <2>1. turn[m] = "finished" /\ loose' = loose /\ loose \subseteq Message
    BY <1>4 DEF Release, TypeInv, TypeOK
  <2>2. m \notin loose BY <2>1 DEF LooseInv, LoosePC
  <2>3. CASE pending = <<>>
    BY <1>4, <2>1, <2>2, <2>3 DEF Release, LooseInv, TypeInv, TypeOK
  <2>4. CASE pending # <<>>
    <3>1. NextBatch.first \notin loose
      <4>1. NextBatch.first = pending[1].first /\ 1 \in 1..Len(pending)
        BY <2>4, ReleaseFacts DEF TypeInv
      <4>2. DOMAIN pending = 1..Len(pending) BY DEF TypeInv, TypeOK
      <4> QED BY <4>1, <4>2 DEF QueueInv
    <3>2. turn' = [turn EXCEPT ![m] = "gone", ![NextBatch.first] = "starting"]
      BY <1>4, <2>4 DEF Release
    <3> QED BY <2>1, <2>2, <3>1, <3>2 DEF LooseInv, TypeInv, TypeOK
  <2> QED BY <2>3, <2>4
<1> QED BY <1>1, <1>2, <1>3, <1>4, NextCases DEF Proceed, Onward

LEMMA LockStep ==
    ASSUME TypeInv, FreshInv, QueueInv, LooseInv, LockInv, Next
    PROVE  LockInv'
<1> USE DEF queueVars, turnVars
<1>1. CASE Receive \/ Stop \/ \E q \in Modes : SetQueueMode(q)
  <2>1. Alive' = Alive /\ active' = active /\ stops' = stops /\ fate' = fate
    BY <1>1 DEF Receive, Stop, SetQueueMode, Alive
  <2> QED BY <2>1, LockSame, OrphanedStays
<1>2. CASE Handle BY <1>2, LockHandle
<1>3. ASSUME NEW m \in Message, Consume(m) PROVE LockInv'
  <2>1. Alive' = Alive /\ active' = active /\ stops' = stops
    BY <1>3 DEF Consume, Alive, dispatchVars
  <2>2. fate' = Decided({Head(steers)}, "guided") BY <1>3 DEF Consume
  <2>3. \A n \in Message : n = Head(steers) => Placed(n)
    <3>1. Head(steers) = steers[1] /\ 1 \in DOMAIN steers
      BY <1>3, TailFacts DEF Consume, TypeInv, TypeOK
    <3> QED BY <3>1 DEF Placed
  <2> QED BY <2>1, <2>2, <2>3, LockSame, OrphanedStays
<1>4. ASSUME NEW m \in Message, Onward(m) PROVE LockInv'
  <2>1. Alive' = Alive
    <3>1. loose' = loose /\ \A n \in Message \ {m} : turn'[n] = turn[n] BY <1>4, OnwardFacts
    <3>2. turn[m] = "submitted" => m \in loose BY DEF QueueInv
    <3>3. m \in Alive' <=> m \in Alive BY <1>4, <3>1, <3>2, OnwardFacts DEF Alive
    <3>4. \A n \in Message \ {m} : n \in Alive' <=> n \in Alive BY <3>1 DEF Alive
    <3> QED BY <3>3, <3>4 DEF Alive
  <2>2. active' = active /\ stops' = stops BY <1>4, OnwardFacts DEF dispatchVars
  <2>3. Orphaned => Orphaned' BY <1>4, OnwardFate, OrphanedStays
  <2> QED BY <2>1, <2>2, <2>3, LockSame
<1>5. ASSUME NEW m \in Message, Release(m) PROVE LockInv'
  <2>1. stops' = stops /\ loose' = loose /\ turn[m] = "finished"
    BY <1>5 DEF Release, dispatchVars
  <2>2. CASE pending = <<>>
    <3>1. ~active' BY <1>5, <2>2 DEF Release, KeepsLock
    <3>2. Alive' = Alive \ {m}
      <4>1. turn'[m] = "gone" /\ \A n \in Message \ {m} : turn'[n] = turn[n]
        BY <1>5, <2>2 DEF Release, TypeInv, TypeOK
      <4> QED BY <2>1, <4>1 DEF Alive
    <3>3. m \notin loose => m \in Alive BY <2>1 DEF Alive
    <3>4. m \notin loose BY <2>1 DEF LooseInv, LoosePC
    <3> QED BY <2>1, <3>1, <3>2, <3>3, <3>4 DEF LockInv, OneTurnUntilStopped, LockHasHolder
  <2>3. CASE pending # <<>>
    <3> DEFINE b == NextBatch.first
    <3>1. active' = active /\ active BY <1>5, <2>3 DEF Release, KeepsLock, QueueInv, TypeInv, TypeOK
    <3>2. b \in Message /\ b \notin loose
      <4>1. b = pending[1].first /\ 1 \in 1..Len(pending) /\ b \in Message
        BY <2>3, ReleaseFacts DEF TypeInv
      <4>2. DOMAIN pending = 1..Len(pending) BY DEF TypeInv, TypeOK
      <4> QED BY <4>1, <4>2 DEF QueueInv
    <3> HIDE DEF b
    <3>3. turn' = [turn EXCEPT ![m] = "gone", ![b] = "starting"]
      BY <1>5, <2>3 DEF Release, b
    <3>4. turn'[b] = "starting" /\ (m # b => turn'[m] = "gone")
          /\ \A n \in Message \ {m, b} : turn'[n] = turn[n]
      BY <3>2, <3>3 DEF TypeInv, TypeOK
    <3>5. Alive' = (Alive \ {m}) \cup {b} BY <2>1, <3>2, <3>4 DEF Alive
    <3>6. m \in Alive BY <2>1 DEF Alive, LooseInv, LoosePC
    <3> QED BY <2>1, <3>1, <3>5, <3>6 DEF LockInv, OneTurnUntilStopped, LockHasHolder
  <2> QED BY <2>2, <2>3
<1> QED BY <1>1, <1>2, <1>3, <1>4, <1>5, NextCases DEF Proceed, Onward

-----------------------------------------------------------------------------
(* The order of the queue, and what is dropped from it.                     *)

\* Every queued message is older than the one being handled, and so is what the
\* turns have in their batches.
LEMMA OlderThanCurrent ==
    ASSUME TypeInv, FreshInv, Undecided
    PROVE  \A m \in Message : Placed(m) => m < Current
<1>1. Current \in Int /\ Message \subseteq Int BY BoundsAssumption DEF TypeInv, TypeOK, Current, Message
<1> QED BY <1>1 DEF FreshInv, Waiting

LEMMA OrderSame ==
    ASSUME TurnsInOrder, pending' = pending, batch' = batch, loose \subseteq loose',
           \A m \in Message : turn'[m] # "none" => turn[m] # "none" \/ m \in loose'
    PROVE  TurnsInOrder'
  BY DEF TurnsInOrder

LEMMA OrderEnqueue ==
    ASSUME TypeInv, FreshInv, TurnsInOrder, Enqueue
    PROVE  TurnsInOrder'
<1> DEFINE n == Len(pending')
<1>1. Current \in Message /\ TypeOK /\ Undecided
  BY DEF Enqueue, Undecided, TypeInv
<1>2. DOMAIN pending' = 1..n /\ n \in Nat /\ n >= 1
  BY <1>1, EnqueueFacts, CapAssumption
<1>3. DOMAIN pending = 1..Len(pending) /\ Len(pending) \in Nat
      /\ \A i \in 1..Len(pending) : pending[i].msgs \subseteq Message
  <2>1. pending \in Seq(Entry) BY <1>1 DEF TypeOK
  <2>2. \A i \in 1..Len(pending) : pending[i] \in Entry BY <2>1
  <2> QED BY <2>1, <2>2 DEF Entry
<1>4. PICK d \in {0, 1} :
        /\ \A i \in 1..(n - 1) : i + d \in 1..Len(pending) /\ pending'[i] = pending[i + d]
        /\ \/ pending'[n].msgs = {Current}
           \/ /\ n + d \in 1..Len(pending)
              /\ pending'[n].msgs = pending[n + d].msgs \cup {Current}
  BY <1>1, EnqueueFacts
<1> HIDE DEF n
<1>5. \A i \in 1..n : i = n \/ i \in 1..(n - 1) BY <1>2
<1>6. \A i \in 1..Len(pending) : \A b \in pending[i].msgs : b < Current
  BY <1>1, <1>3, OlderThanCurrent DEF Placed
<1>7. \A m \in Message : \A a \in batch[m] : a < Current
  BY <1>1, OlderThanCurrent DEF Placed, TypeOK
<1>8. turn' = turn /\ batch' = batch /\ loose' = loose BY DEF Enqueue, turnVars
<1>9. ASSUME NEW i \in 1..n, NEW m \in Message \ loose, turn[m] # "none",
             NEW a \in batch[m], NEW b \in pending'[i].msgs
      PROVE  a < b
  <2>1. CASE i = n BY <1>3, <1>4, <1>7, <1>9, <2>1 DEF TurnsInOrder
  <2>2. CASE i \in 1..(n - 1) BY <1>3, <1>4, <1>9, <2>2 DEF TurnsInOrder
  <2> QED BY <1>5, <2>1, <2>2
<1>10. ASSUME NEW i \in 1..n, NEW j \in 1..n, i < j,
              NEW a \in pending'[i].msgs, NEW b \in pending'[j].msgs
       PROVE  a < b
  <2>1. i \in 1..(n - 1) BY <1>2, <1>10
  <2>2. i + d \in 1..Len(pending) /\ a \in pending[i + d].msgs BY <1>4, <1>10, <2>1
  <2>3. CASE j = n
    <3>1. CASE b = Current BY <1>6, <2>2, <3>1
    <3>2. CASE b # Current
      <4>1. n + d \in 1..Len(pending) /\ b \in pending[n + d].msgs
        BY <1>4, <1>10, <2>3, <3>2
      <4>2. i + d < n + d BY <1>2, <1>10, <2>3
      <4> QED BY <1>3, <2>2, <4>1, <4>2 DEF TurnsInOrder
    <3> QED BY <3>1, <3>2
  <2>4. CASE j \in 1..(n - 1)
    <3>1. j + d \in 1..Len(pending) /\ b \in pending[j + d].msgs BY <1>4, <1>10, <2>4
    <3>2. i + d < j + d BY <1>10
    <3> QED BY <1>3, <2>2, <3>1, <3>2 DEF TurnsInOrder
  <2> QED BY <1>5, <2>3, <2>4
<1> QED BY <1>2, <1>8, <1>9, <1>10 DEF TurnsInOrder

LEMMA OrderRelease ==
    ASSUME TypeInv, FreshInv, QueueInv, TurnsInOrder, NEW m \in Message, Release(m)
    PROVE  TurnsInOrder'
<1>1. CASE pending = <<>>
  <2>1. pending' = <<>> BY <1>1 DEF Release
  <2> QED BY <2>1 DEF TurnsInOrder
<1>2. CASE pending # <<>>
  <2> DEFINE f == NextBatch.first
             rest == Rest
             ms == NextBatch.msgs
  <2>1. /\ turn' = [turn EXCEPT ![m] = "gone", ![f] = "starting"]
        /\ batch' = [batch EXCEPT ![f] = ms]
        /\ pending' = rest /\ loose' = loose /\ turn[m] = "finished"
    BY <1>2 DEF Release
  <2>2. /\ f \in Message /\ rest \in Seq(Entry)
        /\ 1 \in 1..Len(pending)
        /\ \A i \in 1..Len(rest) : i + 1 \in 1..Len(pending) /\ rest[i] = pending[i + 1]
        /\ rest # <<>> => ms = pending[1].msgs
    BY <1>2, ReleaseFacts DEF TypeInv
  <2> HIDE DEF f, rest, ms
  <2>3. /\ DOMAIN rest = 1..Len(rest) /\ DOMAIN pending = 1..Len(pending)
        /\ Len(rest) \in Nat /\ Len(pending) \in Nat
    BY <2>2 DEF TypeInv, TypeOK
  <2>4. \A n \in Message \ {f} : batch'[n] = batch[n] /\ (turn'[n] # "none" => turn[n] # "none")
    BY <2>1, <2>2 DEF TypeInv, TypeOK
  <2>5. batch'[f] = ms BY <2>1, <2>2 DEF TypeInv, TypeOK
  <2>6. ASSUME NEW i \in 1..Len(rest), NEW n \in Message \ loose, turn'[n] # "none",
               NEW a \in batch'[n], NEW b \in rest[i].msgs
        PROVE  a < b
    <3>1. i + 1 \in 1..Len(pending) /\ b \in pending[i + 1].msgs BY <2>2, <2>6
    <3>2. CASE n = f
      <4>1. rest # <<>> BY <2>2, <2>6
      <4>2. a \in pending[1].msgs /\ 1 < i + 1 BY <2>2, <2>5, <2>6, <3>2, <4>1
      <4> QED BY <2>2, <2>3, <3>1, <4>2 DEF TurnsInOrder
    <3>3. CASE n # f BY <2>3, <2>4, <2>6, <3>1, <3>3 DEF TurnsInOrder
    <3> QED BY <3>2, <3>3
  <2>7. ASSUME NEW i \in 1..Len(rest), NEW j \in 1..Len(rest), i < j,
               NEW a \in rest[i].msgs, NEW b \in rest[j].msgs
        PROVE  a < b
    <3>1. /\ i + 1 \in 1..Len(pending) /\ a \in pending[i + 1].msgs
          /\ j + 1 \in 1..Len(pending) /\ b \in pending[j + 1].msgs
          /\ i + 1 < j + 1
      BY <2>2, <2>7
    <3> QED BY <2>3, <3>1 DEF TurnsInOrder
  <2> QED BY <2>1, <2>3, <2>6, <2>7 DEF TurnsInOrder
<1> QED BY <1>1, <1>2

LEMMA OrderStep ==
    ASSUME TypeInv, FreshInv, QueueInv, LockInv, TurnsInOrder, Next
    PROVE  TurnsInOrder'
<1> USE DEF queueVars, turnVars
<1>1. CASE Receive \/ Stop \/ (\E q \in Modes : SetQueueMode(q)) \/ \E m \in Message : Consume(m)
  <2>1. turn' = turn /\ loose' = loose /\ pending' = pending /\ batch' = batch
    BY <1>1 DEF Receive, Stop, SetQueueMode, Consume
  <2> QED BY <2>1, OrderSame
<1>2. CASE Handle
  <2>1. CASE CheckActive \/ FindController \/ Guide \/ CancelActive \/ Reject
    BY <2>1, OrderSame DEF CheckActive, FindController, Guide, CancelActive, Reject
  <2>2. CASE SteerCheck
    <3>1. CASE running # None BY <2>2, <3>1, OrderSame DEF SteerCheck
    <3>2. CASE running = None
      <4>1. loose' = loose \cup {Current} /\ pending' = pending
            /\ \A m \in Message \ {Current} : turn'[m] = turn[m] /\ batch'[m] = batch[m]
        BY <2>2, <3>2 DEF SteerCheck, TypeInv, TypeOK
      <4> QED BY <4>1 DEF TurnsInOrder
    <3> QED BY <3>1, <3>2
  <2>3. CASE Replace
    <3>1. CASE active
      <4>1. pending' = <<[first |-> Current, msgs |-> {Current}, mode |-> "followup"]>>
            /\ turn' = turn /\ batch' = batch /\ loose' = loose
        BY <2>3, <3>1 DEF Replace
      <4>2. DOMAIN pending' = {1} /\ pending'[1].msgs = {Current} BY <4>1
      <4>3. \A m \in Message : \A a \in batch[m] : a < Current
        BY <2>3, OlderThanCurrent DEF Replace, Undecided, Placed, TypeInv, TypeOK
      <4> QED BY <4>1, <4>2, <4>3 DEF TurnsInOrder
    <3>2. CASE ~active BY <2>3, <3>2, OrderSame DEF Replace
    <3> QED BY <3>1, <3>2
  <2>4. CASE Acquire
    <3>1. pending' = <<>> BY <2>4 DEF Acquire, MayAcquire, QueueInv
    <3> QED BY <3>1 DEF TurnsInOrder
  <2>5. CASE Enqueue BY <2>5, OrderEnqueue
  <2>6. CASE ForceRelease BY <2>6 DEF ForceRelease, TurnsInOrder
  <2> QED BY <1>2, <2>1, <2>2, <2>3, <2>4, <2>5, <2>6 DEF Handle
<1>3. ASSUME NEW m \in Message, Onward(m) PROVE TurnsInOrder'
  <2>1. UNCHANGED <<pending, batch, loose>> BY <1>3, OnwardFacts
  <2>2. \A n \in Message : turn'[n] # "none" => turn[n] # "none" BY <1>3, OnwardFacts
  <2> QED BY <2>1, <2>2, OrderSame
<1>4. ASSUME NEW m \in Message, Release(m) PROVE TurnsInOrder' BY <1>4, OrderRelease
<1> QED BY <1>1, <1>2, <1>3, <1>4, NextCases DEF Proceed, Onward

LEMMA DropSame ==
    ASSUME DroppedIsNoted, dropped' = dropped, noted' = noted,
           pending' = pending,
           \A m \in Message : fate'[m] = "dropped" => fate[m] = "dropped"
    PROVE  DroppedIsNoted'
  BY DEF DroppedIsNoted

LEMMA DecidedNotDropped ==
    ASSUME NEW ms, NEW f, f # "dropped"
    PROVE  \A m \in Message : Decided(ms, f)[m] = "dropped" => fate[m] = "dropped" /\ m \notin ms
  BY DEF Decided

LEMMA DropStep ==
    ASSUME TypeInv, DroppedIsNoted, Next
    PROVE  DroppedIsNoted'
<1> USE DEF queueVars, turnVars
<1>1. CASE Receive \/ Stop \/ \E q \in Modes : SetQueueMode(q)
  <2>1. UNCHANGED <<dropped, noted, pending, fate>> BY <1>1 DEF Receive, Stop, SetQueueMode
  <2> QED BY <2>1, DropSame
<1>2. ASSUME NEW m \in Message, Consume(m) PROVE DroppedIsNoted'
  BY <1>2, DropSame, DecidedNotDropped DEF Consume
<1>3. CASE Handle
  <2>1. CASE CheckActive \/ FindController \/ Guide \/ CancelActive \/ SteerCheck \/ Acquire
    <3>1. UNCHANGED <<dropped, noted, pending, fate>>
      BY <2>1 DEF CheckActive, FindController, Guide, CancelActive, SteerCheck, Acquire
    <3> QED BY <3>1, DropSame
  <2>2. CASE Reject BY <2>2, DropSame, DecidedNotDropped DEF Reject
  <2>3. CASE Replace
    <3>1. CASE active
      <4>1. fate' = Decided(QueuedMessages \cup dropped, "replaced") /\ dropped' = {} /\ noted' = noted
        BY <2>3, <3>1 DEF Replace
      <4> QED BY <4>1, DecidedNotDropped DEF DroppedIsNoted
    <3>2. CASE ~active
      BY <2>3, <3>2, DropSame, DecidedNotDropped DEF Replace
    <3> QED BY <3>1, <3>2
  <2>4. CASE Enqueue
    <3>1. Len(pending') \in 1..Cap /\ pending' \in Seq(Entry)
      BY <2>4, EnqueueFacts DEF Enqueue, TypeInv, Undecided
    <3>2. pending' # <<>> BY <3>1, CapAssumption
    <3>3. \A m \in Message : fate'[m] = "dropped" => m \in dropped' \cup noted'
      <4>1. CASE drop = "summarize"
        <5>1. fate' = Decided(Displaced, "dropped") /\ dropped' = dropped \cup Displaced /\ noted' = noted
          BY <2>4, <4>1 DEF Enqueue
        <5> QED BY <5>1 DEF Decided, DroppedIsNoted
      <4>2. CASE drop # "summarize"
        <5>1. fate' = Decided(Displaced, "displaced") /\ dropped' = dropped /\ noted' = noted
          BY <2>4, <4>2 DEF Enqueue
        <5> QED BY <5>1, DecidedNotDropped DEF DroppedIsNoted
      <4> QED BY <4>1, <4>2
    <3> QED BY <3>2, <3>3 DEF DroppedIsNoted
  <2>5. CASE ForceRelease
    <3>1. fate' = Decided(QueuedMessages \cup dropped, "stopped") /\ dropped' = {} /\ noted' = noted
      BY <2>5 DEF ForceRelease
    <3> QED BY <3>1, DecidedNotDropped DEF DroppedIsNoted
  <2> QED BY <1>3, <2>1, <2>2, <2>3, <2>4, <2>5 DEF Handle
<1>4. ASSUME NEW m \in Message, Onward(m) PROVE DroppedIsNoted'
  <2>1. UNCHANGED <<dropped, noted, pending>> BY <1>4, OnwardFacts
  <2>2. \A n \in Message : fate'[n] = "dropped" => fate[n] = "dropped"
    BY <1>4, DecidedNotDropped
    DEF Onward, Open, FailToOpen, Arm, Enter, Refused, Submit, Answer, Abort, Clear, Leave
  <2> QED BY <2>1, <2>2, DropSame
<1>5. ASSUME NEW m \in Message, Release(m) PROVE DroppedIsNoted'
  <2>1. fate' = fate /\ dropped' = {} BY <1>5 DEF Release
  <2>2. CASE pending = <<>> BY <1>5, <2>1, <2>2 DEF Release, DroppedIsNoted
  <2>3. CASE pending # <<>>
    <3>1. noted' = noted \cup dropped BY <1>5, <2>3 DEF Release, Told
    <3> QED BY <2>1, <3>1 DEF DroppedIsNoted
  <2> QED BY <2>2, <2>3
<1> QED BY <1>1, <1>2, <1>3, <1>4, <1>5, NextCases DEF Proceed, Onward

-----------------------------------------------------------------------------
(* The theorems.                                                           *)

LEMMA InvInit == Init => Inv
<1> SUFFICES ASSUME Init PROVE Inv OBVIOUS
<1>1. TypeInv BY TypeInit
<1>2. Alive = {} BY DEF Init, Alive
<1>3. \A m \in Message : ~Placed(m) /\ ~Waiting(m) /\ fate[m] = "none" /\ turn[m] = "none"
  BY DEF Init, Placed, Waiting, Undecided
<1>4. pending = <<>> /\ loose = {} /\ dropped = {} /\ ~active BY DEF Init
<1> QED BY <1>1, <1>2, <1>3, <1>4
        DEF Inv, FreshInv, QueueInv, LooseInv, LockInv, OneTurnUntilStopped, LockHasHolder,
            TurnsInOrder, DroppedIsNoted

LEMMA InvStep == Inv /\ [Next]_vars => Inv'
<1> SUFFICES ASSUME Inv, [Next]_vars PROVE Inv' OBVIOUS
<1>1. CASE Next
  BY <1>1, TypeStep, FreshStep, QueueStep, LooseStep, LockStep, OrderStep, DropStep DEF Inv
<1>2. CASE UNCHANGED vars
  <2> USE <1>2 DEF vars, dispatchVars, queueVars, turnVars, controlVars
  <2>1. TypeInv' BY TypeStep DEF Inv
  <2>2. FreshInv' BY DEF Inv, FreshInv, Placed, Waiting, Undecided, Current
  <2>3. QueueInv' /\ LooseInv' BY DEF Inv, QueueInv, LooseInv
  <2>4. LockInv' BY DEF Inv, LockInv, OneTurnUntilStopped, LockHasHolder, Orphaned, Alive
  <2>5. TurnsInOrder' /\ DroppedIsNoted' BY DEF Inv, TurnsInOrder, DroppedIsNoted
  <2> QED BY <2>1, <2>2, <2>3, <2>4, <2>5 DEF Inv
<1> QED BY <1>1, <1>2

LEMMA Invariance == Spec => []Inv
  BY InvInit, InvStep, PTL DEF Spec

(* However many messages race with the turns that end, a session runs one  *)
(* turn of the gateway at a time until a /stop takes its lock away         *)
(* (session.go, runTurn).                                                  *)
THEOREM OneTurnAtATime == Spec => []OneTurnUntilStopped
<1>1. Inv => OneTurnUntilStopped BY DEF Inv, LockInv
<1> QED BY <1>1, Invariance, PTL

(* The lock of a session always has a goroutine that will release it,      *)
(* unless a message that interrupts was lost to ReplacePending.            *)
THEOREM LockIsNotLost == Spec => []LockHasHolder
<1>1. Inv => LockHasHolder BY DEF Inv, LockInv
<1> QED BY <1>1, Invariance, PTL

(* Messages run in the order they came in, however TryAcquireWithQueue     *)
(* displaces and merges them and Release takes them.                       *)
THEOREM MessagesInOrder == Spec => []TurnsInOrder
<1>1. Inv => TurnsInOrder BY DEF Inv
<1> QED BY <1>1, Invariance, PTL

(* Every message that was summarized away is told to a turn, or still will *)
(* be (consumeDroppedPrefixLocked).                                        *)
THEOREM SummariesAreTold == Spec => []DroppedIsNoted
<1>1. Inv => DroppedIsNoted BY DEF Inv
<1> QED BY <1>1, Invariance, PTL
=============================================================================
