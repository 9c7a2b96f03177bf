---------------------------- MODULE AgentLoopProofs ----------------------------
(***************************************************************************)
(* The turn of the agent, for every set of replies and of guidance and for *)
(* every limit: calls take effect in order, the transcript says what ran,  *)
(* and guidance queued before the last look reaches the model in order.    *)
(***************************************************************************)
EXTENDS AgentLoop, SequenceTheorems, FiniteSetTheorems, TLAPS

(***************************************************************************)
(* The type invariant, in the parts that different actions change.         *)
(***************************************************************************)

Progress == Results \cup {"waiting", "running"}
Receipts == [call : Calls, ok : BOOLEAN]
Entries  == [turn : 1 .. MaxTurns, calls : Batches,
             told : Seq(Results \cup {"cancelled"})]
Rounds   == [step : 0 .. MaxSteps, grace : BOOLEAN, blocks : 0 .. MaxBlocks,
             empties : 0 .. MaxEmpties, recoveries : 0 .. MaxRecoveries,
             nudges : 0 .. MaxNudges, used : BOOLEAN]

\* A turn that runs was begun, and has no outcome before its end.
PlaceInv ==
    /\ pc \in {"idle", "entering", "top", "asking", "batch", "closing", "leaving"}
    /\ cancelled \in BOOLEAN
    /\ outcome \in Outcomes /\ turns \in 0 .. MaxTurns
    /\ pc # "idle" => turns >= 1
    /\ pc \notin {"leaving", "idle"} => outcome = "none"

\* While the loop goes on its counters are below their limits.
RoundInv ==
    /\ round \in Rounds
    /\ pc \in Looping => round.blocks < MaxBlocks /\ round.empties < MaxEmpties

\* The batch in hand is that of the last reply, whose results are not stored.
BatchInv ==
    /\ batch \in Seq(Progress) /\ log \in Seq(Entries)
    /\ pc = "batch" => /\ log # <<>> /\ log[Len(log)].told = <<>>
                       /\ Len(batch) = Len(Asked)

Segments == [from : Nat, to : Nat, ran : Nat, cut : Nat]

\* The calls before the segment in hand have come to their end, those from ran
\* on were not launched, and a segment of several calls holds no other than
\* reads.  A batch is only cut off when nothing is in flight, at ran.
SegmentInv ==
    /\ segment \in Segments
    /\ pc = "batch" =>
         /\ 1 <= segment.from /\ segment.from <= segment.ran
         /\ segment.ran <= segment.to /\ segment.to <= Len(batch) + 1
         /\ \A i \in DOMAIN batch : Untouched(i) <=> i >= segment.ran
         /\ \A i \in DOMAIN batch : i < segment.from => Settled(i)
         /\ segment.to <= segment.from + 1 \/ Together(segment.from, segment.to - 1)
         /\ ~Whole => /\ segment.cut = segment.ran
                      /\ \A i \in DOMAIN batch : ~InFlight(i)

SteerInv ==
    /\ queue \in Seq(Guidance) /\ heard \in Seq(Guidance) /\ landed \in Seq(Guidance)
    /\ held \subseteq Guidance /\ unsent \subseteq Guidance

LedgerInv == ledger \in Seq(Receipts)

\* A call of the batch goes on.
CallStep == \E i \in DOMAIN batch : Launch(i) \/ Refuse(i) \/ \E ok \in BOOLEAN : Execute(i, ok)

TypeInv == PlaceInv /\ RoundInv /\ BatchInv /\ SegmentInv /\ SteerInv /\ LedgerInv

-----------------------------------------------------------------------------
(* Sequences.                                                              *)

\* The first of a queue moves to the end of what was heard.
LEMMA MoveHead ==
    ASSUME NEW S, NEW h \in Seq(S), NEW q \in Seq(S), q # <<>>
    PROVE  /\ Append(h, Head(q)) \in Seq(S) /\ Tail(q) \in Seq(S)
           /\ Append(h, Head(q)) \o Tail(q) = h \o q
<1> DEFINE a == Append(h, Head(q))
           t == Tail(q)
<1>1. Head(q) \in S /\ t \in Seq(S) /\ Len(t) = Len(q) - 1 /\ Len(q) \in Nat \ {0}
      /\ \A i \in 1 .. Len(t) : t[i] = q[i + 1]
  BY HeadTailProperties, EmptySeq
<1>2. a \in Seq(S) /\ Len(a) = Len(h) + 1 /\ a[Len(h) + 1] = q[1]
      /\ \A i \in 1 .. Len(h) : a[i] = h[i]
  BY <1>1
<1>3. a \o t \in Seq(S) /\ h \o q \in Seq(S) /\ Len(a \o t) = Len(h \o q)
  BY <1>1, <1>2, ConcatProperties, LenProperties
<1>4. ASSUME NEW i \in 1 .. Len(a \o t) PROVE (a \o t)[i] = (h \o q)[i]
  BY <1>1, <1>2, <1>3, ConcatProperties, LenProperties
<1> QED BY <1>1, <1>2, <1>3, <1>4, SeqEqual

\* What is queued last is heard last.
LEMMA QueueLast ==
    ASSUME NEW h \in Seq(Guidance), NEW q \in Seq(Guidance), NEW g \in Guidance
    PROVE  Append(h \o q, g) = h \o Append(q, g)
<1>1. h \o q \in Seq(Guidance) /\ Append(q, g) \in Seq(Guidance) /\ Append(h \o q, g) \in Seq(Guidance)
      /\ h \o Append(q, g) \in Seq(Guidance)
  BY ConcatProperties
<1>2. Len(Append(h \o q, g)) = Len(h \o Append(q, g))
  BY <1>1, ConcatProperties, LenProperties
<1>3. ASSUME NEW i \in 1 .. Len(h \o Append(q, g))
      PROVE  Append(h \o q, g)[i] = (h \o Append(q, g))[i]
  BY <1>1, <1>2, ConcatProperties, LenProperties
<1> QED BY <1>1, <1>2, <1>3, SeqEqual

-----------------------------------------------------------------------------
(* Types.                                                                  *)

LEMMA Limits ==
    /\ MaxSteps \in Nat /\ MaxRecoveries \in Nat /\ MaxNudges \in Nat /\ MaxTurns \in Nat
    /\ MaxBlocks \in Nat /\ MaxBlocks > 0 /\ MaxEmpties \in Nat /\ MaxEmpties > 0
BY AgentLoopAssumption

LEMMA CallsOfReply == \A calls \in Batches : calls \in Seq(Calls) /\ calls # <<>>
BY AgentLoopAssumption

LEMMA TypeInvIsTypeOK == TypeInv => TypeOK
BY DEF TypeInv, TypeOK, PlaceInv, RoundInv, BatchInv, SteerInv, LedgerInv, Progress,
   Receipts, Entries, Rounds, SegmentInv, Segments

LEMMA InitType == Init => TypeInv
<1> SUFFICES ASSUME Init PROVE TypeInv
  OBVIOUS
<1> USE Limits DEF Init
<1>1. PlaceInv
  <2>1. cancelled \in BOOLEAN
    BY Zenon
  <2> QED BY <2>1 DEF PlaceInv, Outcomes
<1>2. RoundInv
  BY DEF RoundInv, Rounds, Fresh, Looping
<1>3. BatchInv /\ SegmentInv
  BY DEF BatchInv, SegmentInv, Segments, FirstSegment
<1>4. SteerInv /\ LedgerInv
  BY DEF SteerInv, LedgerInv
<1> QED BY <1>1, <1>2, <1>3, <1>4 DEF TypeInv

LEMMA StepPlace == PlaceInv /\ [Next]_vars => PlaceInv'
<1> SUFFICES ASSUME PlaceInv, [Next]_vars PROVE PlaceInv'
  OBVIOUS
<1> USE Limits DEF PlaceInv, Outcomes, Return, NextRound
<1>1. CASE Begin
  <2>1. cancelled' \in BOOLEAN
    BY <1>1, Zenon DEF Begin
  <2> QED BY <1>1, <2>1 DEF Begin
<1>2. CASE Enter \/ Ask \/ RoundsSpent \/ RequestFails \/ StreamBreaks \/ Close \/ Leave
  BY <1>2 DEF Enter, Ask, RoundsSpent, RequestFails, StreamBreaks, Close, Leave, steers
<1>3. CASE \E calls \in Batches : ReplyWithCalls(calls)
  BY <1>3 DEF ReplyWithCalls, steers
<1>4. CASE AnswerBlocked \/ AnswerEmpty \/ AnswerDefers \/ Answer
  BY <1>4 DEF AnswerBlocked, AnswerEmpty, AnswerDefers, Answer, steers
<1>5. CASE NextSegment \/ SegmentDone \/ CallStep
  BY <1>5 DEF NextSegment, SegmentDone, CallStep, Launch, Refuse, Execute, Ends
<1>6. CASE EndBatch
  BY <1>6 DEF EndBatch
<1>7. CASE Cancel \/ (\E g \in Guidance : SteerLooks(g) \/ Steer(g)) \/ UNCHANGED vars
  BY <1>7 DEF Cancel, SteerLooks, Steer, vars
<1> QED BY <1>1, <1>2, <1>3, <1>4, <1>5, <1>6, <1>7 DEF Next, RunStep, CallStep

\* What the loop does to its counters keeps them within their bounds.
SameBlocks(r, s) == r.blocks = s.blocks /\ r.empties = s.empties

LEMMA RepliedRound ==
    ASSUME round \in Rounds PROVE Replied \in Rounds /\ SameBlocks(Replied, round)
BY Limits DEF Replied, Rounds, SameBlocks

LEMMA SteppedRound ==
    ASSUME NEW r \in Rounds PROVE Stepped(r) \in Rounds /\ SameBlocks(Stepped(r), r)
BY Limits DEF Stepped, Rounds, SameBlocks

LEMMA CountedRound ==
    ASSUME NEW r \in Rounds
    PROVE  /\ r.blocks < MaxBlocks =>
                 LET s == [r EXCEPT !.blocks = @ + 1]
                 IN  s \in Rounds /\ s.blocks = r.blocks + 1 /\ s.empties = r.empties
           /\ r.empties < MaxEmpties =>
                 LET s == [r EXCEPT !.empties = @ + 1]
                 IN  s \in Rounds /\ s.empties = r.empties + 1 /\ s.blocks = r.blocks
           /\ r.recoveries < MaxRecoveries =>
                 LET s == [r EXCEPT !.recoveries = @ + 1] IN s \in Rounds /\ SameBlocks(s, r)
           /\ r.nudges < MaxNudges =>
                 LET s == [r EXCEPT !.nudges = @ + 1] IN s \in Rounds /\ SameBlocks(s, r)
<1> USE Limits DEF Rounds, SameBlocks
<1>1. r.blocks < MaxBlocks =>
        LET s == [r EXCEPT !.blocks = @ + 1]
        IN  s \in Rounds /\ s.blocks = r.blocks + 1 /\ s.empties = r.empties
  OBVIOUS
<1>2. r.empties < MaxEmpties =>
        LET s == [r EXCEPT !.empties = @ + 1]
        IN  s \in Rounds /\ s.empties = r.empties + 1 /\ s.blocks = r.blocks
  OBVIOUS
<1>3. r.recoveries < MaxRecoveries =>
        LET s == [r EXCEPT !.recoveries = @ + 1] IN s \in Rounds /\ SameBlocks(s, r)
  OBVIOUS
<1>4. r.nudges < MaxNudges =>
        LET s == [r EXCEPT !.nudges = @ + 1] IN s \in Rounds /\ SameBlocks(s, r)
  OBVIOUS
<1> HIDE DEF Rounds, SameBlocks
<1> QED BY <1>1, <1>2, <1>3, <1>4

LEMMA UsedRound ==
    ASSUME NEW r \in Rounds, NEW u \in BOOLEAN
    PROVE  LET s == [r EXCEPT !.empties = 0, !.used = u]
           IN  s \in Rounds /\ s.blocks = r.blocks /\ s.empties = 0
<1> DEFINE e == [r EXCEPT !.empties = 0]
<1>1. e \in Rounds /\ e.blocks = r.blocks /\ e.empties = 0
  BY Limits DEF Rounds
<1>2. [e EXCEPT !.used = u] \in Rounds /\ [e EXCEPT !.used = u].blocks = e.blocks
      /\ [e EXCEPT !.used = u].empties = e.empties
  BY <1>1 DEF Rounds
<1>3. [e EXCEPT !.used = u] = [r EXCEPT !.empties = 0, !.used = u]
  OBVIOUS
<1> QED BY <1>1, <1>2, <1>3

LEMMA GraceRound ==
    ASSUME NEW r \in Rounds, NEW g \in BOOLEAN
    PROVE  LET s == [r EXCEPT !.grace = g] IN s \in Rounds /\ SameBlocks(s, r)
BY Limits DEF Rounds, SameBlocks

LEMMA StepRound == TypeInv /\ [Next]_vars => RoundInv'
<1> SUFFICES ASSUME TypeInv, [Next]_vars PROVE RoundInv'
  OBVIOUS
<1> USE Limits DEF TypeInv, PlaceInv, RoundInv, Looping
<1>1. CASE Begin \/ Ask \/ RoundsSpent \/ RequestFails \/ Close \/ Leave
  BY <1>1 DEF Begin, Ask, RoundsSpent, RequestFails, Close, Leave, Return, loop
<1>2. CASE Enter
  BY <1>2 DEF Enter, Fresh, Rounds
<1>3. CASE StreamBreaks
  <2>1. CASE round.recoveries < MaxRecoveries
    <3>1. round' = [round EXCEPT !.recoveries = @ + 1] /\ pc = "asking"
      BY <1>3, <2>1 DEF StreamBreaks
    <3>2. round' \in Rounds /\ SameBlocks(round', round)
      BY <2>1, <3>1, CountedRound
    <3> QED BY <3>1, <3>2 DEF SameBlocks
  <2>2. CASE ~(round.recoveries < MaxRecoveries)
    BY <1>3, <2>2 DEF StreamBreaks, Return
  <2> QED BY <2>1, <2>2
<1>4. ASSUME NEW calls \in Batches, ReplyWithCalls(calls) PROVE RoundInv'
  <2>1. Replied \in Rounds /\ SameBlocks(Replied, round) /\ pc = "asking"
    BY <1>4, RepliedRound DEF ReplyWithCalls
  <2>2. round' = [Replied EXCEPT !.empties = 0, !.used = TRUE]
    BY <1>4 DEF ReplyWithCalls
  <2>3. round' \in Rounds /\ round'.blocks = round.blocks /\ round'.empties = 0
    BY <2>1, <2>2, UsedRound DEF SameBlocks
  <2> QED BY <2>1, <2>3
<1>5. CASE AnswerBlocked
  <2> DEFINE r == [Replied EXCEPT !.blocks = @ + 1]
  <2>1. Replied \in Rounds /\ SameBlocks(Replied, round) /\ pc = "asking"
    BY <1>5, RepliedRound DEF AnswerBlocked
  <2>2. r \in Rounds /\ r.empties = round.empties
    BY <2>1, CountedRound DEF SameBlocks
  <2>3. \/ r.blocks >= MaxBlocks /\ round' = r /\ pc' = "leaving"
        \/ ~(r.blocks >= MaxBlocks) /\ round' = Stepped(r)
    BY <1>5 DEF AnswerBlocked, Return, NextRound
  <2> HIDE DEF r
  <2>4. CASE r.blocks >= MaxBlocks
    BY <2>2, <2>3, <2>4
  <2>5. CASE ~(r.blocks >= MaxBlocks)
    <3>1. round' \in Rounds /\ SameBlocks(round', r)
      BY <2>2, <2>3, <2>5, SteppedRound
    <3>2. r.blocks < MaxBlocks
      BY <2>2, <2>5 DEF Rounds
    <3> QED BY <2>1, <2>2, <3>1, <3>2 DEF SameBlocks
  <2> QED BY <2>4, <2>5
<1>6. CASE AnswerEmpty
  <2> DEFINE r == [Replied EXCEPT !.empties = @ + 1]
  <2>1. Replied \in Rounds /\ SameBlocks(Replied, round) /\ pc = "asking"
    BY <1>6, RepliedRound DEF AnswerEmpty
  <2>2. r \in Rounds /\ r.blocks = round.blocks
    BY <2>1, CountedRound DEF SameBlocks
  <2>3. \/ r.empties >= MaxEmpties /\ round' = r /\ pc' = "leaving"
        \/ ~(r.empties >= MaxEmpties) /\ round' = Stepped(r)
    BY <1>6 DEF AnswerEmpty, Return, NextRound
  <2> HIDE DEF r
  <2>4. CASE r.empties >= MaxEmpties
    BY <2>2, <2>3, <2>4
  <2>5. CASE ~(r.empties >= MaxEmpties)
    <3>1. round' \in Rounds /\ SameBlocks(round', r)
      BY <2>2, <2>3, <2>5, SteppedRound
    <3>2. r.empties < MaxEmpties
      BY <2>2, <2>5 DEF Rounds
    <3> QED BY <2>1, <2>2, <3>1, <3>2 DEF SameBlocks
  <2> QED BY <2>4, <2>5
<1>7. CASE AnswerDefers
  <2> DEFINE r == [Replied EXCEPT !.nudges = @ + 1]
  <2>1. Replied \in Rounds /\ SameBlocks(Replied, round) /\ pc = "asking" /\ Replied.nudges < MaxNudges
    BY <1>7, RepliedRound DEF AnswerDefers, Replied, Rounds
  <2>2. r \in Rounds /\ SameBlocks(r, Replied)
    BY <2>1, CountedRound
  <2>3. round' = Stepped(r)
    BY <1>7 DEF AnswerDefers, NextRound
  <2> HIDE DEF r
  <2>4. round' \in Rounds /\ SameBlocks(round', r)
    BY <2>2, <2>3, SteppedRound
  <2> QED BY <2>1, <2>2, <2>4 DEF SameBlocks
<1>8. CASE Answer
  <2>1. Replied \in Rounds /\ SameBlocks(Replied, round) /\ pc = "asking"
    BY <1>8, RepliedRound DEF Answer
  <2>2. round' = Stepped(Replied) \/ round' = Replied
    BY <1>8 DEF Answer, NextRound
  <2>3. round' \in Rounds /\ SameBlocks(round', Replied)
    BY <2>1, <2>2, SteppedRound DEF SameBlocks
  <2> QED BY <2>1, <2>3 DEF SameBlocks
<1>9. CASE NextSegment \/ SegmentDone \/ CallStep
  BY <1>9 DEF NextSegment, SegmentDone, CallStep, Launch, Refuse, Execute, Ends, loop
<1>10. CASE EndBatch
  <2>1. CASE cancelled
    BY <1>10, <2>1 DEF EndBatch, Return
  <2>2. CASE ~cancelled
    <3> DEFINE g == round.grace \/ (MaxSteps > 0 /\ round.step + 1 >= MaxSteps)
               r == [round EXCEPT !.grace = g]
    <3>1. r \in Rounds /\ SameBlocks(r, round)
      <4>1. g \in BOOLEAN
        OBVIOUS
      <4> HIDE DEF g
      <4> QED BY <4>1, GraceRound
    <3>2. round' = Stepped(r) /\ pc = "batch"
      BY <1>10, <2>2 DEF EndBatch, NextRound
    <3> HIDE DEF r
    <3>3. round' \in Rounds /\ SameBlocks(round', r)
      BY <3>1, <3>2, SteppedRound
    <3> QED BY <3>1, <3>2, <3>3 DEF SameBlocks
  <2> QED BY <2>1, <2>2
<1>11. CASE Cancel \/ (\E g \in Guidance : SteerLooks(g) \/ Steer(g)) \/ UNCHANGED vars
  BY <1>11 DEF Cancel, SteerLooks, Steer, loop, vars
<1> QED BY <1>1, <1>2, <1>3, <1>4, <1>5, <1>6, <1>7, <1>8, <1>9, <1>10, <1>11 DEF Next, RunStep, CallStep

\* Most actions keep the guidance where it is, or return and clear the queue.
Keeps  == UNCHANGED <<queue, heard, landed, held, unsent>>
Clears == queue' = <<>> /\ UNCHANGED <<heard, landed, held, unsent>>

LEMMA KeepOrClear ==
    ASSUME RunStep, ~Enter, ~Ask PROVE Keeps \/ Clears
<1> USE DEF Keeps, Clears, Return, NextRound, steers, loop
<1>1. CASE RoundsSpent \/ RequestFails \/ Close \/ Leave
  BY <1>1 DEF RoundsSpent, RequestFails, Close, Leave
<1>2. CASE StreamBreaks
  BY <1>2 DEF StreamBreaks
<1>3. CASE \E calls \in Batches : ReplyWithCalls(calls)
  BY <1>3 DEF ReplyWithCalls
<1>4. CASE AnswerBlocked
  BY <1>4 DEF AnswerBlocked
<1>5. CASE AnswerEmpty
  BY <1>5 DEF AnswerEmpty
<1>6. CASE AnswerDefers \/ Answer
  BY <1>6 DEF AnswerDefers, Answer
<1>7. CASE NextSegment \/ SegmentDone \/ CallStep
  BY <1>7 DEF NextSegment, SegmentDone, CallStep, Launch, Refuse, Execute, Ends
<1>8. CASE EndBatch
  BY <1>8 DEF EndBatch
<1> QED BY <1>1, <1>2, <1>3, <1>4, <1>5, <1>6, <1>7, <1>8 DEF RunStep, CallStep

LEMMA StepSteer == SteerInv /\ [Next]_vars => SteerInv'
<1> SUFFICES ASSUME SteerInv, [Next]_vars PROVE SteerInv'
  OBVIOUS
<1>1. <<>> \in Seq(Guidance)
  BY EmptySeq
<1>2. Keeps \/ Clears => SteerInv'
  BY <1>1 DEF SteerInv, Keeps, Clears
<1>3. CASE Begin \/ Cancel \/ UNCHANGED vars
  BY <1>2, <1>3 DEF Begin, Cancel, Keeps, loop, steers, vars
<1>4. CASE Enter
  BY <1>1, <1>4 DEF Enter, SteerInv
<1>5. CASE Ask
  <2>1. CASE queue = <<>>
    BY <1>2, <1>5, <2>1 DEF Ask, Keeps
  <2>2. CASE queue # <<>>
    <3>1. heard' = Append(heard, Head(queue)) /\ queue' = Tail(queue)
          /\ UNCHANGED <<held, unsent, landed>>
      BY <1>5, <2>2 DEF Ask
    <3> QED BY <2>2, <3>1, MoveHead DEF SteerInv
  <2> QED BY <2>1, <2>2
<1>6. ASSUME NEW g \in Guidance, SteerLooks(g) \/ Steer(g) PROVE SteerInv'
  <2>1. \A q \in Seq(Guidance) : Append(q, g) \in Seq(Guidance)
    OBVIOUS
  <2>2. CASE SteerLooks(g)
    BY <2>2 DEF SteerLooks, loop, SteerInv
  <2>3. CASE Steer(g)
    <3>1. queue' = Append(queue, g) /\ (landed' = Append(landed, g) \/ landed' = landed)
          /\ heard' = heard /\ unsent' = unsent /\ held' = held \ {g}
      BY <2>3 DEF Steer, loop
    <3> QED BY <2>1, <3>1 DEF SteerInv
  <2> QED BY <1>6, <2>2, <2>3
<1> QED BY <1>2, <1>3, <1>4, <1>5, <1>6, KeepOrClear DEF Next

-----------------------------------------------------------------------------
(* The batch in hand.                                                      *)

\* The calls of the reply in hand, while they are carried out.
LEMMA AskedCalls ==
    ASSUME BatchInv, pc = "batch"
    PROVE  /\ Asked \in Seq(Calls) /\ Len(batch) \in Nat
           /\ DOMAIN batch = 1 .. Len(batch) /\ DOMAIN batch = DOMAIN Asked
<1>1. Len(log) \in 1 .. Len(log)
  BY EmptySeq DEF BatchInv
<1>2. log[Len(log)] \in Entries
  BY <1>1, ElementOfSeq DEF BatchInv
<1>3. Asked \in Seq(Calls)
  BY <1>2, CallsOfReply DEF Asked, Entries
<1> QED BY <1>3, LenProperties DEF BatchInv

\* A batch is started, when nothing has been.
LEMMA NewBatch ==
    ASSUME NEW calls \in Seq(Calls)
    PROVE  LET b == [i \in DOMAIN calls |-> "waiting"]
           IN  b \in Seq(Progress) /\ Len(b) = Len(calls) /\ DOMAIN b = 1 .. Len(calls)
<1> DEFINE b == [i \in DOMAIN calls |-> "waiting"]
<1>1. DOMAIN calls = 1 .. Len(calls) /\ Len(calls) \in Nat
  BY LenProperties
<1>2. b \in [1 .. Len(calls) -> Progress]
  BY <1>1 DEF Progress
<1> QED BY <1>1, <1>2, SeqDef

\* What the transcript is told at the end of a batch.
LEMMA ToldOfBatch ==
    ASSUME BatchInv, SegmentInv, EndBatch
    PROVE  /\ Told \in Seq(Results \cup {"cancelled"}) /\ Len(Told) = Len(batch)
           /\ DOMAIN Told = DOMAIN batch
           /\ \A i \in DOMAIN batch : Told[i] = "cancelled" <=> Untouched(i)
<1>1. DOMAIN batch = 1 .. Len(batch) /\ Len(batch) \in Nat
      /\ \A i \in DOMAIN batch : batch[i] \in Progress
  BY LenProperties, ElementOfSeq DEF BatchInv
<1>2. pc = "batch" /\ (~Whole \/ (~Open /\ AllRun)) /\ segment \in Segments
  BY DEF EndBatch, SegmentInv
<1>3. \A i \in DOMAIN batch : ~InFlight(i)
  <2>1. CASE ~Whole
    BY <1>2, <2>1 DEF SegmentInv
  <2>2. CASE AllRun
    BY <1>1, <1>2, <2>2 DEF SegmentInv, Segments, AllRun, Settled, InFlight, Results
  <2> QED BY <1>2, <2>1, <2>2
<1>4. \A i \in DOMAIN batch : ~Untouched(i) => batch[i] \in Results
  BY <1>1, <1>3 DEF Untouched, InFlight, Progress
<1>5. \A i \in 1 .. Len(batch) : (~Whole /\ i >= segment.cut) <=> Untouched(i)
  <2>1. CASE ~Whole
    BY <1>1, <1>2, <2>1 DEF SegmentInv
  <2>2. CASE Whole /\ AllRun
    BY <1>1, <1>2, <2>2 DEF SegmentInv, Segments, AllRun
  <2> QED BY <1>2, <2>1, <2>2
<1>6. Told = [i \in 1 .. Len(batch) |-> IF Untouched(i) THEN "cancelled" ELSE batch[i]]
  BY <1>1, <1>5, Zenon DEF Told
<1>7. Told \in [1 .. Len(batch) -> Results \cup {"cancelled"}]
  BY <1>1, <1>4, <1>6
<1>8. Told \in Seq(Results \cup {"cancelled"}) /\ Len(Told) = Len(batch)
  BY <1>1, <1>7, SeqDef
<1>9. ASSUME NEW i \in DOMAIN batch PROVE Told[i] = "cancelled" <=> Untouched(i)
  BY <1>1, <1>4, <1>6 DEF Results
<1> QED BY <1>1, <1>7, <1>8, <1>9

\* The actions that leave the batch in hand and the transcript alone.
Elsewhere == UNCHANGED <<batch, segment, log>> /\ pc' # "batch"
Beside    == UNCHANGED <<batch, segment, log, pc>>

LEMMA WhereBatchesChange ==
    ASSUME PlaceInv, [Next]_vars
    PROVE  \/ Elsewhere \/ Beside \/ EndBatch \/ NextSegment \/ SegmentDone \/ CallStep
           \/ \E calls \in Batches : ReplyWithCalls(calls)
<1> USE DEF Elsewhere, Beside, Return, NextRound, effects
<1>1. CASE Begin \/ Leave \/ Enter \/ Ask \/ RoundsSpent \/ RequestFails \/ Close
  BY <1>1 DEF Begin, Leave, Enter, Ask, RoundsSpent, RequestFails, Close
<1>2. CASE StreamBreaks
  BY <1>2 DEF StreamBreaks
<1>3. CASE AnswerBlocked
  BY <1>3 DEF AnswerBlocked
<1>4. CASE AnswerEmpty
  BY <1>4 DEF AnswerEmpty
<1>5. CASE AnswerDefers \/ Answer
  BY <1>5 DEF AnswerDefers, Answer
<1>6. CASE Cancel \/ (\E g \in Guidance : SteerLooks(g) \/ Steer(g)) \/ UNCHANGED vars
  BY <1>6 DEF Cancel, SteerLooks, Steer, vars
<1> QED BY <1>1, <1>2, <1>3, <1>4, <1>5, <1>6 DEF Next, RunStep, CallStep

\* A reply is the last of the transcript, and its batch has not begun.
LEMMA ReplyMakesBatch ==
    ASSUME TypeInv, NEW calls \in Batches, ReplyWithCalls(calls)
    PROVE  /\ log' \in Seq(Entries) /\ log' # <<>> /\ Asked' = calls
           /\ log'[Len(log')].told = <<>>
           /\ batch' \in Seq(Progress) /\ SegmentInv'
           /\ pc' = "batch" => Len(batch') = Len(calls)
           /\ \A i \in DOMAIN batch' : batch'[i] = "waiting"
<1> DEFINE e == [turn |-> turns, calls |-> calls, told |-> <<>>]
<1>1. e \in Entries
  <2>1. <<>> \in Seq(Results \cup {"cancelled"}) /\ turns \in 1 .. MaxTurns
    BY Limits, EmptySeq DEF TypeInv, PlaceInv, ReplyWithCalls
  <2> QED BY <2>1 DEF Entries
<1>2. log' = Append(log, e) /\ log \in Seq(Entries)
  BY DEF ReplyWithCalls, TypeInv, BatchInv
<1>3. log' \in Seq(Entries) /\ Len(log') = Len(log) + 1 /\ log'[Len(log')] = e
      /\ Len(log) \in Nat /\ log' # <<>>
  <2> HIDE DEF e
  <2> QED BY <1>1, <1>2, EmptySeq
<1>4. calls \in Seq(Calls)
  BY CallsOfReply
<1>5. \/ batch' = <<>> /\ pc' # "batch"
      \/ batch' = [i \in DOMAIN calls |-> "waiting"]
  BY DEF ReplyWithCalls, Return
<1>6. /\ batch' \in Seq(Progress) /\ \A i \in DOMAIN batch' : batch'[i] = "waiting"
      /\ pc' = "batch" => Len(batch') = Len(calls)
  <2>1. CASE batch' = <<>> /\ pc' # "batch"
    <3>1. <<>> \in Seq(Progress) /\ DOMAIN batch' = {}
      BY <2>1, EmptySeq
    <3> QED BY <2>1, <3>1, Zenon
  <2>2. CASE batch' = [i \in DOMAIN calls |-> "waiting"]
    <3>1. batch' \in Seq(Progress) /\ Len(batch') = Len(calls)
      BY <1>4, <2>2, NewBatch
    <3>2. \A i \in DOMAIN batch' : batch'[i] = "waiting"
      BY <2>2
    <3> QED BY <3>1, <3>2, Zenon
  <2> QED BY <1>5, <2>1, <2>2
<1>7. SegmentInv'
  <2>1. Len(batch') \in Nat /\ DOMAIN batch' = 1 .. Len(batch')
    BY <1>6, LenProperties
  <2>2. segment' = [from |-> 1, to |-> 1, ran |-> 1, cut |-> 0]
    BY DEF ReplyWithCalls, FirstSegment
  <2>3. Whole' /\ segment' \in Segments
    BY <2>2 DEF Whole, Segments
  <2>4. \A i \in DOMAIN batch' : Untouched(i)' <=> i >= 1
    BY <1>6, <2>1 DEF Untouched
  <2> QED BY <2>1, <2>2, <2>3, <2>4 DEF SegmentInv
<1> QED BY <1>3, <1>6, <1>7 DEF Asked

\* One call of the batch goes on.
LEMMA OneCallGoesOn ==
    ASSUME TypeInv, NEW i \in DOMAIN batch,
           Launch(i) \/ Refuse(i) \/ \E ok \in BOOLEAN : Execute(i, ok)
    PROVE  /\ pc = "batch" /\ UNCHANGED <<pc, log>>
           /\ batch' \in Seq(Progress) /\ Len(batch') = Len(batch) /\ DOMAIN batch' = DOMAIN batch
           /\ \A j \in DOMAIN batch : j # i => batch'[j] = batch[j]
           /\ \/ Launch(i) /\ batch'[i] = "running"
              \/ InFlight(i) /\ batch'[i] \in Results /\ segment' = segment
<1>1. PICK p \in Progress : /\ batch' = [batch EXCEPT ![i] = p]
                            /\ \/ Launch(i) /\ p = "running"
                               \/ InFlight(i) /\ p \in Results /\ segment' = segment
  <2>1. CASE Launch(i)
    BY <2>1 DEF Launch, Progress
  <2>2. CASE Refuse(i)
    BY <2>2 DEF Refuse, Ends, Progress, Results
  <2>3. CASE \E ok \in BOOLEAN : Execute(i, ok)
    BY <2>3 DEF Execute, Ends, Progress, Results
  <2> QED BY <2>1, <2>2, <2>3
<1>2. pc = "batch" /\ UNCHANGED <<pc, log>>
  BY DEF Launch, Refuse, Execute, Ends
<1>3. batch \in Seq(Progress) /\ DOMAIN batch = 1 .. Len(batch)
  BY LenProperties DEF TypeInv, BatchInv
<1>4. batch' \in Seq(Progress) /\ Len(batch') = Len(batch)
      /\ \A j \in 1 .. Len(batch) : batch'[j] = IF j = i THEN p ELSE batch[j]
  BY <1>1, <1>3, ExceptSeq
<1>5. DOMAIN batch' = DOMAIN batch
  BY <1>3, <1>4, LenProperties
<1> QED BY <1>1, <1>2, <1>3, <1>4, <1>5

\* The end of a batch stores the results with its reply.
LEMMA BatchIsTold ==
    ASSUME TypeInv, EndBatch
    PROVE  /\ pc = "batch" /\ pc' # "batch" /\ batch' = batch /\ segment' = segment
           /\ log' \in Seq(Entries) /\ Len(log') = Len(log) /\ log' # <<>>
           /\ log'[Len(log)].told = Told /\ Asked' = Asked
<1>1. pc = "batch" /\ pc' # "batch" /\ batch' = batch /\ log \in Seq(Entries) /\ log # <<>>
      /\ segment' = segment /\ log' = [log EXCEPT ![Len(log)].told = Told]
  BY DEF EndBatch, Return, NextRound, TypeInv, BatchInv
<1>2. Len(log) \in 1 .. Len(log) /\ log[Len(log)] \in Entries
  BY <1>1, EmptySeq, ElementOfSeq
<1>3. Told \in Seq(Results \cup {"cancelled"})
  BY ToldOfBatch DEF TypeInv
<1> DEFINE e == [log[Len(log)] EXCEPT !.told = Told]
<1>4. e \in Entries /\ e.told = Told /\ e.calls = log[Len(log)].calls
  BY <1>2, <1>3 DEF Entries
<1>5. log' = [log EXCEPT ![Len(log)] = e]
  BY <1>1
<1> HIDE DEF e
<1>6. log' \in Seq(Entries) /\ Len(log') = Len(log) /\ log'[Len(log)] = e
  BY <1>1, <1>2, <1>4, <1>5, ExceptSeq
<1> QED BY <1>1, <1>2, <1>4, <1>6, EmptySeq DEF Asked

\* Only reads are in a segment of several calls; the others are alone in theirs.
LEMMA SegmentStarts ==
    ASSUME TypeInv, NextSegment
    PROVE  BatchInv' /\ SegmentInv' /\ UNCHANGED <<pc, batch, log>>
<1>1. pc = "batch" /\ Whole /\ ~Open /\ ~AllRun /\ UNCHANGED <<pc, batch, log>>
  BY DEF NextSegment
<1>2. segment \in Segments /\ Len(batch) \in Nat /\ DOMAIN batch = 1 .. Len(batch)
  BY LenProperties DEF TypeInv, SegmentInv, BatchInv
<1>3. BatchInv'
  BY <1>1 DEF TypeInv, BatchInv, Asked
<1>4. /\ \A i : Untouched(i)' <=> Untouched(i)
      /\ \A i : Settled(i)' <=> Settled(i)
      /\ \A i : InFlight(i)' <=> InFlight(i)
      /\ \A i, j : Together(i, j)' <=> Together(i, j)
  BY <1>1 DEF Untouched, Settled, InFlight, Together, Serial, Asked
<1>5. segment.from = segment.ran /\ segment.from = segment.to
      /\ segment.from <= Len(batch) /\ 1 <= segment.from
  BY <1>1, <1>2 DEF TypeInv, SegmentInv, Segments, Open, AllRun
<1>6. CASE cancelled
  <2>1. segment' = [segment EXCEPT !.cut = segment.from]
    BY <1>6 DEF NextSegment
  <2>2. /\ segment' \in Segments /\ segment'.cut = segment.ran
        /\ segment'.from = segment.from /\ segment'.to = segment.to /\ segment'.ran = segment.ran
    BY <1>2, <1>5, <2>1 DEF Segments
  <2>3. \A i \in DOMAIN batch : ~InFlight(i)
    <3>1. \A i \in DOMAIN batch : i < segment.from \/ i >= segment.ran
      BY <1>2, <1>5 DEF Segments
    <3> QED BY <1>1, <3>1 DEF TypeInv, SegmentInv, Settled, Untouched, InFlight, Results
  <2> QED BY <1>1, <1>3, <1>4, <2>2, <2>3 DEF TypeInv, SegmentInv
<1>7. CASE ~cancelled
  <2>1. PICK to \in segment.from + 1 .. Len(batch) + 1 :
           IsSegment(segment.from, to) /\ segment' = [segment EXCEPT !.to = to]
    BY <1>7 DEF NextSegment
  <2>2. /\ segment' \in Segments /\ segment'.cut = segment.cut
        /\ segment'.from = segment.from /\ segment'.to = to /\ segment'.ran = segment.ran
    BY <1>2, <2>1 DEF Segments
  <2>3. to <= segment.from + 1 \/ Together(segment.from, to - 1)
    BY <1>2, <2>1 DEF IsSegment, Segments
  <2>4. Whole' /\ 1 <= segment.from /\ segment.ran <= to /\ to <= Len(batch) + 1
    BY <1>1, <1>2, <1>5, <2>1, <2>2 DEF Whole, Segments
  <2> QED BY <1>1, <1>3, <1>4, <1>5, <2>2, <2>3, <2>4 DEF TypeInv, SegmentInv
<1> QED BY <1>1, <1>6, <1>7

\* After the wait every call of the segment that was launched has ended.
LEMMA SegmentEnds ==
    ASSUME TypeInv, SegmentDone
    PROVE  BatchInv' /\ SegmentInv' /\ UNCHANGED <<pc, batch, log>>
<1>1. pc = "batch" /\ Whole /\ UNCHANGED <<pc, batch, log>>
      /\ \A i \in DOMAIN batch : ~InFlight(i)
  BY DEF SegmentDone
<1>2. segment \in Segments /\ Len(batch) \in Nat /\ DOMAIN batch = 1 .. Len(batch)
      /\ \A i \in DOMAIN batch : batch[i] \in Progress
  BY LenProperties, ElementOfSeq DEF TypeInv, SegmentInv, BatchInv
<1>3. BatchInv'
  BY <1>1 DEF TypeInv, BatchInv, Asked
<1>4. /\ \A i : Untouched(i)' <=> Untouched(i)
      /\ \A i : Settled(i)' <=> Settled(i)
      /\ \A i : InFlight(i)' <=> InFlight(i)
      /\ \A i, j : Together(i, j)' <=> Together(i, j)
  BY <1>1 DEF Untouched, Settled, InFlight, Together, Serial, Asked
<1>5. CASE cancelled
  <2>1. segment' = [segment EXCEPT !.cut = segment.ran]
    BY <1>5 DEF SegmentDone
  <2>2. /\ segment' \in Segments /\ segment'.cut = segment.ran
        /\ segment'.from = segment.from /\ segment'.to = segment.to /\ segment'.ran = segment.ran
    BY <1>2, <2>1 DEF Segments
  <2> QED BY <1>1, <1>3, <1>4, <2>2 DEF TypeInv, SegmentInv
<1>6. CASE ~cancelled
  <2>1. segment.ran = segment.to /\ segment' = [segment EXCEPT !.from = segment.to]
    BY <1>6 DEF SegmentDone
  <2>2. /\ segment' \in Segments /\ segment'.cut = segment.cut
        /\ segment'.from = segment.ran /\ segment'.to = segment.to /\ segment'.ran = segment.ran
    BY <1>2, <2>1 DEF Segments
  <2>3. Whole' /\ 1 <= segment.ran /\ segment.to <= segment.ran + 1
    BY <1>1, <1>2, <2>1, <2>2 DEF Whole, Segments, TypeInv, SegmentInv
  <2>4. \A i \in DOMAIN batch : i < segment.ran => Settled(i)
    <3>1. \A i \in DOMAIN batch : i < segment.ran => ~Untouched(i)
      BY <1>1, <1>2 DEF TypeInv, SegmentInv, Segments
    <3> QED BY <1>1, <1>2, <3>1 DEF Settled, Untouched, InFlight, Progress
  <2>5. segment.ran <= segment.ran
    BY <1>2 DEF Segments
  <2> QED BY <1>1, <1>3, <1>4, <2>1, <2>2, <2>3, <2>4, <2>5 DEF TypeInv, SegmentInv
<1> QED BY <1>1, <1>5, <1>6

LEMMA StepBatch == TypeInv /\ [Next]_vars => BatchInv' /\ SegmentInv'
<1> SUFFICES ASSUME TypeInv, [Next]_vars PROVE BatchInv' /\ SegmentInv'
  OBVIOUS
<1>0. PlaceInv /\ BatchInv /\ SegmentInv
  BY DEF TypeInv
<1>1. CASE Elsewhere
  BY <1>0, <1>1 DEF Elsewhere, BatchInv, SegmentInv
<1>2. CASE Beside
  <2>1. /\ \A i : Untouched(i)' <=> Untouched(i)
        /\ \A i : Settled(i)' <=> Settled(i)
        /\ \A i : InFlight(i)' <=> InFlight(i)
        /\ \A i, j : Together(i, j)' <=> Together(i, j)
        /\ Whole' <=> Whole
    BY <1>2 DEF Beside, Untouched, Settled, InFlight, Together, Serial, Asked, Whole
  <2>2. BatchInv'
    BY <1>0, <1>2 DEF Beside, BatchInv, Asked
  <2> QED BY <1>0, <1>2, <2>1, <2>2 DEF Beside, SegmentInv
<1>3. CASE EndBatch
  BY <1>0, <1>3, BatchIsTold DEF BatchInv, SegmentInv
<1>4. ASSUME NEW calls \in Batches, ReplyWithCalls(calls) PROVE BatchInv' /\ SegmentInv'
  BY <1>4, ReplyMakesBatch DEF BatchInv
<1>5. CASE NextSegment \/ SegmentDone
  BY <1>5, SegmentStarts, SegmentEnds
<1>6. ASSUME NEW i \in DOMAIN batch,
             Launch(i) \/ Refuse(i) \/ \E ok \in BOOLEAN : Execute(i, ok)
      PROVE  BatchInv' /\ SegmentInv'
  <2>1. /\ pc = "batch" /\ UNCHANGED <<pc, log>>
        /\ batch' \in Seq(Progress) /\ Len(batch') = Len(batch) /\ DOMAIN batch' = DOMAIN batch
        /\ \A j \in DOMAIN batch : j # i => batch'[j] = batch[j]
        /\ \/ Launch(i) /\ batch'[i] = "running"
           \/ InFlight(i) /\ batch'[i] \in Results /\ segment' = segment
    BY <1>6, OneCallGoesOn
  <2>2. BatchInv'
    BY <1>0, <2>1 DEF BatchInv, Asked
  <2>3. DOMAIN batch = 1 .. Len(batch) /\ Len(batch) \in Nat /\ segment \in Segments
    BY <1>0, LenProperties DEF BatchInv, SegmentInv
  <2>4. \A j, k : Together(j, k)' <=> Together(j, k)
    BY <2>1 DEF Together, Serial, Asked
  <2>5. CASE Launch(i) /\ batch'[i] = "running"
    <3>1. Whole /\ i = segment.ran /\ i < segment.to /\ segment' = [segment EXCEPT !.ran = i + 1]
      BY <2>5 DEF Launch
    <3>2. /\ segment' \in Segments /\ segment'.cut = segment.cut /\ segment'.ran = segment.ran + 1
          /\ segment'.from = segment.from /\ segment'.to = segment.to
      BY <2>3, <3>1 DEF Segments
    <3>3. ASSUME NEW j \in DOMAIN batch PROVE Untouched(j)' <=> j >= segment.ran + 1
      <4>1. CASE j = i
        BY <2>3, <2>5, <3>1, <4>1 DEF Untouched
      <4>2. CASE j # i
        <5>1. Untouched(j)' <=> Untouched(j)
          BY <2>1, <4>2 DEF Untouched
        <5>2. Untouched(j) <=> j >= segment.ran
          BY <1>0, <2>1 DEF SegmentInv
        <5> QED BY <2>3, <3>1, <4>2, <5>1, <5>2 DEF Segments
      <4> QED BY <4>1, <4>2
    <3>4. ASSUME NEW j \in DOMAIN batch, j < segment.from PROVE Settled(j)'
      <4>1. segment.from <= segment.ran /\ Settled(j)
        BY <1>0, <2>1, <3>4 DEF SegmentInv
      <4>2. j # i
        BY <2>3, <3>1, <3>4, <4>1 DEF Segments
      <4> QED BY <2>1, <4>1, <4>2 DEF Settled
    <3>5. Whole'
      BY <3>1, <3>2 DEF Whole
    <3>6. segment.from <= segment.ran + 1 /\ segment.ran + 1 <= segment.to
      BY <1>0, <2>1, <2>3, <3>1 DEF SegmentInv, Segments
    <3> QED BY <1>0, <2>1, <2>2, <2>4, <3>2, <3>3, <3>4, <3>5, <3>6 DEF SegmentInv
  <2>6. CASE InFlight(i) /\ batch'[i] \in Results /\ segment' = segment
    <3>1. \A j \in DOMAIN batch : Untouched(j)' <=> Untouched(j)
      BY <2>1, <2>6 DEF Untouched, InFlight, Results
    <3>2. \A j \in DOMAIN batch : Settled(j) => Settled(j)'
      BY <2>1, <2>6 DEF Settled
    <3>3. Whole' /\ Whole
      BY <1>0, <2>1, <2>6 DEF SegmentInv, Whole
    <3> QED BY <1>0, <2>1, <2>2, <2>4, <2>6, <3>1, <3>2, <3>3 DEF SegmentInv
  <2> QED BY <2>1, <2>5, <2>6
<1> QED BY <1>0, <1>1, <1>2, <1>3, <1>4, <1>5, <1>6, WhereBatchesChange DEF CallStep

LEMMA StepLedger == TypeInv /\ [Next]_vars => LedgerInv'
<1> SUFFICES ASSUME TypeInv, [Next]_vars PROVE LedgerInv'
  OBVIOUS
<1>0. ledger \in Seq(Receipts) /\ BatchInv
  BY DEF TypeInv, LedgerInv
<1>1. CASE Enter
  BY <1>1, EmptySeq DEF Enter, LedgerInv
<1>2. ASSUME NEW i \in DOMAIN batch, NEW ok \in BOOLEAN, Execute(i, ok) PROVE LedgerInv'
  <2>1. pc = "batch" /\ ledger' = Append(ledger, [call |-> Asked[i], ok |-> ok])
    BY <1>2 DEF Execute, Ends
  <2>2. Asked[i] \in Calls
    BY <1>0, <2>1, AskedCalls, ElementOfSeq, LenProperties
  <2>3. [call |-> Asked[i], ok |-> ok] \in Receipts
    BY <2>2 DEF Receipts
  <2> QED BY <1>0, <2>1, <2>3 DEF LedgerInv
<1>3. CASE ledger' = ledger
  BY <1>0, <1>3 DEF LedgerInv
<1>4. \/ Enter \/ ledger' = ledger
      \/ \E i \in DOMAIN batch : \E ok \in BOOLEAN : Execute(i, ok)
  BY DEF Next, RunStep, vars, effects, Begin, Leave, Cancel, SteerLooks, Steer, Ask,
     RoundsSpent, RequestFails, StreamBreaks, ReplyWithCalls, AnswerBlocked, AnswerEmpty,
     AnswerDefers, Answer, Close, NextSegment, SegmentDone, Launch, Refuse, EndBatch
<1> QED BY <1>1, <1>2, <1>3, <1>4

LEMMA TypesKept == Spec => []TypeInv
<1>1. TypeInv /\ [Next]_vars => TypeInv'
  BY StepPlace, StepRound, StepBatch, StepSteer, StepLedger DEF TypeInv
<1> QED BY <1>1, InitType, PTL DEF Spec

\* The state of a turn is well typed: its counters never pass their limits, and
\* the batch in hand is that of the last reply.
THEOREM TypeCorrect == Spec => []TypeOK
BY TypesKept, TypeInvIsTypeOK, PTL

-----------------------------------------------------------------------------
(* What a batch does, and what the transcript says of it.                  *)

\* The segments and the wait keep the order: calls before the segment in hand
\* have ended, and a call of it that is in flight shares it with reads only.
LEMMA SegmentsKeepOrder == TypeInv => ProviderOrder
<1> SUFFICES ASSUME TypeInv, pc = "batch", NEW j \in DOMAIN batch, NEW i \in 1 .. j - 1,
                    ~Untouched(j)
             PROVE  Settled(i) \/ (InFlight(i) /\ Together(i, j))
  BY DEF ProviderOrder
<1>1. segment \in Segments /\ Len(batch) \in Nat /\ DOMAIN batch = 1 .. Len(batch)
      /\ \A k \in DOMAIN batch : batch[k] \in Progress
  BY LenProperties, ElementOfSeq DEF TypeInv, SegmentInv, BatchInv
<1>2. i \in DOMAIN batch /\ j < segment.ran /\ i < segment.ran /\ ~Untouched(i)
  <2>1. j < segment.ran
    BY <1>1 DEF TypeInv, SegmentInv, Segments
  <2>2. i \in DOMAIN batch /\ i < segment.ran
    BY <1>1, <2>1 DEF Segments
  <2>3. ~Untouched(i)
    BY <1>1, <2>2 DEF TypeInv, SegmentInv, Segments
  <2> QED BY <2>1, <2>2, <2>3
<1>3. CASE i < segment.from
  BY <1>2, <1>3 DEF TypeInv, SegmentInv
<1>4. CASE i >= segment.from
  <2>1. segment.ran <= segment.to
    BY DEF TypeInv, SegmentInv
  <2>2. Together(segment.from, segment.to - 1)
    BY <1>1, <1>2, <1>4, <2>1 DEF TypeInv, SegmentInv, Segments
  <2>3. Together(i, j)
    BY <1>1, <1>2, <1>4, <2>1, <2>2 DEF Together, Segments
  <2> QED BY <1>1, <1>2, <2>3 DEF Settled, InFlight, Untouched, Progress
<1> QED BY <1>1, <1>2, <1>3, <1>4 DEF Segments

LEMMA StepTold == TypeInv /\ ToldWhatRan /\ [Next]_vars => ToldWhatRan'
<1> SUFFICES ASSUME TypeInv, ToldWhatRan, [Next]_vars PROVE ToldWhatRan'
  OBVIOUS
<1>1. CASE Elsewhere \/ Beside
  BY <1>1 DEF Elsewhere, Beside, ToldWhatRan, Untouched, Asked
<1>5. CASE NextSegment \/ SegmentDone
  <2>1. UNCHANGED <<batch, log>>
    BY <1>5 DEF NextSegment, SegmentDone
  <2> QED BY <2>1 DEF ToldWhatRan, Untouched, Asked
<1>2. CASE EndBatch
  <2>1. /\ Told \in Seq(Results \cup {"cancelled"}) /\ Len(Told) = Len(batch) /\ DOMAIN Told = DOMAIN batch
        /\ \A i \in DOMAIN batch : Told[i] = "cancelled" <=> Untouched(i)
    BY <1>2, ToldOfBatch DEF TypeInv
  <2>2. Len(batch) = Len(Asked)
    BY <1>2 DEF EndBatch, TypeInv, BatchInv
  <2> QED BY <1>2, <2>1, <2>2, BatchIsTold DEF ToldWhatRan, Untouched
<1>3. ASSUME NEW calls \in Batches, ReplyWithCalls(calls) PROVE ToldWhatRan'
  BY <1>3, ReplyMakesBatch DEF ToldWhatRan
<1>4. ASSUME NEW i \in DOMAIN batch,
             Launch(i) \/ Refuse(i) \/ \E ok \in BOOLEAN : Execute(i, ok)
      PROVE  ToldWhatRan'
  <2>1. pc = "batch" /\ UNCHANGED log
    BY <1>4, OneCallGoesOn
  <2> QED BY <2>1 DEF ToldWhatRan, TypeInv, BatchInv
<1> QED BY <1>1, <1>2, <1>3, <1>4, <1>5, WhereBatchesChange DEF TypeInv, CallStep

\* Calls take effect in the order of the provider, for every reply and every
\* bound on the calls that run together, whenever the turn is cancelled.
THEOREM CallsInOrder == Spec => []ProviderOrder
BY TypesKept, SegmentsKeepOrder, PTL

\* The transcript reports a call as cancelled exactly when it was never started.
THEOREM TranscriptIsTrue == Spec => []ToldWhatRan
<1>1. Init => ToldWhatRan
  BY DEF Init, ToldWhatRan
<1> QED BY <1>1, StepTold, TypesKept, PTL DEF Spec

-----------------------------------------------------------------------------
(* Guidance.                                                               *)

\* What the rest of the loop does: it keeps the queue and goes on, or clears
\* it and ends without an answer.
LEMMA LoopKeepsOrGivesUp ==
    ASSUME RunStep, ~Enter, ~Ask, ~Answer, ~Close, ~Leave
    PROVE  /\ pc \in Looping
           /\ \/ Keeps /\ pc' \in Looping /\ outcome' = outcome
              \/ Clears /\ pc' = "leaving" /\ outcome' # "answered"
<1> USE DEF Keeps, Clears, Return, NextRound, steers, loop, Looping
<1>1. CASE RoundsSpent
  BY <1>1 DEF RoundsSpent
<1>2. CASE RequestFails
  BY <1>2 DEF RequestFails
<1>3. CASE StreamBreaks
  BY <1>3 DEF StreamBreaks
<1>4. CASE \E calls \in Batches : ReplyWithCalls(calls)
  BY <1>4 DEF ReplyWithCalls
<1>5. CASE AnswerBlocked
  BY <1>5 DEF AnswerBlocked
<1>6. CASE AnswerEmpty
  BY <1>6 DEF AnswerEmpty
<1>7. CASE AnswerDefers
  BY <1>7 DEF AnswerDefers
<1>8. CASE NextSegment \/ SegmentDone \/ CallStep
  BY <1>8 DEF NextSegment, SegmentDone, CallStep, Launch, Refuse, Execute, Ends
<1>9. CASE EndBatch
  BY <1>9 DEF EndBatch
<1> QED BY <1>1, <1>2, <1>3, <1>4, <1>5, <1>6, <1>7, <1>8, <1>9 DEF RunStep, CallStep

LEMMA StepHeard == TypeInv /\ GuidanceIsHeard /\ [Next]_vars => GuidanceIsHeard'
<1> SUFFICES ASSUME TypeInv, GuidanceIsHeard, [Next]_vars PROVE GuidanceIsHeard'
  OBVIOUS
<1> USE DEF GuidanceIsHeard
<1>0. SteerInv /\ (pc \notin {"leaving", "idle"} => outcome = "none")
  BY DEF TypeInv, PlaceInv
<1>1. CASE Begin
  BY <1>1 DEF Begin, Looping
<1>2. CASE Cancel \/ Leave \/ UNCHANGED vars
  BY <1>2 DEF Cancel, Leave, vars, loop, steers, Looping
<1>3. CASE Enter
  BY <1>0, <1>3, ConcatEmptySeq DEF Enter, SteerInv
<1>4. CASE Ask
  <2>1. pc = "top" /\ pc' = "asking" /\ outcome' = outcome /\ landed' = landed /\ outcome = "none"
    BY <1>0, <1>4 DEF Ask
  <2>2. heard' \o queue' = heard \o queue
    <3>1. CASE queue = <<>>
      BY <1>4, <3>1 DEF Ask
    <3>2. CASE queue # <<>>
      <4>1. heard' = Append(heard, Head(queue)) /\ queue' = Tail(queue)
        BY <1>4, <3>2 DEF Ask
      <4>2. queue \in Seq(Guidance) /\ heard \in Seq(Guidance)
        BY <1>0 DEF SteerInv
      <4> QED BY <3>2, <4>1, <4>2, MoveHead
    <3> QED BY <3>1, <3>2
  <2> QED BY <2>1, <2>2 DEF Looping
<1>5. CASE Answer
  <2>1. pc = "asking" /\ outcome' = outcome /\ Keeps /\ outcome = "none"
        /\ (pc' = "top" \/ (pc' = "closing" /\ queue = <<>>))
    BY <1>0, <1>5 DEF Answer, NextRound, Keeps, steers
  <2>2. queue = <<>> => heard \o queue = heard
    BY <1>0, ConcatEmptySeq DEF SteerInv
  <2> QED BY <2>1, <2>2 DEF Looping, Keeps
<1>6. CASE Close
  BY <1>6 DEF Close, Return, loop, Looping
<1>7. CASE RunStep /\ ~(Enter \/ Ask \/ Answer \/ Close \/ Leave)
  BY <1>0, <1>7, LoopKeepsOrGivesUp DEF Keeps, Clears, Looping
<1>8. ASSUME NEW g \in Guidance, SteerLooks(g) \/ Steer(g) PROVE GuidanceIsHeard'
  <2>1. CASE SteerLooks(g)
    BY <2>1 DEF SteerLooks, loop
  <2>2. CASE Steer(g)
    <3>1. queue' = Append(queue, g) /\ UNCHANGED <<pc, heard, outcome>>
          /\ landed' = IF pc \in Looping THEN Append(landed, g) ELSE landed
      BY <2>2 DEF Steer, loop
    <3>2. Append(heard \o queue, g) = heard \o Append(queue, g)
      <4>1. queue \in Seq(Guidance) /\ heard \in Seq(Guidance)
        BY <1>0 DEF SteerInv
      <4> QED BY <4>1, QueueLast
    <3> QED BY <1>0, <3>1, <3>2 DEF Looping
  <2> QED BY <1>8, <2>1, <2>2
<1> QED BY <1>1, <1>2, <1>3, <1>4, <1>5, <1>6, <1>7, <1>8 DEF Next

\* Guidance that was queued before the last look at the queue reaches the model
\* once, in the order it came, in every turn that ends with an answer.
THEOREM GuidanceReachesModel == Spec => []GuidanceIsHeard
<1>1. Init => GuidanceIsHeard
  BY DEF Init, GuidanceIsHeard, Looping
<1> QED BY <1>1, StepHeard, TypesKept, PTL DEF Spec

-----------------------------------------------------------------------------
(* Rounds.                                                                 *)

\* The replies of a turn whose calls were carried out.
CarriedOut(t) == {r \in DOMAIN log : log[r].turn = t /\ log[r].told # <<>>}

\* The step counter is at least the number of batches of the turn, and a batch
\* is only begun below the limit and before the grace round.
StepInv ==
    /\ \A t \in 1 .. turns : Cardinality(CarriedOut(t)) <= MaxSteps
    /\ \A r \in DOMAIN log : log[r].turn <= turns
    /\ pc \in Looping \cup {"closing"} => Cardinality(CarriedOut(turns)) <= round.step
    /\ pc = "entering" => CarriedOut(turns) = {}
    /\ pc \in {"asking", "batch"} => round.step < MaxSteps \/ round.grace
    /\ pc = "batch" => ~round.grace /\ log[Len(log)].turn = turns

LEMMA CarriedOutFinite ==
    ASSUME BatchInv, NEW t
    PROVE  IsFiniteSet(CarriedOut(t)) /\ Cardinality(CarriedOut(t)) \in Nat
<1>1. DOMAIN log = 1 .. Len(log) /\ Len(log) \in Nat
  BY LenProperties DEF BatchInv
<1>2. IsFiniteSet(1 .. Len(log))
  BY <1>1, FS_Interval
<1>3. IsFiniteSet(CarriedOut(t))
  BY <1>1, <1>2, FS_Subset DEF CarriedOut
<1> QED BY <1>3, FS_CardinalityType

\* The rest of the loop carries nothing out and never takes a step back.
LEMMA OtherSteps ==
    ASSUME TypeInv, [Next]_vars, ~Begin, ~Enter, ~Ask, ~EndBatch,
           \A calls \in Batches : ~ReplyWithCalls(calls)
    PROVE  /\ UNCHANGED <<log, turns>>
           /\ \/ UNCHANGED <<pc, round>>
              \/ /\ pc \in Looping /\ pc' \in {"top", "closing"}
                 /\ round'.step >= round.step
              \/ pc' \in {"leaving", "idle"}
<1> USE DEF Return, NextRound, effects, loop, Looping
<1>0. round \in Rounds /\ round.step \in Nat /\ round.step <= MaxSteps
  BY Limits DEF TypeInv, RoundInv, Rounds
<1> DEFINE Goal == /\ UNCHANGED <<log, turns>>
                   /\ \/ UNCHANGED <<pc, round>>
                      \/ /\ pc \in Looping /\ pc' \in {"top", "closing"}
                         /\ round'.step >= round.step
                      \/ pc' \in {"leaving", "idle"}
<1>1. CASE RoundsSpent \/ RequestFails \/ Close \/ Leave
  BY <1>1 DEF RoundsSpent, RequestFails, Close, Leave
<1>2. CASE StreamBreaks
  <2> DEFINE r == [round EXCEPT !.recoveries = @ + 1]
  <2>1. pc = "asking" /\ UNCHANGED <<log, turns>>
        /\ (pc' = "leaving" \/ (pc' = "top" /\ round' = r))
    BY <1>2 DEF StreamBreaks
  <2>2. r.step = round.step
    BY <1>0 DEF Rounds
  <2> HIDE DEF r
  <2> QED BY <1>0, <2>1, <2>2
<1>3. ASSUME NEW r \in Rounds PROVE Stepped(r).step >= r.step
  BY <1>3, Limits DEF Stepped, Rounds
<1>4. CASE AnswerBlocked
  <2> DEFINE r == [Replied EXCEPT !.blocks = @ + 1]
  <2>1. pc = "asking" /\ UNCHANGED <<log, turns>>
        /\ (pc' = "leaving" \/ (pc' = "top" /\ round' = Stepped(r)))
    BY <1>4 DEF AnswerBlocked
  <2>2. r.step = round.step /\ Stepped(r).step >= r.step
    BY <1>0, Limits DEF Replied, Stepped, Rounds
  <2> HIDE DEF r
  <2> QED BY <2>1, <2>2
<1>5. CASE AnswerEmpty
  <2> DEFINE r == [Replied EXCEPT !.empties = @ + 1]
  <2>1. pc = "asking" /\ UNCHANGED <<log, turns>>
        /\ (pc' = "leaving" \/ (pc' = "top" /\ round' = Stepped(r)))
    BY <1>5 DEF AnswerEmpty
  <2>2. r.step = round.step /\ Stepped(r).step >= r.step
    BY <1>0, Limits DEF Replied, Stepped, Rounds
  <2> HIDE DEF r
  <2> QED BY <2>1, <2>2
<1>6. CASE AnswerDefers
  <2> DEFINE r == [Replied EXCEPT !.nudges = @ + 1]
  <2>1. pc = "asking" /\ UNCHANGED <<log, turns>> /\ pc' = "top" /\ round' = Stepped(r)
    BY <1>6 DEF AnswerDefers
  <2>2. r.step = round.step /\ Stepped(r).step >= r.step
    BY <1>0, Limits DEF Replied, Stepped, Rounds
  <2> HIDE DEF r
  <2> QED BY <2>1, <2>2
<1>7. CASE Answer
  <2>1. pc = "asking" /\ UNCHANGED <<log, turns>> /\ pc' \in {"top", "closing"}
        /\ (round' = Stepped(Replied) \/ round' = Replied)
    BY <1>7 DEF Answer
  <2>2. Replied.step = round.step /\ Stepped(Replied).step >= Replied.step
    BY <1>0, Limits DEF Replied, Stepped, Rounds
  <2> QED BY <1>0, <2>1, <2>2
<1>8. CASE NextSegment \/ SegmentDone \/ CallStep
  BY <1>8 DEF NextSegment, SegmentDone, CallStep, Launch, Refuse, Execute, Ends
<1>9. CASE Cancel \/ (\E g \in Guidance : SteerLooks(g) \/ Steer(g)) \/ UNCHANGED vars
  BY <1>9 DEF Cancel, SteerLooks, Steer, vars
<1> HIDE DEF Return, NextRound, effects, loop, Looping
<1> QED BY <1>1, <1>2, <1>4, <1>5, <1>6, <1>7, <1>8, <1>9 DEF Next, RunStep, CallStep

\* A finite set grows by at most one when one element is added.
LEMMA OneMoreElement ==
    ASSUME NEW S, IsFiniteSet(S), NEW x
    PROVE  /\ IsFiniteSet(S \cup {x})
           /\ Cardinality(S \cup {x}) \in Nat
           /\ Cardinality(S \cup {x}) <= Cardinality(S) + 1
<1>1. Cardinality(S) \in Nat
  BY FS_CardinalityType
<1>2. /\ IsFiniteSet(S \cup {x})
      /\ Cardinality(S \cup {x}) = IF x \in S THEN Cardinality(S) ELSE Cardinality(S) + 1
  BY FS_AddElement
<1>3. Cardinality(S \cup {x}) = Cardinality(S) \/ Cardinality(S \cup {x}) = Cardinality(S) + 1
  BY <1>2
<1> QED BY <1>1, <1>2, <1>3

LEMMA StepSteps == MaxSteps > 0 /\ TypeInv /\ StepInv /\ [Next]_vars => StepInv'
<1> SUFFICES ASSUME MaxSteps > 0, TypeInv, StepInv, [Next]_vars PROVE StepInv'
  OBVIOUS
<1>0. /\ turns \in Nat /\ MaxSteps \in Nat /\ round \in Rounds
      /\ round.step \in Nat /\ round.step <= MaxSteps /\ round.grace \in BOOLEAN
      /\ log \in Seq(Entries) /\ DOMAIN log = 1 .. Len(log) /\ Len(log) \in Nat
      /\ \A t : Cardinality(CarriedOut(t)) \in Nat /\ IsFiniteSet(CarriedOut(t))
  BY Limits, LenProperties, CarriedOutFinite DEF TypeInv, PlaceInv, RoundInv, Rounds, BatchInv
<1>1. ASSUME log' = log PROVE \A t : CarriedOut(t)' = CarriedOut(t)
  BY <1>1 DEF CarriedOut
<1>2. CASE Begin
  <2>1. log' = log /\ turns' = turns + 1 /\ pc' = "entering"
    BY <1>2 DEF Begin, effects
  <2>2. CarriedOut(turns + 1) = {}
    BY <1>0 DEF StepInv, CarriedOut
  <2>3. Cardinality(CarriedOut(turns + 1)) = 0
    BY <2>2, FS_EmptySet
  <2>4. /\ CarriedOut(turns)' = {}
        /\ \A t \in 1 .. turns' : Cardinality(CarriedOut(t)') <= MaxSteps
    BY <1>0, <1>1, <2>1, <2>2, <2>3 DEF StepInv
  <2>5. \A r \in DOMAIN log' : log'[r].turn <= turns'
    <3> SUFFICES ASSUME NEW r \in 1 .. Len(log) PROVE log[r].turn <= turns + 1
      BY <1>0, <2>1
    <3>1. log[r] \in Entries
      BY <1>0, ElementOfSeq
    <3>2. log[r].turn \in 1 .. MaxTurns
      BY <3>1 DEF Entries
    <3>3. log[r].turn <= turns
      BY <1>0 DEF StepInv
    <3> QED BY <1>0, <3>2, <3>3, Limits
  <2> QED BY <2>1, <2>4, <2>5 DEF StepInv, Looping
<1>3. CASE Enter
  <2>1. log' = log /\ turns' = turns /\ pc = "entering" /\ pc' = "top" /\ round'.step = 0
    BY <1>3 DEF Enter, Fresh
  <2>2. Cardinality(CarriedOut(turns)) = 0
    BY <2>1, FS_EmptySet DEF StepInv
  <2> QED BY <1>0, <1>1, <2>1, <2>2 DEF StepInv, Looping
<1>4. CASE Ask
  <2>1. log' = log /\ turns' = turns /\ pc = "top" /\ pc' = "asking" /\ round' = round
        /\ (round.step < MaxSteps \/ round.grace)
    BY <1>0, <1>4 DEF Ask, AnotherRound, effects
  <2> QED BY <1>0, <1>1, <2>1 DEF StepInv, Looping
<1>5. ASSUME NEW calls \in Batches, ReplyWithCalls(calls) PROVE StepInv'
  <2> DEFINE e == [turn |-> turns, calls |-> calls, told |-> <<>>]
  <2>1. /\ pc = "asking" /\ turns' = turns /\ log' = Append(log, e)
        /\ pc' = "leaving" \/ (pc' = "batch" /\ ~round.grace)
        /\ round' = [Replied EXCEPT !.empties = 0, !.used = TRUE]
    BY <1>5 DEF ReplyWithCalls, Return
  <2>2. round'.step = round.step /\ round'.grace = round.grace
    BY <1>0, <2>1 DEF Replied, Rounds
  <2>3. e.turn = turns /\ e.told = <<>>
    OBVIOUS
  <2>4. log' = Append(log, e)
    BY <2>1
  <2> HIDE DEF e
  <2>5. /\ Len(log') = Len(log) + 1 /\ DOMAIN log' = 1 .. Len(log) + 1
        /\ log'[Len(log) + 1] = e /\ \A r \in 1 .. Len(log) : log'[r] = log[r]
    BY <1>0, <2>4
  <2>6. \A t : CarriedOut(t)' = CarriedOut(t)
    BY <1>0, <2>3, <2>5 DEF CarriedOut
  <2> QED BY <1>0, <2>1, <2>2, <2>3, <2>5, <2>6 DEF StepInv, Looping
<1>6. CASE EndBatch
  <2>1. /\ pc = "batch" /\ turns' = turns /\ log # <<>> /\ ~round.grace
        /\ log[Len(log)].turn = turns /\ log[Len(log)].told = <<>>
        /\ round.step < MaxSteps /\ Cardinality(CarriedOut(turns)) <= round.step
    BY <1>6 DEF EndBatch, TypeInv, BatchInv, StepInv, Looping
  <2>2. Len(log) \in 1 .. Len(log)
    BY <1>0, <2>1, EmptySeq
  <2>3. log' = [log EXCEPT ![Len(log)].told = Told]
    BY <1>6 DEF EndBatch
  <2>4. /\ DOMAIN log' = DOMAIN log /\ log'[Len(log)].turn = turns
        /\ \A r \in DOMAIN log : r # Len(log) => log'[r] = log[r]
        /\ log'[Len(log)] = [log[Len(log)] EXCEPT !.told = Told]
    <3>1. log[Len(log)] \in Entries
      BY <1>0, <2>2, ElementOfSeq
    <3> QED BY <1>0, <2>1, <2>2, <2>3, <3>1 DEF Entries
  <2>5. \A t : t # turns => CarriedOut(t)' = CarriedOut(t)
    BY <2>1, <2>4 DEF CarriedOut
  <2>6. CarriedOut(turns)' \subseteq CarriedOut(turns) \cup {Len(log)}
    BY <2>1, <2>4 DEF CarriedOut
  <2>7. Cardinality(CarriedOut(turns)') <= Cardinality(CarriedOut(turns)) + 1
    <3>1. /\ IsFiniteSet(CarriedOut(turns) \cup {Len(log)})
          /\ Cardinality(CarriedOut(turns) \cup {Len(log)}) \in Nat
          /\ Cardinality(CarriedOut(turns) \cup {Len(log)}) <= Cardinality(CarriedOut(turns)) + 1
      BY <1>0, OneMoreElement
    <3>2. Cardinality(CarriedOut(turns)') <= Cardinality(CarriedOut(turns) \cup {Len(log)})
          /\ Cardinality(CarriedOut(turns)') \in Nat
      BY <2>6, <3>1, FS_Subset, FS_CardinalityType
    <3> QED BY <1>0, <3>1, <3>2
  <2>8. Cardinality(CarriedOut(turns)') \in Nat
    BY <1>0, <2>6, OneMoreElement, FS_Subset, FS_CardinalityType
  <2>9. pc' = "leaving" \/ (pc' = "top" /\ round'.step = round.step + 1)
    <3> DEFINE r == [round EXCEPT !.grace = @ \/ (MaxSteps > 0 /\ round.step + 1 >= MaxSteps)]
    <3>1. r.step = round.step /\ Stepped(r).step = round.step + 1
      BY <1>0, <2>1 DEF Stepped, Rounds
    <3>2. pc' = "leaving" \/ (pc' = "top" /\ round' = Stepped(r))
      BY <1>6 DEF EndBatch, Return, NextRound
    <3> HIDE DEF r
    <3> QED BY <3>1, <3>2
  <2>10. \A t \in 1 .. turns' : Cardinality(CarriedOut(t)') <= MaxSteps
    <3> SUFFICES ASSUME NEW t \in 1 .. turns PROVE Cardinality(CarriedOut(t)') <= MaxSteps
      BY <2>1
    <3>1. CASE t = turns
      BY <1>0, <2>1, <2>7, <2>8, <3>1
    <3>2. CASE t # turns
      BY <2>5, <3>2 DEF StepInv
    <3> QED BY <3>1, <3>2
  <2>11. \A r \in DOMAIN log' : log'[r].turn <= turns'
    BY <1>0, <2>1, <2>4 DEF StepInv
  <2>12. pc' = "top" => Cardinality(CarriedOut(turns)') <= round'.step
    BY <1>0, <2>1, <2>7, <2>8, <2>9
  <2> QED BY <2>9, <2>10, <2>11, <2>12 DEF StepInv, Looping
<1>7. CASE ~Begin /\ ~Enter /\ ~Ask /\ ~EndBatch /\ \A calls \in Batches : ~ReplyWithCalls(calls)
  <2>1. /\ UNCHANGED <<log, turns>>
        /\ \/ UNCHANGED <<pc, round>>
           \/ /\ pc \in Looping /\ pc' \in {"top", "closing"}
              /\ round'.step >= round.step
           \/ pc' \in {"leaving", "idle"}
    BY <1>7, OtherSteps
  <2>2. round'.step \in Nat
    BY StepRound, Limits DEF RoundInv, Rounds
  <2> QED BY <1>0, <1>1, <2>1, <2>2 DEF StepInv, Looping
<1> QED BY <1>2, <1>3, <1>4, <1>5, <1>6, <1>7

\* In no turn are the calls of more than MaxSteps replies carried out, whatever
\* is retried, sent back or granted after the last step.
THEOREM RoundsAreBounded == Spec => []RoundsBounded
<1>1. CASE MaxSteps > 0
  <2>1. Init => StepInv
    BY FS_EmptySet, Limits DEF Init, StepInv, Looping, CarriedOut
  <2>2. StepInv => RoundsBounded
    BY DEF StepInv, RoundsBounded, CarriedOut
  <2> QED BY <1>1, <2>1, <2>2, StepSteps, TypesKept, PTL DEF Spec
<1>2. CASE ~(MaxSteps > 0)
  <2>1. RoundsBounded
    BY <1>2 DEF RoundsBounded
  <2> QED BY <2>1, PTL
<1> QED BY <1>1, <1>2

=============================================================================
