------------------------------ MODULE AgentLoop ------------------------------
(***************************************************************************)
(* One turn of the agent: Agent.Run of internal/agent/agent.go with the    *)
(* batches of tool calls it executes, the ledger of what they did, the     *)
(* guidance users queue while it runs, and the controller around it that   *)
(* starts a turn, cancels it and routes guidance to it.                    *)
(*                                                                         *)
(* A round is one request to the model and what the loop does with the     *)
(* reply.  The calls of a reply run in the order of the provider, except   *)
(* that neighbouring read-only calls run together.  Users cancel and send  *)
(* guidance from their own goroutines at any step.                         *)
(***************************************************************************)
EXTENDS Naturals, Sequences, FiniteSets

CONSTANTS Batches,       \* the lists of calls a reply may hold
          Guidance,      \* what users send while a turn runs
          MaxSteps,      \* Agent.maxSteps, 0 for no limit
          MaxBlocks,     \* maxFinalReadinessBlocks
          MaxEmpties,    \* maxEmptyFinalBlocks
          MaxRecoveries, \* maxStreamRecoveries
          MaxNudges,     \* maxExecutorHandoffNudges, 0 without a planner
          MaxParallel,   \* maxParallel of runParallel
          MaxTurns       \* bound on the turns

Calls == {"read", "edit", "check", "signoff"}

ASSUME AgentLoopAssumption ==
    /\ Batches \subseteq Seq(Calls) \ {<<>>}
    /\ {MaxSteps, MaxRecoveries, MaxNudges, MaxTurns} \subseteq Nat
    /\ {MaxBlocks, MaxEmpties, MaxParallel} \subseteq Nat \ {0}

VARIABLES pc,        \* where the goroutine of the turn is
          cancelled, \* the context of the turn is done
          round,     \* the counters of the loop
          batch,     \* how far each call of the reply in hand has come
          segment,   \* the run of calls in hand, and where the batch was cut off
          ledger,    \* the receipts of this turn, in the order they came
          log,       \* the replies with calls in the transcript, and their results
          queue,     \* steerQueue
          held,      \* guidance of a user who saw the turn running, not queued yet
          unsent,    \* guidance nobody has sent yet
          heard,     \* the guidance this turn has put into the transcript
          landed,    \* history: the guidance queued before the last look of this turn
          outcome,   \* how the last turn ended
          turns      \* the turns begun

vars == <<pc, cancelled, round, batch, segment, ledger, log, queue, held, unsent,
          heard, landed, outcome, turns>>

loop    == <<round, heard>>
steers  == <<queue, held, unsent, landed>>
effects == <<batch, segment, ledger, log>>

Outcomes == {"none", "answered", "paused", "failed", "cancelled"}
Results  == {"ok", "failed", "blocked"}
Looping  == {"top", "asking", "batch"}

Fresh == [step |-> 0, grace |-> FALSE, blocks |-> 0, empties |-> 0,
          recoveries |-> 0, nudges |-> 0, used |-> FALSE]

\* The step counter matters only below the limit.
Stepped(r) == [r EXCEPT !.step = IF @ < MaxSteps THEN @ + 1 ELSE @]

(***************************************************************************)
(* The ledger, and what the loop reads from it.                            *)
(***************************************************************************)

Did(call, k) == ledger[k].call = call /\ ledger[k].ok

\* LatestSuccessfulWriterIndex, and what has to follow it.
LastEdit(k) == /\ Did("edit", k)
               /\ \A j \in k + 1 .. Len(ledger) : ~Did("edit", j)
NotSince(call) ==
    \E k \in DOMAIN ledger :
        LastEdit(k) /\ \A j \in k + 1 .. Len(ledger) : ~Did(call, j)

\* finalReadinessCheck, with one project check configured.
Unready == NotSince("check")

\* staleAnchorEditBlock: one file, read whole.
NeedsRead(call) == call = "edit" /\ NotSince("read")

\* The transcript holds a result of the call that says it failed
\* (failedCallIDs).
KnownToFail(r, i) ==
    i \in DOMAIN log[r].told /\ log[r].told[i] \in {"failed", "blocked"}

\* complete_step with a verification that cites the check (verifyStepEvidence,
\* verifyCommandFromSession).
Proven ==
    \/ \E k \in DOMAIN ledger : Did("check", k)
    \/ \E r \in DOMAIN log : \E i \in DOMAIN log[r].calls :
          log[r].calls[i] = "check" /\ ~KnownToFail(r, i)

(***************************************************************************)
(* The calls of the reply in hand.                                         *)
(***************************************************************************)

Asked     == log[Len(log)].calls
Serial(i) == Asked[i] # "read"
Untouched(i) == batch[i] = "waiting"
InFlight(i)  == batch[i] = "running"
Settled(i)   == batch[i] \in Results

\* i and j are in one run of parallelisable calls.
Together(i, j) == \A k \in i .. j : ~Serial(k)

\* The segment in hand is from .. to - 1, ran is the first call of it that was
\* not launched (ranUntil), and cut, unless 0, the first call that was marked
\* as cancelled.  Between two segments from, ran and to are the same.
FirstSegment == [from |-> 1, to |-> 1, ran |-> 1, cut |-> 0]
Open   == segment.from < segment.to
Whole  == segment.cut = 0
AllRun == segment.from > Len(batch)

\* partitionToolCalls: a run of parallelisable calls as long as it goes, or one
\* other call.
IsSegment(from, to) ==
    IF Serial(from) THEN to = from + 1
    ELSE /\ Together(from, to - 1)
         /\ to <= Len(batch) => Serial(to)

\* The calls from the cut on get the text of markCancelled as their result.
Told == [i \in DOMAIN batch |->
            IF ~Whole /\ i >= segment.cut THEN "cancelled" ELSE batch[i]]

(***************************************************************************)
(* The controller: it starts a turn, ends it, and lets users in.           *)
(***************************************************************************)

Init ==
    /\ pc = "idle"
    /\ cancelled = FALSE
    /\ round = Fresh
    /\ batch = <<>>
    /\ segment = FirstSegment
    /\ ledger = <<>>
    /\ log = <<>>
    /\ queue = <<>>
    /\ held = {}
    /\ unsent = Guidance
    /\ heard = <<>>
    /\ landed = <<>>
    /\ outcome = "none"
    /\ turns = 0

\* runGuarded.
Begin ==
    /\ pc = "idle" /\ turns < MaxTurns
    /\ pc' = "entering"
    /\ turns' = turns + 1
    /\ cancelled' = FALSE
    /\ outcome' = "none"
    /\ UNCHANGED <<loop, steers, effects>>

\* The body of runGuarded has returned; only now the turn is not running.
Leave ==
    /\ pc = "leaving"
    /\ pc' = "idle"
    /\ UNCHANGED <<cancelled, loop, steers, effects, outcome, turns>>

Cancel ==
    /\ pc # "idle" /\ ~cancelled
    /\ cancelled' = TRUE
    /\ UNCHANGED <<pc, loop, steers, effects, outcome, turns>>

\* Controller.Steer reads running and the executor under its lock ...
SteerLooks(g) ==
    /\ g \in unsent /\ pc # "idle"
    /\ unsent' = unsent \ {g}
    /\ held' = held \cup {g}
    /\ UNCHANGED <<pc, cancelled, loop, effects, queue, landed, outcome, turns>>

\* ... and queues the guidance after it has let the lock go.
Steer(g) ==
    /\ g \in held
    /\ held' = held \ {g}
    /\ queue' = Append(queue, g)
    /\ landed' = IF pc \in Looping THEN Append(landed, g) ELSE landed
    /\ UNCHANGED <<pc, cancelled, loop, effects, unsent, outcome, turns>>

(***************************************************************************)
(* Agent.Run: the rounds.                                                  *)
(***************************************************************************)

Enter ==
    /\ pc = "entering"
    /\ pc' = "top"
    /\ round' = Fresh
    /\ ledger' = <<>>
    /\ heard' = <<>>
    /\ landed' = queue
    /\ UNCHANGED <<cancelled, batch, segment, log, queue, held, unsent, outcome, turns>>

\* Every return of Run clears the queue.
Return(how) ==
    /\ pc' = "leaving"
    /\ outcome' = how
    /\ queue' = <<>>
    /\ UNCHANGED <<held, unsent, landed>>

\* The next round, after the step counter went up.
NextRound(r) ==
    /\ pc' = "top"
    /\ round' = Stepped(r)
    /\ UNCHANGED <<steers, outcome>>

AnotherRound == MaxSteps = 0 \/ round.step < MaxSteps \/ round.grace

\* The head of a round: at most one piece of guidance goes to the model.
Ask ==
    /\ pc = "top" /\ AnotherRound
    /\ pc' = "asking"
    /\ IF queue = <<>>
       THEN UNCHANGED <<queue, heard>>
       ELSE heard' = Append(heard, Head(queue)) /\ queue' = Tail(queue)
    /\ UNCHANGED <<cancelled, round, effects, held, unsent, landed, outcome, turns>>

RoundsSpent ==
    /\ pc = "top" /\ ~AnotherRound
    /\ Return("paused")
    /\ UNCHANGED <<cancelled, loop, effects, turns>>

\* The request fails, or its context is done.
RequestFails ==
    /\ pc = "asking"
    /\ Return(IF cancelled THEN "cancelled" ELSE "failed")
    /\ UNCHANGED <<cancelled, loop, effects, turns>>

\* Mutant: recoveries are not counted.
StreamBreaksForEver ==
    /\ pc = "asking"
    /\ pc' = "top"
    /\ UNCHANGED <<cancelled, loop, steers, effects, outcome, turns>>

\* The stream breaks off: the loop asks again without spending a step.
StreamBreaks ==
    /\ pc = "asking"
    /\ IF round.recoveries < MaxRecoveries
       THEN /\ pc' = "top"
            /\ round' = [round EXCEPT !.recoveries = @ + 1]
            /\ UNCHANGED <<steers, outcome>>
       ELSE Return("failed") /\ UNCHANGED round
    /\ UNCHANGED <<cancelled, heard, effects, turns>>

\* A whole reply ends a run of recoveries.
Replied == [round EXCEPT !.recoveries = 0]

\* Mutant: the calls of the grace round are carried out.
ReplyInGrace(calls) ==
    /\ pc = "asking" /\ ~cancelled
    /\ log' = Append(log, [turn |-> turns, calls |-> calls, told |-> <<>>])
    /\ round' = [Replied EXCEPT !.empties = 0, !.used = TRUE]
    /\ pc' = "batch"
    /\ batch' = [i \in DOMAIN calls |-> "waiting"]
    /\ segment' = FirstSegment
    /\ UNCHANGED <<cancelled, heard, ledger, steers, outcome, turns>>

ReplyWithCalls(calls) ==
    /\ pc = "asking" /\ ~cancelled
    /\ log' = Append(log, [turn |-> turns, calls |-> calls, told |-> <<>>])
    /\ round' = [Replied EXCEPT !.empties = 0, !.used = TRUE]
    /\ segment' = FirstSegment
    /\ IF round.grace
       THEN Return("paused") /\ batch' = <<>>
       ELSE /\ pc' = "batch"
            /\ batch' = [i \in DOMAIN calls |-> "waiting"]
            /\ UNCHANGED <<steers, outcome>>
    /\ UNCHANGED <<cancelled, heard, ledger, turns>>

\* A reply without calls while the project check is owed.
AnswerBlocked ==
    /\ pc = "asking" /\ ~cancelled
    /\ Unready
    /\ LET r == [Replied EXCEPT !.blocks = @ + 1] IN
          IF r.blocks >= MaxBlocks THEN Return("failed") /\ round' = r
                                   ELSE NextRound(r)
    /\ UNCHANGED <<cancelled, heard, effects, turns>>

\* A reply with nothing to see.
AnswerEmpty ==
    /\ pc = "asking" /\ ~cancelled
    /\ ~Unready
    /\ LET r == [Replied EXCEPT !.empties = @ + 1] IN
          IF r.empties >= MaxEmpties THEN Return("failed") /\ round' = r
                                     ELSE NextRound(r)
    /\ UNCHANGED <<cancelled, heard, effects, turns>>

\* An executor that was handed a plan talks instead of acting.
AnswerDefers ==
    /\ pc = "asking" /\ ~cancelled
    /\ ~Unready
    /\ ~round.used /\ round.nudges < MaxNudges
    /\ NextRound([Replied EXCEPT !.nudges = @ + 1])
    /\ UNCHANGED <<cancelled, heard, effects, turns>>

\* Mutant: the last look at the queue is left out.
AnswerDeaf ==
    /\ pc = "asking" /\ ~cancelled
    /\ ~Unready
    /\ pc' = "closing"
    /\ round' = Replied
    /\ UNCHANGED <<cancelled, heard, effects, steers, outcome, turns>>

\* A final answer, unless guidance is waiting: the last look at the queue.
Answer ==
    /\ pc = "asking" /\ ~cancelled
    /\ ~Unready
    /\ IF queue # <<>>
       THEN NextRound(Replied)
       ELSE /\ pc' = "closing"
            /\ round' = Replied
            /\ UNCHANGED <<steers, outcome>>
    /\ UNCHANGED <<cancelled, heard, effects, turns>>

\* The compaction between the last look and the return.
Close ==
    /\ pc = "closing"
    /\ Return("answered")
    /\ UNCHANGED <<cancelled, loop, effects, turns>>

(***************************************************************************)
(* Agent.executeBatch.                                                     *)
(***************************************************************************)

\* The head of the loop over the segments.
NextSegment ==
    /\ pc = "batch" /\ Whole /\ ~Open /\ ~AllRun
    /\ IF cancelled
       THEN segment' = [segment EXCEPT !.cut = segment.from]
       ELSE \E to \in segment.from + 1 .. Len(batch) + 1 :
               /\ IsSegment(segment.from, to)
               /\ segment' = [segment EXCEPT !.to = to]
    /\ UNCHANGED <<pc, cancelled, loop, steers, batch, ledger, log, outcome, turns>>

\* The next call of the segment, when runParallel has a slot for it.
Launch(i) ==
    /\ pc = "batch" /\ ~cancelled /\ Whole
    /\ i \in DOMAIN batch /\ i = segment.ran /\ i < segment.to
    /\ Cardinality({j \in DOMAIN batch : InFlight(j)}) < MaxParallel
    /\ batch' = [batch EXCEPT ![i] = "running"]
    /\ segment' = [segment EXCEPT !.ran = i + 1]
    /\ UNCHANGED <<pc, cancelled, loop, steers, ledger, log, outcome, turns>>

\* Mutant: runParallel does not wait for the calls it launched.
SegmentNotAwaited ==
    /\ pc = "batch" /\ Whole /\ Open
    /\ cancelled \/ segment.ran = segment.to
    /\ segment' = IF cancelled THEN [segment EXCEPT !.cut = segment.ran]
                               ELSE [segment EXCEPT !.from = segment.to]
    /\ UNCHANGED <<pc, cancelled, loop, steers, batch, ledger, log, outcome, turns>>

\* Mutant: a cancelled segment is marked from its start, not from ranUntil.
SegmentForgotten ==
    /\ pc = "batch" /\ Whole /\ Open
    /\ \A i \in DOMAIN batch : ~InFlight(i)
    /\ cancelled \/ segment.ran = segment.to
    /\ segment' = IF cancelled THEN [segment EXCEPT !.cut = segment.from]
                               ELSE [segment EXCEPT !.from = segment.to]
    /\ UNCHANGED <<pc, cancelled, loop, steers, batch, ledger, log, outcome, turns>>

\* The wait for the calls that were launched, and the look at the context
\* after it.
SegmentDone ==
    /\ pc = "batch" /\ Whole /\ Open
    /\ \A i \in DOMAIN batch : ~InFlight(i)
    /\ cancelled \/ segment.ran = segment.to
    /\ segment' = IF cancelled THEN [segment EXCEPT !.cut = segment.ran]
                               ELSE [segment EXCEPT !.from = segment.to]
    /\ UNCHANGED <<pc, cancelled, loop, steers, batch, ledger, log, outcome, turns>>

Ends(i, result) ==
    /\ pc = "batch"
    /\ i \in DOMAIN batch /\ InFlight(i)
    /\ batch' = [batch EXCEPT ![i] = result]
    /\ UNCHANGED <<pc, cancelled, loop, steers, segment, log, outcome, turns>>

\* executeOne: an edit of a file changed since it was last read is refused;
\* plan mode, the permission gate or a hook may refuse any call.
Refuse(i) == Ends(i, "blocked") /\ UNCHANGED ledger

\* The tool runs and its receipt is recorded.
Execute(i, ok) ==
    /\ Ends(i, IF ok THEN "ok" ELSE "failed")
    /\ ~NeedsRead(Asked[i])
    /\ ok /\ Asked[i] = "signoff" => Proven
    /\ ledger' = Append(ledger, [call |-> Asked[i], ok |-> ok])

\* The results are stored, and the loop looks at the context itself: a turn
\* cancelled after the last call of a batch ends too.
EndBatch ==
    /\ pc = "batch"
    /\ ~Whole \/ (~Open /\ AllRun)
    /\ log' = [log EXCEPT ![Len(log)].told = Told]
    /\ IF cancelled
       THEN Return("cancelled") /\ UNCHANGED round
       ELSE NextRound([round EXCEPT
                 !.grace = @ \/ (MaxSteps > 0 /\ round.step + 1 >= MaxSteps)])
    /\ UNCHANGED <<cancelled, heard, batch, segment, ledger, turns>>

RunStep ==
    \/ Enter
    \/ Ask
    \/ RoundsSpent
    \/ RequestFails
    \/ StreamBreaks
    \/ \E calls \in Batches : ReplyWithCalls(calls)
    \/ AnswerBlocked
    \/ AnswerEmpty
    \/ AnswerDefers
    \/ Answer
    \/ Close
    \/ NextSegment
    \/ SegmentDone
    \/ \E i \in DOMAIN batch :
          \/ Launch(i)
          \/ Refuse(i)
          \/ \E ok \in BOOLEAN : Execute(i, ok)
    \/ EndBatch
    \/ Leave

Next ==
    \/ Begin
    \/ RunStep
    \/ Cancel
    \/ \E g \in Guidance : SteerLooks(g) \/ Steer(g)

\* The goroutine of a turn is scheduled, a request comes back and a tool
\* returns; nobody has to send guidance or to cancel.
Fairness == WF_vars(RunStep)

Spec == Init /\ [][Next]_vars /\ Fairness

(***************************************************************************)
(* Properties.                                                             *)
(***************************************************************************)

TypeOK ==
    /\ pc \in {"idle", "entering", "top", "asking", "batch", "closing", "leaving"}
    /\ cancelled \in BOOLEAN
    /\ round \in [step : 0 .. MaxSteps, grace : BOOLEAN, blocks : 0 .. MaxBlocks,
                  empties : 0 .. MaxEmpties, recoveries : 0 .. MaxRecoveries,
                  nudges : 0 .. MaxNudges, used : BOOLEAN]
    /\ batch \in Seq(Results \cup {"waiting", "running"})
    /\ segment \in [from : Nat, to : Nat, ran : Nat, cut : Nat]
    /\ ledger \in Seq([call : Calls, ok : BOOLEAN])
    /\ log \in Seq([turn : 1 .. MaxTurns, calls : Batches, 
                   told : Seq(Results \cup {"cancelled"})])
    /\ {queue, heard, landed} \subseteq Seq(Guidance)
    /\ held \subseteq Guidance /\ unsent \subseteq Guidance
    /\ outcome \in Outcomes
    /\ turns \in 0 .. MaxTurns

\* The calls of a reply take effect in the order of the provider wherever the
\* order can matter: when a call has been started, each earlier call has come
\* to its end, unless both are in one run of read-only calls.  Only the cutting
\* into segments and the wait at the end of each keep it (partitionToolCalls,
\* runParallel).
ProviderOrder ==
    pc = "batch" =>
        \A j \in DOMAIN batch : \A i \in 1 .. j - 1 :
            ~Untouched(j) => Settled(i) \/ (InFlight(i) /\ Together(i, j))

\* The transcript tells the model the truth about what ran, whenever users
\* cancel: a call of the last batch is reported as cancelled before execution
\* if and only if it was never started, and every call has its result
\* (executeBatch's markCancelled over serial and parallel segments).
ToldWhatRan ==
    (log # <<>> /\ log[Len(log)].told # <<>>) =>
        LET told == log[Len(log)].told IN
        /\ Len(told) = Len(Asked)
        /\ \A i \in DOMAIN told : told[i] = "cancelled" <=> Untouched(i)

\* The guidance that was queued before the loop last looked reaches the model
\* once and in the order it came, and no turn ends with an answer given in
\* ignorance of it (consumeSteer, steerQueueLen, clearSteerQueue).
GuidanceIsHeard ==
    /\ pc \in Looping => landed = heard \o queue
    /\ pc = "closing" \/ outcome = "answered" => landed = heard

\* The user always gets the prompt back: with a limit on the rounds a turn
\* ends whatever the model replies, through retries that cost no step, blocked
\* and empty answers, the grace round and guidance sent meanwhile.
TurnEnds == (pc # "idle") ~> (pc = "idle")

\* What the limit promises: in no turn are the calls of more than MaxSteps
\* replies carried out.  Retries that take back a step, answers sent back and
\* the grace round after the last step do not add to it.
RoundsBounded ==
    MaxSteps > 0 =>
        \A t \in 1 .. turns :
            Cardinality({r \in DOMAIN log : log[r].turn = t /\ log[r].told # <<>>})
                <= MaxSteps

\* A step is signed off on proof: when complete_step accepts a verification,
\* the command it cites had succeeded, in this turn or an earlier one
\* (verifyStepEvidence, verifyCommandFromSession).
SignOffIsProven ==
    \A k \in DOMAIN ledger :
        Did("signoff", k) =>
            \/ \E j \in 1 .. k - 1 : Did("check", j)
            \/ \E r \in DOMAIN log : \E i \in DOMAIN log[r].told :
                  log[r].calls[i] = "check" /\ log[r].told[i] = "ok"

=============================================================================
