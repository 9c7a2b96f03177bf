-------------------------------- MODULE Goals --------------------------------
(***************************************************************************)
(* The goal loop of the controller: the goal machine of                    *)
(* internal/control/goal.go, the foreground turn that drives it            *)
(* (turn_orchestrator.go, Controller.runGuarded), the commands frontends   *)
(* give while it runs, and the goal-state file that outlives the process.  *)
(*                                                                         *)
(* One goroutine runs the turn, one per frontend runs the commands.  The   *)
(* machine changes under its own lock, which also builds the bytes to      *)
(* persist; the bytes are written after the lock is released, so every     *)
(* goroutine has at most one write under way and another goroutine may act *)
(* between the two.                                                        *)
(***************************************************************************)
EXTENDS Naturals, Sequences

CONSTANTS Frontends,     \* goroutines that give commands
          Goals,         \* goal texts
          Reasons,       \* normalised reasons of [goal:blocked:...]
          Sessions,      \* sessions a controller can be switched to
          Todos,         \* BOOLEAN, or {FALSE} where nobody keeps a todo list
          MaxAutoTurns,  \* maxGoalAutoTurns
          MaxIdleTurns,  \* maxGoalIdleTurns
          MaxCommands,   \* bound on the commands of all frontends
          MaxRestarts    \* bound on the crashes of the process

ASSUME GoalsAssumption ==
    /\ MaxAutoTurns \in Nat \ {0}
    /\ MaxIdleTurns \in Nat \ {0}
    /\ MaxCommands \in Nat
    /\ MaxRestarts \in Nat
    /\ Todos \subseteq BOOLEAN

VARIABLES machine,   \* the fields of goalMachine
          path,      \* the session whose goal-state file statePath names
          file,      \* the goal-state file of each session, NoState if none
          open,      \* some canonical todo, or a project check, is not done
          pc,        \* where the turn goroutine is
          canceled,  \* the context of the running turn is done
          reply,     \* the last answer of the model in the transcript
          commands,  \* what each frontend's goroutine still has to do
          writing,   \* the bytes each goroutine has built and not yet written
          left,      \* commands and restarts still allowed
          sent,      \* history: what the model was told and said of the goal,
                     \* and that the todos are as the end of the goal left them
          raced      \* history: two writes were under way at once, or the session changed

core == <<machine, path, file, open, pc, canceled, reply, commands, writing,
          left, sent>>
vars == <<core, raced>>

NoGoal  == "no goal"
NoState == [status |-> "none"]
Turn    == "turn goroutine"
Threads == Frontends \cup {Turn}

ASSUME TurnIsNoFrontend == Turn \notin Frontends

(***************************************************************************)
(* The goal machine.                                                       *)
(***************************************************************************)

Reset(goal, status) ==
    [goal |-> goal, status |-> status, turns |-> 0, blocks |-> 0,
     block |-> "none", intercept |-> "none", intercepts |-> 0, strict |-> FALSE,
     checked |-> FALSE, idle |-> 0]

Active(m) == m.goal # NoGoal /\ m.status = "running"

\* goalMachine.set: a goal that is running already is left alone.
Unchanged(m, goal) == goal # NoGoal /\ m.goal = goal /\ m.status = "running"
SetTo(goal) == Reset(goal, IF goal = NoGoal THEN "stopped" ELSE "running")

\* goalMachine.stop.
Stopped(m, status) ==
    [m EXCEPT !.status = IF Active(m) THEN status ELSE @,
              !.intercept = "none", !.intercepts = 0, !.checked = FALSE, !.idle = 0]

\* What buildStateLocked marshals.
Image(m, todos) ==
    [goal |-> m.goal, status |-> m.status, turns |-> m.turns,
     blocks |-> m.blocks, block |-> m.block, strict |-> m.strict,
     open |-> todos]

\* restoreRunningFromState: only a running goal is taken from the file.
Restored(m, image) ==
    IF image.status = "running" /\ image.goal # NoGoal
    THEN [Reset(image.goal, "running") EXCEPT !.turns = image.turns,
             !.blocks = image.blocks, !.block = image.block,
             !.strict = image.strict]
    ELSE m

\* Mutant: a strict goal is complete at its second claim.
ClaimedOnce(m, undone) ==
    IF undone /\ m.intercepts = 0
    THEN [m EXCEPT !.intercepts = @ + 1, !.intercept = "todos"]
    ELSE [Reset(NoGoal, "complete") EXCEPT !.turns = m.turns, !.strict = m.strict]

\* The switch of advance over the marker that ends the model's answer.
Claimed(m, undone) ==
    IF undone /\ (m.strict \/ m.intercepts = 0)
    THEN [m EXCEPT !.intercepts = @ + 1, !.intercept = "todos"]
    ELSE IF m.strict /\ ~m.checked
    THEN [m EXCEPT !.checked = TRUE, !.intercept = "check"]
    ELSE [Reset(NoGoal, "complete") EXCEPT !.turns = m.turns, !.strict = m.strict]

Blocked(m, reason) ==
    LET counted == [m EXCEPT !.blocks = IF m.block = reason THEN @ + 1 ELSE 1,
                             !.block = reason]
    IN  IF counted.blocks >= 3 THEN [counted EXCEPT !.status = "blocked"]
                               ELSE counted

Continued(m) ==
    [m EXCEPT !.blocks = 0, !.block = "none", !.intercepts = 0,
              !.checked = FALSE, !.idle = 0]

Judged(m, answer, undone) ==
    CASE answer.mark = "complete" -> Claimed(m, undone)
      [] answer.mark = "blocked"  -> Blocked(m, answer.reason)
      [] OTHER                    -> Continued(m)

\* The idle reminder that follows the switch.
Nudged(m, toolCalled) ==
    IF m.status # "running" \/ m.intercept # "none" THEN m
    ELSE IF toolCalled THEN [m EXCEPT !.idle = 0]
    ELSE IF m.idle + 1 >= MaxIdleTurns
    THEN [m EXCEPT !.idle = 0, !.intercept = "idle"]
    ELSE [m EXCEPT !.idle = @ + 1]

\* Mutant: the limit is reached one turn late.
LimitedLate(m) ==
    IF m.status = "running" /\ m.turns > MaxAutoTurns
    THEN [m EXCEPT !.status = "blocked", !.block = "limit", !.intercepts = 0,
                   !.checked = FALSE, !.intercept = "none", !.idle = 0]
    ELSE m

\* Mutant: the count starts again where the limit should end it.
LimitedNever(m) == IF m.turns >= MaxAutoTurns THEN [m EXCEPT !.turns = 0] ELSE m

\* The limit on continuation turns, the last clause of advance.
Limited(m) ==
    IF m.status = "running" /\ m.turns >= MaxAutoTurns
    THEN [m EXCEPT !.status = "blocked", !.block = "limit", !.intercepts = 0,
                   !.checked = FALSE, !.intercept = "none", !.idle = 0]
    ELSE m

Advanced(m, answer, undone) ==
    Limited(Nudged(Judged([m EXCEPT !.turns = @ + 1], answer, undone),
                   answer.tool))

(***************************************************************************)
(* Writing the goal-state file, and the commands of the frontends.         *)
(***************************************************************************)

\* Bytes built under the machine's lock, to be written after it is released.
Built(m, todos) == [at |-> path, image |-> Image(m, todos)]
Nothing == [at |-> "none", image |-> NoState]

\* writeState: the write itself, serialised by writeMu.
Write(t) ==
    /\ writing[t] # Nothing
    /\ file' = [file EXCEPT ![writing[t].at] = writing[t].image]
    /\ writing' = [writing EXCEPT ![t] = Nothing]

Persist(f) ==
    /\ Write(f)
    /\ UNCHANGED <<machine, path, open, pc, canceled, reply, commands, left, sent>>

\* The command f's goroutine executes next, once what it built is written.
Takes(f, op) ==
    /\ writing[f] = Nothing
    /\ commands[f] # <<>>
    /\ Head(commands[f]).op = op
    /\ commands' = [commands EXCEPT ![f] = Tail(@)]

\* Of a goal just set or restored the model has been told nothing.
Untold == [sent EXCEPT !.todos = FALSE, !.check = FALSE, !.closed = FALSE]

\* SetGoalWithResearchMode.
SetGoal(f) ==
    LET goal == Head(commands[f]).goal IN
    /\ Takes(f, "set")
    /\ IF Unchanged(machine, goal)
       THEN UNCHANGED <<machine, writing, sent>>
       ELSE /\ machine' = SetTo(goal)
            /\ writing' = [writing EXCEPT ![f] = Built(SetTo(goal), open)]
            /\ sent' = Untold
    /\ UNCHANGED <<path, file, open, pc, canceled, reply, left>>

\* GoalStrict.
SetStrict(f) ==
    LET m == [machine EXCEPT !.strict = Head(commands[f]).strict] IN
    /\ Takes(f, "strict")
    /\ machine' = m
    /\ writing' = [writing EXCEPT ![f] = Built(m, open)]
    /\ UNCHANGED <<path, file, open, pc, canceled, reply, left, sent>>

\* compose: the goal a turn's prompt names.
Composed(m) == IF Active(m) THEN m.goal ELSE NoGoal

\* runGuarded: a second turn is refused silently.
Submit(f) ==
    /\ Takes(f, "submit")
    /\ IF pc = "idle"
       THEN pc' = "turn" /\ canceled' = FALSE
       ELSE UNCHANGED <<pc, canceled>>
    /\ UNCHANGED <<machine, path, file, open, reply, writing, left, sent>>

\* Cancel: the running turn's context if there is one, the goal otherwise.
Cancel(f) ==
    /\ Takes(f, "cancel")
    /\ IF pc # "idle"
       THEN canceled' = TRUE /\ UNCHANGED <<machine, writing>>
       ELSE IF Active(machine)
       THEN /\ machine' = Stopped(machine, "stopped")
            /\ writing' = [writing EXCEPT ![f] = Built(machine', open)]
            /\ UNCHANGED canceled
       ELSE UNCHANGED <<machine, writing, canceled>>
    /\ UNCHANGED <<path, file, open, pc, reply, left, sent>>

\* Loading a session: Resume and SwitchBranch take the todos a terminal goal
\* left in the file, or rebuild them from the transcript (NewSession: none).
Loaded(session) ==
    IF file[session].status \in {"complete", "blocked", "stopped"}
    THEN {file[session].open} \cup Todos
    ELSE Todos

\* Controller.Resume of another session, between turns; NewSession and
\* SwitchBranch do the same without looking for a running goal.
Switch(f) ==
    LET cmd == Head(commands[f]) IN
    /\ Takes(f, "switch")
    /\ IF pc # "idle"
       THEN UNCHANGED <<machine, path, open, reply, sent>>
       ELSE /\ path' = cmd.session
            /\ open' \in Loaded(cmd.session)
            /\ machine' = IF cmd.restore THEN Restored(machine, file[cmd.session])
                                         ELSE machine
            /\ reply' = [mark |-> "none", reason |-> "none", tool |-> FALSE]
            /\ sent' = IF machine' # machine THEN Untold ELSE sent
    /\ UNCHANGED <<file, pc, canceled, writing, left>>

\* What frontends ask for: /goal [--strict] X, /goal clear, a message, a
\* cancel, another session.
Requests ==
    {<<[op |-> "set", goal |-> x], [op |-> "strict", strict |-> s],
       [op |-> "submit"]>> : x \in Goals, s \in BOOLEAN}
    \cup {<<[op |-> "set", goal |-> NoGoal]>>, <<[op |-> "submit"]>>,
          <<[op |-> "cancel"]>>}
    \cup {<<[op |-> "switch", session |-> s, restore |-> r]>> :
              s \in Sessions, r \in BOOLEAN}

Request(f) ==
    /\ left.commands > 0
    /\ commands[f] = <<>> /\ writing[f] = Nothing
    /\ \E request \in Requests :
         /\ request[1].op = "switch" => request[1].session # path
         /\ commands' = [commands EXCEPT ![f] = request]
    /\ left' = [left EXCEPT !.commands = @ - 1]
    /\ UNCHANGED <<machine, path, file, open, pc, canceled, reply, writing, sent>>

Command(f) ==
    \/ Request(f) \/ SetGoal(f) \/ SetStrict(f) \/ Submit(f) \/ Cancel(f)
    \/ Switch(f) \/ Persist(f)

(***************************************************************************)
(* The turn goroutine: runGoalLoopWithRawDisplay and continueGoal.         *)
(***************************************************************************)

Answers ==
    [mark : {"complete", "continue", "none"}, reason : {"none"}, tool : BOOLEAN]
    \cup [mark : {"blocked"}, reason : Reasons, tool : BOOLEAN]

\* How many turns have ended with that reason as the last answer, up to three.
Reported(reason) ==
    [r \in Reasons |-> sent.blocked[r] +
        IF r = reason /\ sent.blocked[r] < 3 THEN 1 ELSE 0]

\* The model answers; its tools may have changed the todos.
Answer ==
    /\ pc = "turn"
    /\ \E a \in Answers :
         /\ reply' = a
         /\ sent' = [sent EXCEPT
                !.todos = @ /\ a.mark \notin {"continue", "none"}, !.closed = FALSE,
                !.blocked = Reported(a.reason)]
    /\ open' \in Todos
    /\ pc' = "advance"
    /\ UNCHANGED <<machine, path, file, canceled, commands, writing, left>>

\* A UserPromptSubmit hook refuses the turn: it ends without an error, and
\* the answer of an earlier turn is still the last one of the transcript.
Refuse ==
    /\ pc = "turn"
    /\ sent' = [sent EXCEPT !.blocked = Reported(reply.reason)]
    /\ pc' = "advance"
    /\ UNCHANGED <<machine, path, file, open, canceled, reply, commands, writing, left>>

\* The model's endpoint fails, or the context is done.
Fail ==
    /\ pc = "turn"
    /\ open' \in Todos
    /\ sent' = [sent EXCEPT !.closed = FALSE]
    /\ pc' = "failed"
    /\ UNCHANGED <<machine, path, file, canceled, reply, commands, writing, left>>

\* advanceGoalAfterTurn, up to the write of a terminal state.
Advance ==
    LET m == Advanced(machine, reply, open) IN
    /\ pc = "advance"
    /\ IF ~Active(machine)
       THEN pc' = "ending" /\ UNCHANGED <<machine, writing>>
       ELSE /\ machine' = m
            /\ IF m.status = "running"
               THEN pc' = "loop" /\ UNCHANGED writing
               ELSE /\ pc' = IF m.status = "complete" THEN "complete" ELSE "last"
                    /\ writing' = [writing EXCEPT ![Turn] = Built(m, open)]
    /\ UNCHANGED <<path, file, open, canceled, reply, commands, left, sent>>

\* The terminal state is on disk; completeRemainingGoalTodos closes the todos
\* the model left open and persists the machine as it is now.
Complete ==
    /\ pc = "complete" /\ Write(Turn)
    /\ pc' = IF open THEN "todos" ELSE "ending"
    /\ sent' = [sent EXCEPT !.closed = ~open]
    /\ UNCHANGED <<machine, path, open, canceled, reply, commands, left>>

CloseTodos ==
    /\ pc = "todos"
    /\ open' = FALSE
    /\ writing' = [writing EXCEPT ![Turn] = Built(machine, FALSE)]
    /\ sent' = [sent EXCEPT !.closed = TRUE]
    /\ pc' = "last"
    /\ UNCHANGED <<machine, path, file, canceled, reply, commands, left>>

\* The last write of the turn.
Last ==
    /\ pc = "last" /\ Write(Turn)
    /\ pc' = "ending"
    /\ UNCHANGED <<machine, path, open, canceled, reply, commands, left, sent>>

\* Mutant: a cancelled turn stops the goal without persisting it.
StopUnsaved ==
    /\ pc \in {"failed", "loop"}
    /\ canceled
    /\ machine' = Stopped(machine, "stopped")
    /\ pc' = "ending"
    /\ UNCHANGED <<path, file, open, canceled, reply, commands, writing, left, sent>>

\* stopGoal of a turn whose context is done.
Stop ==
    /\ \/ pc = "failed"
       \/ pc = "loop"
    /\ canceled
    /\ machine' = Stopped(machine, "stopped")
    /\ writing' = [writing EXCEPT ![Turn] = Built(machine', open)]
    /\ pc' = "last"
    /\ UNCHANGED <<path, file, open, canceled, reply, commands, left, sent>>

\* An error that is no cancellation leaves the goal running.
GiveUp ==
    /\ pc = "failed" /\ ~canceled
    /\ pc' = "ending"
    /\ UNCHANGED <<machine, path, file, open, canceled, reply, commands, writing, left, sent>>

\* takeIntercept and the next synthetic turn.
Continue ==
    /\ pc = "loop" /\ ~canceled
    /\ machine' = [machine EXCEPT !.intercept = "none"]
    /\ sent' = [sent EXCEPT !.todos = @ \/ machine.intercept = "todos",
                        !.check = @ \/ machine.intercept = "check"]
    /\ pc' = "turn"
    /\ UNCHANGED <<path, file, open, canceled, reply, commands, writing, left>>

End ==
    /\ pc = "ending"
    /\ pc' = "idle" /\ canceled' = FALSE
    /\ UNCHANGED <<machine, path, file, open, reply, commands, writing, left, sent>>

TurnStep ==
    \/ Answer \/ Refuse \/ Fail \/ Advance \/ Complete \/ CloseTodos \/ Last
    \/ Stop \/ GiveUp \/ Continue \/ End

(***************************************************************************)
(* The process dies and the session it was in is resumed.  A write under   *)
(* way may be torn: what it leaves does not parse and counts as no file.   *)
(***************************************************************************)
Restart ==
    /\ left.restarts > 0
    /\ left' = [left EXCEPT !.restarts = @ - 1]
    /\ \E torn \in SUBSET {t \in Threads : writing[t] # Nothing} :
         file' = [s \in Sessions |->
                    IF \E t \in torn : writing[t].at = s THEN NoState ELSE file[s]]
    /\ machine' = Restored(Reset(NoGoal, "unset"), file'[path])
    /\ open' \in IF file'[path].status \in {"complete", "blocked", "stopped"}
                 THEN {file'[path].open} \cup Todos ELSE Todos
    /\ pc' = "idle" /\ canceled' = FALSE
    /\ reply' = [mark |-> "none", reason |-> "none", tool |-> FALSE]
    /\ commands' = [f \in Frontends |-> <<>>]
    /\ writing' = [t \in Threads |-> Nothing]
    /\ sent' = Untold
    /\ UNCHANGED path

Init ==
    /\ machine = Reset(NoGoal, "unset")
    /\ path \in Sessions
    /\ file = [s \in Sessions |-> NoState]
    /\ open = FALSE
    /\ pc = "idle" /\ canceled = FALSE
    /\ reply = [mark |-> "none", reason |-> "none", tool |-> FALSE]
    /\ commands = [f \in Frontends |-> <<>>]
    /\ writing = [t \in Threads |-> Nothing]
    /\ left = [commands |-> MaxCommands, restarts |-> MaxRestarts]
    /\ sent = [todos |-> FALSE, check |-> FALSE, closed |-> FALSE,
               blocked |-> [r \in Reasons |-> 0]]
    /\ raced = FALSE

\* Two goroutines have built bytes and neither has written them.
Overlapping == \E t, u \in Threads : t # u /\ writing[t] # Nothing /\ writing[u] # Nothing

Next ==
    /\ (\E f \in Frontends : Command(f)) \/ TurnStep \/ Restart
    /\ raced' = (raced \/ Overlapping' \/ path' # path)

\* The goroutines are scheduled, and a turn comes back: the model's stream
\* ends, fails or is abandoned when the context is done.
Fairness == WF_core(TurnStep)

Spec == Init /\ [][Next]_vars /\ Fairness

(***************************************************************************)
(* Properties.                                                             *)
(***************************************************************************)

Machines ==
    [goal : Goals \cup {NoGoal},
     status : {"unset", "running", "stopped", "complete", "blocked"},
     turns : 0 .. MaxAutoTurns, blocks : 0 .. 3,
     block : Reasons \cup {"none", "limit"},
     intercept : {"none", "todos", "check", "idle"}, intercepts : 0 .. MaxAutoTurns,
     strict : BOOLEAN, checked : BOOLEAN, idle : 0 .. MaxIdleTurns - 1]

Images ==
    [goal : Goals \cup {NoGoal},
     status : {"unset", "running", "stopped", "complete", "blocked"},
     turns : 0 .. MaxAutoTurns, blocks : 0 .. 3,
     block : Reasons \cup {"none", "limit"}, strict : BOOLEAN, open : BOOLEAN]

\* The machine stays within its limits, and a file never holds what no machine
\* could be in.
TypeOK ==
    /\ machine \in Machines
    /\ \A s \in Sessions : file[s] \in Images \cup {NoState}
    /\ path \in Sessions /\ open \in BOOLEAN /\ canceled \in BOOLEAN
    /\ pc \in {"idle", "turn", "failed", "advance", "complete", "todos",
               "last", "loop", "ending"}
    /\ machine.status = "running" => machine.goal # NoGoal

Completes == Active(machine) /\ machine'.status = "complete"
GivesUp   == /\ Active(machine) /\ machine'.status = "blocked"
             /\ machine'.block # "limit"

\* A goal ends for a cause the model has given.  With todos open or a check
\* missing it is complete only when it is not strict and, since it was set, a
\* turn was begun with the list of them after the first claim; a strict goal
\* only after a turn was begun with the self-check; and a goal is given up only
\* for a reason three turns have ended with (goal.go, advance).
GoalEndsForCause ==
    [][/\ Completes => /\ open => ~machine.strict /\ sent.todos
                       /\ machine.strict => sent.check
       /\ GivesUp => sent.blocked[machine'.block] = 3]_vars

Quiet == pc = "idle" /\ \A t \in Threads : writing[t] = Nothing

\* Between turns of one session, with every write landed and no two of them
\* ever under way at once, the goal a restart would resume is the goal that is
\* running, and until another turn runs a finished goal's file does not bring
\* back todos the end of the goal has closed: no change of the machine is left
\* out of the file (persistGoalState at each of its callers).
FileIsCurrent ==
    Quiet /\ ~raced /\ file[path] # NoState =>
        /\ Composed(machine) = Composed(file[path])
        /\ file[path].status = "complete" /\ sent.closed => file[path].open = FALSE

\* Every turn ends, whatever the model answers: the loop of continuation turns
\* is bounded by maxGoalAutoTurns, and a cancelled one stops at its next check.
LoopEnds == pc # "idle" ~> pc = "idle"
=============================================================================
