-------------------------------- MODULE Jobs --------------------------------
(***************************************************************************)
(* The background-job table of src/internal/jobs/jobs.go: jobs.Manager,    *)
(* its Job records and the goroutines they run on.                         *)
(*                                                                         *)
(* A job is named by its sequence number (m.seq; the kind and the label    *)
(* are left out).  Its goroutine is a program counter; every critical      *)
(* section under m.mu or j.mu is one step, and what happens between two    *)
(* critical sections may interleave with every other goroutine:            *)
(*                                                                         *)
(*   free        not started                                               *)
(*   registered  in m.jobs, StartForSession has not reached `go func`      *)
(*   running     the run function executes                                 *)
(*   returned    run returned and j.runReturned is set                     *)
(*   decided     the terminal state is chosen and written to the meta file *)
(*   recorded    recordCompletion has run                                  *)
(*   published   the terminal state is in j.status                         *)
(*   exited      close(j.done) and wg.Done have run                        *)
(***************************************************************************)
EXTENDS Integers, FiniteSets

CONSTANTS
    Sessions,      \* parent session ids
    NoSession,     \* the empty session id "" (headless runs, legacy API)
    StartIn,       \* the sessions jobs are started in
    MaxJobs,       \* bound on m.seq
    StallWarning   \* TRUE iff m.stalledWarning > 0

ASSUME NoSessionAssumption == NoSession \notin Sessions
ASSUME StartInAssumption == StartIn \subseteq Sessions \cup {NoSession}
ASSUME MaxJobsAssumption == MaxJobs \in Nat
ASSUME StallWarningAssumption == StallWarning \in BOOLEAN

Job == 1..MaxJobs
Owner == Sessions \cup {NoSession}

Terminal == {"done", "failed", "killed"}
Status == {"running"} \cup Terminal

PC == {"free", "registered", "running", "returned", "decided", "recorded",
       "published", "exited"}

(* An entry of m.completed: the summary of a finished job, or the stall    *)
(* warning of a quiet one, and the session it is addressed to.             *)
Note == [job: Job, what: Terminal \cup {"stalled"}, session: Owner]
Delivery == [note: Note, to: Owner]

VARIABLES
    seq,           \* m.seq
    table,         \* the jobs in m.jobs
    owner,         \* j.SessionID
    home,          \* the parentSession captured by the job's goroutines
    status,        \* j.status
    outcome,       \* st, the goroutine's own verdict ("running": none yet)
    failing,       \* jobs whose run returned an error
    pc,            \* the run goroutine
    monitor,       \* the monitorStalled goroutine
    cancelling,    \* killed under the lock, cancel() not yet called
    cancelled,     \* j's own context is cancelled
    closing,       \* Close / CloseAsync; m.root is cancelled unless "open"
    completed,     \* m.completed
    destroying,    \* m.destroying
    targets,       \* SessionTeardown.targets of the open destroy windows
    bound,         \* the sessions with an entry in m.artifactDirs
    adopting,      \* SetActiveSessionPath calls between their two locks
    delivered,     \* history: the notes drained, and for whom
    discarded      \* history: jobs whose note a destroy refused or dropped

jobVars == <<status, outcome, failing, pc, monitor, cancelling, cancelled>>
noteVars == <<completed, delivered, discarded>>
tableVars == <<seq, table, owner, home>>
sessionVars == <<destroying, targets, bound, adopting>>
vars == <<jobVars, noteVars, tableVars, sessionVars, closing>>

-----------------------------------------------------------------------------

TypeOK ==
    /\ seq \in 0..MaxJobs
    /\ table \subseteq Job
    /\ owner \in [Job -> Owner]
    /\ home \in [Job -> Owner]
    /\ status \in [Job -> Status]
    /\ outcome \in [Job -> Status]
    /\ failing \subseteq Job
    /\ pc \in [Job -> PC]
    /\ monitor \in [Job -> {"off", "armed", "stalled", "gone"}]
    /\ cancelling \subseteq Job
    /\ cancelled \subseteq Job
    /\ closing \in {"open", "close", "marked", "async", "removed"}
    /\ completed \subseteq Note
    /\ destroying \subseteq Sessions
    /\ targets \in [Sessions -> SUBSET Job]
    /\ bound \subseteq Sessions
    /\ adopting \subseteq Sessions
    /\ delivered \subseteq Delivery
    /\ discarded \subseteq Job

Init ==
    /\ seq = 0
    /\ table = {}
    /\ owner = [j \in Job |-> NoSession]
    /\ home = [j \in Job |-> NoSession]
    /\ status = [j \in Job |-> "running"]
    /\ outcome = [j \in Job |-> "running"]
    /\ failing = {}
    /\ pc = [j \in Job |-> "free"]
    /\ monitor = [j \in Job |-> "off"]
    /\ cancelling = {}
    /\ cancelled = {}
    /\ closing = "open"
    /\ completed = {}
    /\ destroying = {}
    /\ targets = [s \in Sessions |-> {}]
    /\ bound = {}
    /\ adopting = {}
    /\ delivered = {}
    /\ discarded = {}

-----------------------------------------------------------------------------
(* Lookups.                                                                *)

\* sessionMatches: the empty filter matches every session.
Matches(s, j) == s = NoSession \/ owner[j] = s

\* The jobs of the table a call scoped to s can see.
Visible(s) == {j \in table : Matches(s, j)}

\* Mutant: the job context is not a child of the manager's root.
CtxDoneDetached(j) == j \in cancelled

\* ctx.Err() != nil for the context handed to run: a child of m.root.
CtxDone(j) == j \in cancelled \/ closing # "open"

\* A session's own notes; the empty session id drains everything.
NotesFor(s) == {n \in completed : s = NoSession \/ n.session = s}

\* Mutant: the notes that were read stay queued.
KeptAll(s) == completed

\* What a drain or a destroy of s leaves in the queue.
Kept(s) == completed \ NotesFor(s)

IsCompletion(n) == n.what # "stalled"

-----------------------------------------------------------------------------
(* StartForSession and the job's goroutine.                                *)

\* The critical section of StartForSession: the job enters the table running.
\* Nothing refuses a start in a session being destroyed or a closed manager.
Start(s) ==
    /\ seq < MaxJobs
    /\ LET j == seq + 1
       IN /\ seq' = j
          /\ table' = table \cup {j}
          /\ owner' = [owner EXCEPT ![j] = s]
          /\ home' = [home EXCEPT ![j] = s]
          /\ pc' = [pc EXCEPT ![j] = "registered"]
    /\ UNCHANGED <<status, outcome, failing, monitor, cancelling, cancelled,
                   noteVars, sessionVars, closing>>

\* wg.Add and the go statements, after the lock has been released.
Launch(j) ==
    /\ pc[j] = "registered"
    /\ pc' = [pc EXCEPT ![j] = "running"]
    /\ monitor' = [monitor EXCEPT ![j] = IF StallWarning THEN "armed" ELSE "off"]
    /\ UNCHANGED <<status, outcome, failing, cancelling, cancelled,
                   noteVars, tableVars, sessionVars, closing>>

\* run returns, with or without an error (a panic is an error), whether or
\* not its context is cancelled.
Return(j) ==
    /\ pc[j] = "running"
    /\ pc' = [pc EXCEPT ![j] = "returned"]
    /\ failing' \in {failing, failing \cup {j}}
    /\ UNCHANGED <<status, outcome, monitor, cancelling, cancelled,
                   noteVars, tableVars, sessionVars, closing>>

\* A cancelled context outweighs what run returned.
Verdict(j) == IF CtxDone(j) THEN "killed"
              ELSE IF j \in failing THEN "failed" ELSE "done"

\* The verdict is taken; the artifact is closed and its meta file written
\* with it.
Decide(j) ==
    /\ pc[j] = "returned"
    /\ pc' = [pc EXCEPT ![j] = "decided"]
    /\ outcome' = [outcome EXCEPT ![j] = Verdict(j)]
    /\ UNCHANGED <<status, failing, monitor, cancelling, cancelled,
                   noteVars, tableVars, sessionVars, closing>>

\* Mutant: the destroy window takes notes.
RefusesNone(s) == FALSE

\* A session being destroyed takes no notes.
Refuses(s) == s \in destroying

\* recordCompletion: the summary carries the verdict, and is addressed to the
\* session the job was started in.
Summary(j) == [job |-> j, what |-> outcome[j], session |-> home[j]]

Record(j) ==
    /\ pc[j] = "decided"
    /\ pc' = [pc EXCEPT ![j] = "recorded"]
    /\ \/ Refuses(home[j]) /\ discarded' = discarded \cup {j} /\ UNCHANGED completed
       \/ ~Refuses(home[j]) /\ completed' = completed \cup {Summary(j)} /\ UNCHANGED discarded
    /\ UNCHANGED <<status, outcome, failing, monitor, cancelling, cancelled,
                   delivered, tableVars, sessionVars, closing>>

\* The verdict becomes the visible status, unless a kill got there first.
Published(j) == IF status[j] = "killed" THEN "killed" ELSE outcome[j]

\* Mutant: the status is published without recording the completion first.
PublishUnrecorded(j) ==
    /\ pc[j] = "decided"
    /\ pc' = [pc EXCEPT ![j] = "published"]
    /\ status' = [status EXCEPT ![j] = Published(j)]
    /\ UNCHANGED <<outcome, failing, monitor, cancelling, cancelled,
                   noteVars, tableVars, sessionVars, closing>>

Publish(j) ==
    /\ pc[j] = "recorded"
    /\ pc' = [pc EXCEPT ![j] = "published"]
    /\ status' = [status EXCEPT ![j] = Published(j)]
    /\ UNCHANGED <<outcome, failing, monitor, cancelling, cancelled,
                   noteVars, tableVars, sessionVars, closing>>

\* close(j.done), and the deferred wg.Done.
Exit(j) ==
    /\ pc[j] = "published"
    /\ pc' = [pc EXCEPT ![j] = "exited"]
    /\ UNCHANGED <<status, outcome, failing, monitor, cancelling, cancelled,
                   noteVars, tableVars, sessionVars, closing>>

-----------------------------------------------------------------------------
(* monitorStalled.                                                         *)

\* j.runReturned || j.status != Running
GivesUp(j) == pc[j] \notin {"registered", "running"} \/ status[j] # "running"

\* The timer fires on a quiet job: the warning is decided under j.mu ...
MonitorStall(j) ==
    /\ monitor[j] = "armed"
    /\ ~GivesUp(j)
    /\ monitor' = [monitor EXCEPT ![j] = "stalled"]
    /\ UNCHANGED <<status, outcome, failing, pc, cancelling, cancelled,
                   noteVars, tableVars, sessionVars, closing>>

\* ... and recordStalled queues it under m.mu, later.
RecordStalled(j) ==
    /\ monitor[j] = "stalled"
    /\ monitor' = [monitor EXCEPT ![j] = "gone"]
    /\ completed' = IF Refuses(home[j]) THEN completed
                    ELSE completed \cup
                      {[job |-> j, what |-> "stalled", session |-> home[j]]}
    /\ UNCHANGED <<status, outcome, failing, pc, cancelling, cancelled,
                   delivered, discarded, tableVars, sessionVars, closing>>

\* The monitor leaves when run has returned, the job is no longer running,
\* or its done channel closes.
MonitorExit(j) ==
    /\ monitor[j] = "armed"
    /\ GivesUp(j)
    /\ monitor' = [monitor EXCEPT ![j] = "gone"]
    /\ UNCHANGED <<status, outcome, failing, pc, cancelling, cancelled,
                   noteVars, tableVars, sessionVars, closing>>

-----------------------------------------------------------------------------
(* Callers: kill_shell, the next turn, the active session.                 *)

\* Mutant: no job is taken for a running one.
RunningNone(s) == {}

\* The running jobs a scoped kill, destroy or close may mark as killed.
Running(s) == {j \in Visible(s) : status[j] = "running"}

\* KillForSession under j.mu: the status flips before the context is cancelled.
Kill(s, j) ==
    /\ j \in Running(s)
    /\ status' = [status EXCEPT ![j] = "killed"]
    /\ cancelling' = cancelling \cup {j}
    /\ UNCHANGED <<outcome, failing, pc, monitor, cancelled,
                   noteVars, tableVars, sessionVars, closing>>

\* j.cancel(), called after the lock by KillForSession and
\* BeginDestroySession.
Cancel(j) ==
    /\ j \in cancelling
    /\ cancelling' = cancelling \ {j}
    /\ cancelled' = cancelled \cup {j}
    /\ UNCHANGED <<status, outcome, failing, pc, monitor,
                   noteVars, tableVars, sessionVars, closing>>

\* DrainCompletedNoteForSession, when a turn of session s is composed.
Drain(s) ==
    /\ NotesFor(s) # {}
    /\ completed' = Kept(s)
    /\ delivered' = delivered \cup {[note |-> n, to |-> s] : n \in NotesFor(s)}
    /\ UNCHANGED <<jobVars, discarded, tableVars, sessionVars, closing>>

\* SetActiveSessionPath, first lock: bind the session to its directory, and
\* notice the jobs started before there was one.
Bind(s) ==
    /\ s \notin bound
    /\ bound' = bound \cup {s}
    /\ adopting' = IF \E j \in table : owner[j] = NoSession
                   THEN adopting \cup {s} ELSE adopting
    /\ UNCHANGED <<jobVars, noteVars, tableVars, destroying, targets, closing>>

\* adoptUnscopedJobsLocked, under the second lock, after the migration.
Adopt(s) ==
    /\ s \in adopting
    /\ adopting' = adopting \ {s}
    /\ completed' = {IF n.session = NoSession THEN [n EXCEPT !.session = s]
                     ELSE n : n \in completed}
    /\ owner' = [j \in Job |-> IF j \in table /\ owner[j] = NoSession
                               THEN s ELSE owner[j]]
    /\ UNCHANGED <<jobVars, delivered, discarded, seq, table, home,
                   destroying, targets, bound, closing>>

-----------------------------------------------------------------------------
(* The destroy window of a session.                                        *)

\* BeginDestroySession: under m.mu, refuse and drop the session's notes, kill
\* its running jobs, and hand back what there is to wait for.
BeginDestroy(s) ==
    /\ s \notin destroying
    /\ destroying' = destroying \cup {s}
    /\ completed' = Kept(s)
    /\ discarded' = discarded \cup
         {n.job : n \in {m \in NotesFor(s) : IsCompletion(m)}}
    /\ targets' = [targets EXCEPT ![s] =
                     {j \in Visible(s) : status[j] \in {"running", "killed"}}]
    /\ status' = [j \in Job |-> IF j \in Running(s) THEN "killed" ELSE status[j]]
    /\ cancelling' = cancelling \cup Running(s)
    /\ UNCHANGED <<outcome, failing, pc, monitor, cancelled, delivered,
                   tableVars, bound, adopting, closing>>

\* FinishDestroySession.  Its callers first wait for every target, WaitAll
\* taking over in the background from a WaitTeardown that timed out.
FinishDestroy(s) ==
    /\ s \in destroying
    /\ \A j \in targets[s] : pc[j] = "exited"
    /\ destroying' = destroying \ {s}
    /\ targets' = [targets EXCEPT ![s] = {}]
    /\ bound' = bound \ {s}
    /\ table' = {j \in table : owner[j] # s}
    /\ UNCHANGED <<jobVars, noteVars, seq, owner, home, adopting, closing>>

-----------------------------------------------------------------------------
(* Closing the manager.                                                    *)

\* m.cancel(), by Close or by CloseAsync.
CloseCancel ==
    /\ closing = "open"
    /\ closing' \in {"close", "async"}
    /\ UNCHANGED <<jobVars, noteVars, tableVars, sessionVars>>

\* closeTargets: whatever has not exited is shown as killed.
CloseMark ==
    /\ closing = "close"
    /\ closing' = "marked"
    /\ status' = [j \in Job |-> IF j \in table /\ pc[j] # "exited"
                                   /\ status[j] = "running"
                                THEN "killed" ELSE status[j]]
    /\ UNCHANGED <<outcome, failing, pc, monitor, cancelling, cancelled,
                   noteVars, tableVars, sessionVars>>

\* wg.Wait returns: no goroutine that wg.Add counted is left.
WaitGroupIdle ==
    \A j \in Job : /\ pc[j] \in {"free", "registered", "exited"}
                   /\ monitor[j] \in {"off", "gone"}

\* removeTempRoot, at once or in the background after a timeout.
RemoveTempRoot ==
    /\ closing \in {"marked", "async"}
    /\ WaitGroupIdle
    /\ closing' = "removed"
    /\ UNCHANGED <<jobVars, noteVars, tableVars, sessionVars>>

-----------------------------------------------------------------------------

Goroutine(j) == Launch(j) \/ Decide(j) \/ Record(j) \/ Publish(j) \/ Exit(j)

Monitor(j) == RecordStalled(j) \/ MonitorExit(j)

Next ==
    \/ \E s \in StartIn : Start(s)
    \/ \E s \in Owner : Drain(s)
    \/ \E j \in Job : Return(j) \/ Goroutine(j) \/ MonitorStall(j) \/ Monitor(j)
    \/ \E s \in Owner, j \in Job : Kill(s, j)
    \/ \E j \in Job : Cancel(j)
    \/ \E s \in Sessions : \/ Bind(s) \/ Adopt(s)
                           \/ BeginDestroy(s) \/ FinishDestroy(s)
    \/ CloseCancel \/ CloseMark \/ RemoveTempRoot

Spec == Init /\ [][Next]_vars

(* The Go scheduler runs every goroutine that can run; a killer calls the  *)
(* cancel it owes; a destroyer keeps waiting; and a run function returns   *)
(* once its context is cancelled.  Nothing else is promised: a job may run *)
(* forever, and nobody has to kill, drain, destroy or close.               *)
Fairness ==
    /\ \A j \in Job : /\ WF_vars(Goroutine(j))
                      /\ WF_vars(CtxDone(j) /\ Return(j))
                      /\ WF_vars(Monitor(j))
                      /\ WF_vars(Cancel(j))
    /\ \A s \in Sessions : WF_vars(FinishDestroy(s)) /\ WF_vars(Adopt(s))
    /\ WF_vars(CloseMark) /\ WF_vars(RemoveTempRoot)

FairSpec == Spec /\ Fairness

-----------------------------------------------------------------------------
(* What the table promises.                                                *)

CompletionNotes == {n \in completed : IsCompletion(n)}
CompletionsDelivered == {d \in delivered : IsCompletion(d.note)}

\* The completion of j was queued, and is still there, was drained, or fell
\* to the destruction of its session.
Noted(j) == \/ \E n \in CompletionNotes : n.job = j
            \/ \E d \in CompletionsDelivered : d.note.job = j
            \/ j \in discarded

(* A job that is seen as done or failed has its completion note queued:    *)
(* recordCompletion comes before the status is published (jobs.go, the     *)
(* TestDrainMultiple comment), so that waiting on nothing and draining     *)
(* cannot miss the note.                                                   *)
NaturalEndNoted == \A j \in Job : status[j] \in {"done", "failed"} => Noted(j)

(* Once j.done is closed the job has a terminal status and its completion  *)
(* is noted, however it ended: what Wait and the teardown waits rely on.   *)
DoneClosedImpliesSettled ==
    \A j \in Job : pc[j] = "exited" => status[j] # "running" /\ Noted(j)

(* The model is told of a completion at most once, whatever interleaving   *)
(* of kills, drains, adoptions and destroys the note goes through.         *)
CompletionToldOnce ==
    \A j \in Job :
        /\ \A n1, n2 \in {n \in CompletionNotes : n.job = j} : n1 = n2
        /\ \A d1, d2 \in {d \in CompletionsDelivered : d.note.job = j} : d1 = d2
        /\ \A n \in CompletionNotes, d \in CompletionsDelivered :
             ~(n.job = j /\ d.note.job = j)

(* After a destroy window closes no completion note of a job the teardown  *)
(* waited for is left behind, to be handed to whoever reuses the session   *)
(* id or drains unscoped: such a job records inside the window, where the  *)
(* note is refused.                                                        *)
TeardownLeavesNoNote ==
    [][\A s \in Sessions : FinishDestroy(s) =>
         ~\E n \in CompletionNotes :
            n.job \in targets[s] /\ n.session = s /\ home[n.job] = s]_vars

(* A terminal status is final: a kill that was reported is never undone by *)
(* the goroutine's verdict, and no kill, destroy or close rewrites the     *)
(* status of a job that ended on its own.                                  *)
TerminalStatusFinal ==
    [][\A j \in Job : status[j] # "running" => status'[j] = status[j]]_vars

(* A destroy window closes: nothing the window waits for can wait on it.   *)
DestroyWindowCloses == \A s \in Sessions : (s \in destroying) ~> (s \notin destroying)

(* Closing the manager always gets as far as removing the temporary root:  *)
(* every job is cancelled through the root context, those started while    *)
(* it closes included.                                                     *)
CloseReleasesTempRoot == (closing # "open") ~> (closing = "removed")

=============================================================================
