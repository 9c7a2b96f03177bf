# A TLA+ development of Vcode

Vcode (`src/`) is a terminal AI coding agent written in Go: one binary with a
terminal UI, a one-shot `run` command, an HTTP/SSE server, an ACP server on
stdio and a gateway for instant-messaging bots. All of them drive the same
`control.Controller`, which runs an agent's turns, asks the user for leave,
keeps the transcript and the file checkpoints, and owns the background jobs.

This directory holds TLA+ models of the parts of it where concurrency, failure
and order matter, the TLC runs that check them, and TLAPS proofs of their main
invariants for every value of the constants.

| module | what it models | run by | proofs |
|---|---|---|---|
| `Jobs` | the background-job manager, `internal/jobs` | `MCJobs`: `JobsLive` | `JobsProofs` |
| `Checkpoints` | checkpoints, rewind, the transcript of one session: `internal/checkpoint`, `internal/control` | `MCCheckpoints`: `CkptRewind`, `CkptCompact` | `CheckpointsProofs` |
| `Approval` | prompts, approval posture, cancel, the plan window: `internal/control` | `MCApproval`: `Approval` | `ApprovalProofs` |
| `BotGateway` | the message queue and the turns of a bot session: `internal/bot` | `MCBotGateway`: `BotQueue` | `BotProofs` |
| `SessionSave` | the transcript file of a session and its sidecar under several writers: `agent/save.go`, `agent/branch.go`, `internal/control` | `MCSessionSave`: `SessionShared` | `SessionSaveProofs` |
| `TranscriptStore` | the abstract specification `SessionSave` implements | with `SessionSave` | `SessionSaveProofs` |
| `Goals` | the goal machine, its loop of turns and its state file: `control/goal.go` | `MCGoals`: `GoalLoop` | `GoalsProofs` |
| `Transcript` | the tool-call contract of a transcript and its repairs: `provider/provider.go` | with `Compaction` | - |
| `Compaction` | pruning and folding of the context: `agent/compact.go`, `agent/prune.go` | `MCCompaction`: `Compaction`, `CompactOverlap` | - |
| `AgentLoop` | one turn of the agent, its batches, its ledger, guidance and cancel: `agent/agent.go`, `internal/evidence` | `MCAgentLoop`: `AgentLoop`, `AgentSignoff` | `AgentLoopProofs` |
| `McpHost` | one MCP server on a host that sessions share: `plugin/plugin.go`, `plugin/lazy.go`, `control/mcp.go`, `tool/tool.go` | `MCMcpHost`: `McpHost` | `McpHostProofs` |

Running one: `tlc -config JobsLive.cfg MCJobs.tla`. Checking proofs:
`tlapm JobsProofs.tla`. `PROJECT.json` lists the runs, the source lines of every
definition, a plausible bug (a definition marked *Mutant*) that each property
detects, the hazards, and the places where code and documentation disagree.

## 1. Inventory

Go packages under `src/internal` unless stated otherwise. "Hard" names what a
test would hardly reach; "correct" what the component has to keep.

### Modelled

**jobs** (`jobs/jobs.go`). *State*: the job table (id, session, status, output
tail, done channel), the queue of completion notes, the sessions being
destroyed, artifact directories, a temporary root. *Operations*: start, kill,
read output, list, wait, drain notes, adopt unscoped jobs when a session gets
its path, open and close a destroy window, close with or without a grace
period. *Interacts*: the `bash` and sub-agent tools start jobs; every turn
drains the notes of its session; session deletion opens a destroy window.
*Hard*: two goroutines per job and callers from any thread under two mutexes.
*Correct*: one completion note per job, told once, to the job's own session;
terminal statuses final; teardown and close terminate and leave nothing.

**checkpoint + control/checkpoint.go + the rewinding half of
control/controller.go**. *State*: per-turn snapshots of files before their first
edit, in memory and as `turn-N.json`; the next turn number; the message index
at which each turn began; the message log, the transcript file, the in-flight
marker. *Operations*: begin, snapshot, edit, autosave, cancel, rewind (code,
conversation, both), fork, summarize from/up to, compaction, resume. *Hard*:
indexes into a log that six operations rewrite; a rewind is five steps that a
crash or a turn may cut into. *Correct*: a rewind restores the files of its
turn's start and keeps exactly the messages before it; a lone writer keeps its
file.

**control: approvals** (`approval.go`, `controller.go`, `turn_orchestrator.go`).
*State*: pending prompts by id, session grants, the posture (ask, auto, yolo),
the executor's gate, the plan's auto-approve window, `promptMu`. *Operations*:
a tool call asks, the user answers, the posture changes, the turn is cancelled,
a deadline passes, a plan is proposed. *Interacts*: the sink shows prompts;
front ends call `Approve`, `AnswerQuestion`, `SetToolApprovalMode`, `Cancel` from
their own goroutines. *Hard*: parallel read-only batches, answers that are late
or repeated, a posture that changes between two looks at it. *Correct*: one
prompt at a time, an answer decides its call, some decisions are the user's
alone, nobody blocks for ever under a deadline or after a cancel.

**bot: queue and turns** (`bot/session.go`, `bot/gateway.go`). *State*: per session
an active flag, a bounded queue, summaries of dropped messages, the queue mode,
the controller and the cancel function of its turn. *Operations*: a message is
steered into the turn, queued, merged, displaced, rejected, or interrupts;
`/stop` frees the session; a turn runs its batch, releases and takes the next.
*Hard*: check-then-act between the dispatch goroutine and the turn's goroutine.
*Correct*: one turn at a time, in order, none forgotten.

**agent: session files** (`agent/save.go`, `agent/branch.go`, and the saves of
`control/controller.go`). *State*: a transcript file and a sidecar per path, a lock
file, and in each process what it last read or wrote there (text, digest,
revision). *Operations*: snapshot, rewrite, autosave, adopt the file, move to a
recovery branch, mark and clear a turn in flight, resume and strip. *Interacts*:
every turn, cancel and rewind ends in a save; two processes may open one session.
*Hard*: the sidecar is read, merged and replaced without the lock; a process may
die between any two steps. *Correct*: nobody's messages are hidden; a text is
replaced only by who has seen it.

**control: goal machine** (`goal.go`, `turn_orchestrator.go`). *State*: the goal, its
status, counters of turns, blocks, idle turns and intercepts, and a state file per
session. *Operations*: set, strict, stop; judge the answer of a turn and continue;
switch session, restore. *Hard*: the bytes of the file are built under the mutex and
written after it; front ends act between a turn and its judgement. *Correct*: a
goal ends for a cause the user can name and within its limits; the file tells what
the machine knows.

**agent: compaction and pruning** (`compact.go`, `prune.go`; the contract of tool
calls in `provider/provider.go`). *State*: the message log, a latch against
compacting over and over, archives. *Operations*: after every answer snip, prune or
fold by the size of the prompt; `/compact`; a prune at a cold resume; the repair of
a loaded log. *Hard*: cuts and keep rules that must not part a call from its result;
a summary awaited while the log may grow. *Correct*: pairs stay whole, small user
turns stay, what is dropped is in a digest or an archive, folding stops when useless.

**agent: turn loop, evidence** (`agent/agent.go`, `internal/evidence`,
`tool/builtin/completestep.go`). *State*: the counters of a turn, the batch of calls in
hand, the receipts of what ran, the queue of guidance. *Operations*: a round (ask
the model, run the calls of its reply), retries, answers sent back, the grace
round, steer, cancel, the end of a turn. *Hard*: guidance and cancels that arrive at
any step; serial and parallel segments of one batch. *Correct*: calls take effect
in order, the transcript says what ran, guidance is heard, the turn ends.

**plugin: MCP host** (`plugin/plugin.go`, `lazy.go`, `control/mcp.go`, the registry in
`tool/tool.go`). *State*: the connected clients, the spawns under way, the deferred
starts, whether the host is closed; per session the registry of tools, with
placeholders, and the servers it hides. *Operations*: start in the background at
boot, swap placeholders for tools, connect, disconnect, hide, close. *Interacts*:
the sessions of a desktop window share one host; `boot` registers, the controller
connects and disconnects. *Hard*: handshakes of seconds, run off every lock, against
users, sibling sessions and `Close`. *Correct*: one process per server, none after
`Close`; a session shows the tools of the process that is there; every start ends.

### Not modelled yet

| component | state and operations | hard | correct |
|---|---|---|---|
| serve (`serve.go`, `broadcaster.go`) | subscribers, sessions; HTTP handlers over the controller | dropped frames; deletion against jobs | a reconnecting client sees pending prompts |
| plugin: MCP transports (`transport_stdio.go`, `transport_http.go`) | request table, child process | a hung call | every call returns |
| acp, lsp | request tables, one reader, handlers | shutdown against calls; a dead server | every call returns |
| guardian | reviewer session, risk verdicts | timeout in the middle of an approval | no verdict counts as allow |
| agent: sub-agents (`subagent_store.go`) | transcripts by reference, running marks | a crash; the lock is in memory only | a transcript has one runner |
| autoresearch | a task's files | sequential | bookkeeping |
| permission, planmode | none: functions of rules and a call | sequential | deny over ask over allow |
| tool, hook, sandbox, proc, provider (HTTP), netclient | processes, files, HTTP | I/O | one step, or a free choice, in every model |
| cli, boot, config, event, i18n, memory, memorycompiler, skill, installsource, the small helpers, `cmd`, `npm`, `scripts`, `ops` | UI, wiring, text, packaging | sequential | - |

`PROJECT.json` lists all of them under `components`, each with the reason. The
package `cli`, a quarter of the code, renders and dispatches keys; `boot`, `config`,
`memorycompiler` and `skill` run once or on one goroutine over text.

## 2. Plan

1. `Jobs`, `Checkpoints`, `Approval`, `BotGateway` with their runs; proofs of `Jobs`,
   `Approval` and `BotGateway`: done.
2. `SessionSave` with its abstract store, `Goals`, `Compaction` with `Transcript`,
   `AgentLoop`, `McpHost`: done. The turn lifecycle (`runGuarded`, `Send`, `Steer`, `Cancel`) is in
   `AgentLoop` and `Goals`, each with the part it needs.
3. Proofs: of `AgentLoop`, `McpHost`, `Goals`, `Checkpoints`, and `SessionSave`, with the
   step simulation of `TranscriptStore` and with `SavedMessageSurvives` and
   `NothingSaidIsLost`: done.
4. `SessionDestroy` composes `Jobs` with the deletion handler of `serve`;
   `JobOutput` adds the output tail and the artifact files.
5. `McpStdio`, `AcpConn` (with the differences of the LSP client as a constant),
   `Broadcaster`, `SubagentStore`; the guardian as an extension of `Approval`.

`BotGateway` assumes of a turn that its body returns, which is `TurnEnds` of
`AgentLoop`, and that guidance sent to a running turn is used or dropped with it,
which is `GuidanceIsHeard` and what section 7 says of its edges. `Checkpoints` keeps
the one-writer half of what `SessionSave` models for several.

Abstract specifications worth stating: the store of texts that `SessionSave`
implements (`TranscriptStore`, checked and proved); a mailbox (each note delivered at most
once, to its owner) implemented by `Jobs`; a FIFO server of batches implemented by
`BotGateway` up to the first `/stop`.

## 3. The models and the code

One action is one critical section, or one stretch of code between two points
where another goroutine can see or change the state. Every constant that bounds
a model is named and commented where it is declared. A definition whose comment
says *Mutant* is not part of the specification: it is a plausible bug against
which a property is tried.

### Jobs

| variables | in `jobs.go` |
|---|---|
| `seq`, `table`, `owner`, `status` | `m.seq`, `m.jobs`, `j.SessionID`, `j.status` |
| `home` | the `parentSession` its goroutines captured at the start |
| `pc`, `outcome`, `failing` | the goroutine of `StartForSession`, its verdict, whether `run` failed |
| `monitor` | the goroutine of `monitorStalled` |
| `cancelling`, `cancelled` | a `j.cancel()` owed after the lock, and called |
| `completed` | `m.completed`; `Adopt` re-addresses its notes |
| `destroying`, `targets` | `m.destroying`, `SessionTeardown.targets` |
| `bound`, `adopting` | `m.artifactDirs`; `SetActiveSessionPath` between its two locks |
| `closing` | how far `Close` or `CloseAsync` is |
| `delivered`, `discarded` | history |

A job goes *registered → running → returned → decided → recorded → published →
exited*; that order of `Decide`, `Record` and `Publish` is what a waiter relies on.
`Kill` flips the status first and calls `cancel` later; `Verdict` reads the context,
not the status. `BeginDestroy` is one step because it holds `m.mu` (and each `j.mu`
in turn) throughout. A second `BeginDestroy` of a session already being destroyed
is left out. `FinishDestroy` waits for the targets, as both of its callers
do (`serve.go`, `WaitAll` in the background after a timeout).

### Checkpoints

| variables | in the code |
|---|---|
| `log`, `savedLog`, `branch` | `Session.Messages`, the transcript file, how often the session moved to a recovery branch |
| `marker` | `InFlightTurn.StartMessageIndex` |
| `phase`, `start`, `touching` | the turn: `runGuarded`, its `startMessages`, a writer tool between snapshot and write |
| `next`, `bound` | `checkpointManager.turn`, `.bound` |
| `current`, `ckpts`, `disk` | `Store.cur`, `Store.done` with it, the `turn-N.json` files |
| `rewind` | a call of `Rewind` between its steps |
| `epochs`, `startFiles` | ghosts: a number for each turn that is never reused, the workspace at its start |

A message is the epoch of its turn and its role. `Save` is the whole of
`Controller.snapshot`: nothing is written without content, an ordinary snapshot
may only extend the file, a stale prefix adopts the file, a diverged transcript
goes to a recovery branch, which rebinds the checkpoints. `Compaction`,
`Summaries`, `Overlap`, `DeleteFails`, `CrashPoints` and `Scopes` switch parts of the
environment on; each run says which (no run sets `Overlap`, see section 7). A fork saves the session first, which may adopt
the file or move to a recovery branch, and cuts at a boundary read before that;
`ForkSession` opens the fork elsewhere, so here it only saves. `RewindUnknown` is a
rewind to a turn without checkpoint or boundary, which still restores the files of later
turns. `CrashAndResume` is a kill of the process
followed by `Resume`, with the repair of an interrupted turn.

### Approval

`pc` is where a tool call is in `requestApproval` or `Ask`: *queued* for `promptMu`,
*locked* (the second look at the posture is done), *waiting* on its channel,
*answered* (promptMu released, grant not recorded), *done*. `pending` is both
`a.approvals` and `a.asks`, `reply` the channel of capacity one, `gate` what the
executor's gate does with an unruled write, which `SetToolApprovalMode` replaces
some time after it changed `mode`. `canceler` is a `Cancel` between its three steps.
The kind of a call (`writer`, `ruled`, `trust`, `question`, `plan`) stands for its tool
and what the permission policy says of it: which kinds a posture, a session
grant or a window may answer is taken from `preApprovedForDecision`,
`drainLocked` and `grantSession`, which `Bypassed`, `Drained` and `Grantable` translate.
Subjects are left out: two calls of a kind share their session grant. A call launched
before a cancel may reach the gate after it.

### BotGateway

`dispatch` is where `handleMessage` is with the newest message; a connection
handles its messages one after another. `active`, `pending`, `dropped` are the maps of
`SessionManager` at one key. `turn[m]` is the goroutine that runs the batch whose
first message is `m`; `batch` holds the messages merged into it. `loose` are the turns
the controller started by itself because a steer came when nothing ran.
`built`, `canceler`, `cancelled`, `running`, `steers` are what the gateway knows and uses
of the controller. `fate` and `noted` are history. The debounce window of
`collect` is a free choice: the timer may or may not have run out. So is whether a
message has a text to steer with, once its media were fetched: without one it is queued. `Answer` is a
final answer, given only when no guidance is queued, `Abort` any other return.

### SessionSave

| variables | in the code |
|---|---|
| `file`, `meta` | the `.jsonl` of a path and its sidecar: revision and `InFlightTurn` |
| `locked` | the lock files of `lockSessionSavePath` |
| `slot`, `cur` | the `Session` objects of a controller, each with its log and `sessionPersistState`; the one its executor uses |
| `path` | `sessionPath` |
| `th` | the goroutine of the turn and the one of `autosaveWhileRunning`: where they are, and their locals |
| `left`, `next`, `saved`, `given` | what the scenario leaves; history |

One action is one access to a file or one assignment others can see: `Lock` is
`checkSnapshotWrite` under the lock, then `Write`, `Record`, `RecMerge`, `RecPut`,
`Persisted`; a stale verdict goes to `Load` and `Install` (`adoptDiskSession`), a
diverged one to `Branch`, `BranchFile`, `BranchMeta` (`SaveRecoveryBranch`). The
sidecar updates (`Read`, `Merge`, `Replace`) take no lock. `Exit` ends a process
at any step; the kernel frees its locks. A controller has one current `Session` and
each of its two goroutines may hold another, so four `slot`s always leave one free.
`was` in a thread's record is history: the baseline its save had when it took the lock.
`TranscriptStore` knows texts and who has seen which; `Seen` maps a controller to the
baselines of its sessions and of its saves under a lock, and to the texts it has loaded
and not yet installed. `Reuse` is what `SaveRecoveryBranch` does to a recovery file
that has grown since.

### Goals

`machine` holds the fields of `goalMachine`; `file` the goal-state file of each session
and `path` which of them `statePath` names; `open` says that a canonical todo or
project check is not done. `pc` is the turn's goroutine in
`runGoalLoopWithRawDisplay`; `commands` and `writing` are, for each front end's
goroutine, the rest of its command and the bytes it has built under the mutex and
not yet written. `Advanced` is `advance`: the judgement of the marker, the idle
reminder, the limit. `sent` and `raced` are history: what the model was told and
said, that the todos are as the end of the goal left them (`closed`), and whether two
writes were under way at once. A status, block or prompt the code leaves empty has a
name here (`"unset"`, `"none"`).

### Compaction and Transcript

`log` is the session's messages, with sizes in units of tokens at the ordinary ratio of
tokens to characters; `pc` and `asked` are the
turn; `latch` is `consecutiveCompacts`, `compactStuck`, `softCompactNoticed`; `usage` is
`lastUsage`; `taken` is the log a fold was planned on, and the ratio it was planned
with, while its summary is awaited, for the turn and for
`/compact`; `archived` are the messages in the archives, `newest` those that only the prune
before the fold put there; `small`, `dear`, `answered`, `streak` are history. The code
estimates: `TokPerChar` is the last reported usage over the size of the log *as it is
now*, within the bounds the code believes, and `Estimate` applies it to what is
pinned, kept and cut. So a log that was pruned or folded since the report counts for
more than it is, and a turn of a normal size may be taken for a long one; `dear` names
the turns folded at such a ratio. `Parts` is the plan of
`compact` (pinned head, kept middle, folded middle, tail) and `Maintained` the rewriting of
tool results; `LookUnder`, `LookStuck` and `LookOver` are `maybeCompact`. `Transcript` holds
`normalizeMessages` with its two uses, `Stored` at loading and `Wire` before a request.

### AgentLoop

| variables | in the code |
|---|---|
| `pc`, `cancelled`, `outcome`, `turns` | the goroutine of `runGuarded` and `Agent.Run`, its context, how it ended |
| `round` | the counters of `Run`: step, grace round, blocked and empty answers, stream recoveries, nudges, whether a tool was used |
| `batch` | the progress of `executeBatch` on each call of the reply |
| `segment` | the segment of the batch in hand, the `ranUntil` of `runParallel`, and the index given to `markCancelled` |
| `ledger` | the receipts of `evidence.Ledger`, for one file and one project check |
| `log` | the replies with calls in the session, and the results stored for them |
| `queue`, `held` | `steerQueue`; guidance between `Controller.Steer`'s look at `running` and `Agent.Steer` |
| `unsent`, `heard`, `landed` | history of the guidance |

A reply is one of a small set of lists of calls (*read*, *edit*, *check*, *signoff*).
`partitionToolCalls` cuts it into segments, a run of reads or one other call
(`IsSegment`); `NextSegment` takes the next one unless the turn was cancelled, `Launch`
starts the calls of the segment, at most `maxParallel` at once and none after a cancel, and
`SegmentDone` waits for those it started and cuts the batch off where a cancel left it.
The model has no guard that compares a call with the calls before it: the order is a
consequence (`ProviderOrder`). `Told` is what the texts of `markCancelled` make of the
batch, `EndBatch` stores all results at once. `NeedsRead` is
`staleAnchorEditBlock`, `Unready` is `finalReadinessCheck`, `Proven` is what
`complete_step` accepts.

### McpHost

| variables | in the code |
|---|---|
| `pc`, `mine`, `got` | each caller of `Host.Add`: the goroutine of a `lazySpawn`, or a user in `connectSpec`; its `spawnAttempt`; what `Add` returned |
| `spawning`, `spawns`, `result` | `Host.spawning` for this server, the attempts so far, what each published |
| `server` | the process of each spawn; *connected* is being in `Host.clients` |
| `closing` | `Host.closed`; *returned* when `Close` is over |
| `phase`, `stub` | `registerBackground` for a session: its spawn is kicked before its placeholders are placed; whether it had a cached schema |
| `registry`, `suspended`, `dropping` | the session's `tool.Registry` for this server; `disconnect` between `Remove` and `RemovePrefix` |
| `removed` | history |

`Add` is six critical sections: look (`Check`), claim or wait (`Claim`), look again
(`Start`), shake hands (`Connects`, `Fails`), publish (`EndSpawn`); a caller that waits
gets what the owner got (`Awaited`) or is cancelled, by `Close` or with its session
(`GivesUp`). `ToolsFor` of a connected server may fail or time out (`Toolless`): the
registry then stays as it is. The
swap of `lazySpawn.run` is `BgResolves` and `BgAdds`, registering by a user
`UserResolves` and `UserAdds`: between removing names and adding tools others step in.

## 4. Runs

Every run explores all behaviours within its bounds.

| run | bounds and switches | properties |
|---|---|---|
| `jobs_live` | 1 job, started in a session or unscoped, kills, drains, adoption, destroys, stall warnings, both ways to close, fair | `CompletionToldOnce`, `NaturalEndNoted`, `TeardownLeavesNoNote`, `DestroyWindowCloses`, `CloseReleasesTempRoot` |
| `ckpt_rewind` | 3 turns, 2 files (symmetric), 5 messages, rewinds of code and conversation, forks, crashes between and inside turns | `TypeOK`, `SoleWriterKeepsItsFile`, `RewindRestoresTurnStart`, `RewindCutsAtTurn` |
| `ckpt_compact` | 3 turns, 1 file, compaction, summaries, every scope, crashes anywhere, failing removals | `PromptsKept` |
| `approval` | 1 turn, 2 calls (writer, trust, plan), 1 request that changes the posture any number of times, with and without a deadline, fair | `OnePrompt`, `AnswerIsForItsCall`, `FreshDecisionIsTheUsers`, `WindowIsApproved`, `DeadlineFreesEveryCall` |
| `bot_queue` | 4 messages, 1 command, a queue of 2, every mode and way to drop, `/stop`, fair | `OneTurnUntilStopped`, `TurnsInOrder`, `QueuedMessageLeaves` |
| `session_shared` | scenarios: two processes with a rewind or a cancel, failing sidecar writes; one process with up to 4 messages, a rewind, a cancel, an exit at any step and a resume, or an exit, a cancel and an autosave | `TypeOK`, `SavedMessageSurvives`, `NothingSaidIsLost`, `SavesOwnWhatTheyReplace` |
| `goal_loop` | 1 goal, 1 reason, 1 front end with 2 commands, 2 sessions, limits of 3 turns and 2 idle turns, 1 crash, fair | `TypeOK`, `FileIsCurrent`, `GoalEndsForCause`, `LoopEnds` |
| `compaction` | 6 messages; user turns that are brief, of a normal size, or pasted; answers with none, one or two calls whose ids repeat; a tail of 2 messages or 12 tokens, restarts and failing archives, `/compact` between turns | `TypeOK`, `PairsSurvive`, `UserTurnsSurvive`, `NothingForgotten`, `PausesWhenUseless` |
| `agent_loop` | 1 turn of 2 rounds and a grace round, 2 replies of 3 calls and 1, 2 pieces of guidance, a cancel, fair | `ProviderOrder`, `ToldWhatRan`, `GuidanceIsHeard`, `RoundsBounded`, `TurnEnds` |
| `mcp_host` | 2 sessions that boot with or without a cached schema, the user of one of them, 2 spawns that may fail, `Close` at any time, fair | `OneServer`, `NoEscape`, `ToolsAreOfTheServer`, `NothingHangs` |

The type invariants of `Jobs`, `Approval`, `BotGateway`, `AgentLoop` and `McpHost` are
theorems and in no run; the other modules have theirs checked.

What they show, beyond the names: `session_shared` runs every save against every
other, file access by file access, and finds that what was ever on disk stays
there unless its user took it back, and that the lock with the digest and
revision check amounts to an atomic compare and write (`SavesOwnWhatTheyReplace` is
the specification `TranscriptStore`, under the mapping of `Seen`; proved for all values). `goal_loop` finds
that a goal ends only through what the model or the user did, within its limits,
and that the state file agrees with the machine when nothing is under way and no
two writes ever raced. `compaction` finds that no cut parts a call from its result
and that a user turn outlives every fold, word for word and in its place, if it is small at
every ratio the code believes; one that is small at the ordinary ratio outlives every fold
that is planned on a usage reported for the log as it is, and may be lost in others
(section 7; the run reaches such states). `agent_loop` finds that the
segments and the wait at the end of each keep calls in order, that guidance sent before the last look is heard in order and that a cancel never makes the
transcript lie about what ran. `mcp_host` finds that racing boots, connects and
failures never make a second process, that `Close` leaves none behind, that nobody
waits for ever, and that a session shows tools of a server that is gone only after a
user disconnected it.

Two more runs end in a counterexample; they are in section 7.

*Why the bounds are enough.* Every statement about jobs is about one job and the
session it belongs to, was adopted by or has none of, which one job in one session
exercises; the theorems of `JobsProofs` say the same of any number of jobs and
sessions, which interact through the note queue and the destroy windows.
Three turns are the least at which a rewind can hit a turn in the middle, with a
turn whose snapshots must survive and one whose snapshots must win; a second
file shows that a restore leaves what nobody touched. Two calls are a batch, the
second queues on `promptMu`; with a plan and a writer among them the window opens
and is used; the theorems cover any number. Four messages fill a queue of two
behind a running turn and displace one; cap, modes and drops are what the run
enumerates, and the theorems hold for any cap. Two processes are the least that
race for a file; three messages let each write once and one write again over what it
adopted. One process needs four for a rewind and a cancelled turn after it. A goal
limit of 3 lets a goal end by being blocked three times as well as by the limit.
Six messages are a prompt, a call pair, an answer and a second turn that is folded
around, with a digest already there; a normal turn, a long tool result pruned in
the same look as the fold, and what follows is the shortest way to a ratio that is too
high. The three sizes of a user turn are small at every ratio, small at the
ordinary one, and never small. Two rounds and the grace round reach every
end of a turn, a reply of three calls has a parallel segment and a serial one after it, and two
pieces of guidance show their order. Two spawns are a failure and a retry, or a spawn
under way and one that begins when it ended; two sessions and a user are three callers,
one that owns, one that waits and one that comes later. Again the theorems hold for
any number.

*Constraints.* `RewindLeavesContent` keeps `ckpt_rewind` from the rewind to
the first turn, which is never written to disk. `NotDivergent` keeps
`session_shared` from three kinds of states in which the code does lose messages: a
resume that takes the marker of a turn which finished, or which another process is
still running, for one of a turn that was cut (`ResumeIsGenuine`); an autosave overtaken
by the save of its own turn (`AutosaveIsCurrent`); and a recovery branch about to
replace a recovery file in which another runtime has gone on (`RecoveryFileIsUnused`; two
processes do not get there, three do). Section 7 describes them. `RewindLeavesContent` and
`NotDivergent` are hypotheses of the theorems too, and are used in runs without temporal
properties that need fairness. `CHECK_DEADLOCK FALSE` is set
everywhere: every one of these systems may come to rest, when its bounded
supply of jobs, turns or messages is used up.

*Fairness.* Weak fairness stands for the Go scheduler: a goroutine that can take
its next step eventually takes it. Beyond that:

- `Jobs`: a run function returns *once its context is cancelled*
  (`CtxDone(j) /\ Return(j)`), which is what `proc` does to a shell command and the
  contract of `StartForSession`; a job that is left alone may run for ever. Without it
  `Close` would wait for its grace period only, and the temporary root would stay.
- `Approval`: the deadline of a bounded wait passes, a call that has its reply takes
  it. Nobody is obliged to answer, cancel, or change the posture.
- `BotGateway`: the body of a turn returns. The gateway gives the prompts of its
  turns a deadline, 30 minutes unless configured (`approvalTimeout`); with the
  negative setting that turns it off, a turn nobody answers is not promised to
  end. The model endpoint and tools run under contexts. Messages and commands need not come.
- `Goals`: the turn's goroutine takes its steps: the model answers or fails, a file is
  written. Front ends are free. `LoopEnds` then says that a goal loop ends by itself,
  whatever the model answers.
- `AgentLoop`: a request comes back, a tool returns, both under the context of the
  turn; users need not send or cancel anything. The weak fairness is of all steps of
  the turn's goroutine together: `TurnEnds` does not rest on a tool being chosen over a
  failure, since each round uses up a counter.
- `McpHost`: the goroutines go on; a handshake ends, because a call without a deadline
  is given one (`contextWithCallTimeout`), and the deferred goroutines of `Close` are over
  once their calls are. Nobody has to boot, connect, disconnect or close, and nobody has
  to cancel a caller that waits: it returns because the owner publishes.
- `Checkpoints`, `SessionSave` and `Compaction` state no fairness: their properties are
  safety properties.

## 5. Proofs

Checked by TLAPS for every value of the constants; each rests only on the named
assumptions about constants, which the runs evaluate too.

**`JobsProofs`** (`MaxJobsAssumption`, `StartInAssumption`, `NoSessionAssumption`).
`DoneClosedImpliesSettled` (proved, in no run) and `CompletionToldOnce` are not inductive: that a note is
queued once follows from where the goroutine is. `NoteInv` adds `VerdictTaken` (a
goroutine past *decided* has a terminal verdict), `FreshIsFree` (numbers above `seq`
are unused), `UnrecordedIsUntold` (before *recorded* nothing exists about the job),
`RecordedIsNoted` (from then on the completion is queued, delivered or discarded)
and `EndIsPublished` (a natural end is visible only once published, and a published
job is not running). The theorems are
`TypeCorrect`, `SettledAndToldOnce`, `NaturalEndIsNoted`; `StatusIsFinal` is an action
property from the same invariant. `TeardownIsClean` needs `WindowInv`: a note is addressed
to the session its job was started in unless that was none (`NotesAreHome`), so
that while a window is open no note of its own jobs can come in, from a job or
from an adoption (`WindowIsClean`).

**`ApprovalProofs`** (`BoundsAssumption`, `KindsAssumption`). `PromptInv` says that
`promptMu` is held exactly by the call between *locked* and its reply (`Locked`), that
ids are unique and below `nextID`, that a pending entry belongs to a waiting call,
and that a call with a reply has no entry any more. From it follows one prompt at
a time (`OnePromptAtATime`). `AnswerInv` adds that a posture's answer is only on its
way to an ordinary tool permission and that only grantable kinds are granted,
which gives `AnswersReachTheirCall` and `AnswersAreTheUsers`. `WindowInv` adds to `WindowIsApproved` that the approved plan's call is over, so
that no later step changes its outcome: `WindowWasApproved`.

**`BotProofs`** (`BoundsAssumption`, `CapAssumption`). `TypeInv` bounds the queue.
`FreshInv`: a message nobody has decided on is in no queue and no batch, and one
orphaned by `ReplacePending` never gets there. `QueueInv`: a queue that is not empty
belongs to an active session. `LooseInv` separates the turns the controller started
from the ones that own the lock. `LockInv`: up to the first `/stop`, a goroutine that
will release implies the active flag, hence `OneTurnAtATime` and `LockIsNotLost`.
With these, `MessagesInOrder` and `SummariesAreTold` are inductive. Facts about
`Tail`, `Append` and the three ways to enqueue are lemmas at the top; the step
lemmas have one case per action, and an action that leaves a conjunct's variables
alone is dispatched by a `...Same` lemma.

**`AgentLoopProofs`** (`AgentLoopAssumption`). `TypeInv` joins what each step
disturbs: where the loop stands decides whether the turn has an outcome (`PlaceInv`);
counters stay within their limits, and strictly below the ones that end a turn while
the loop goes on (`RoundInv`); the batch in hand is that of the last reply, whose
results are not written yet (`BatchInv`); the segment in hand divides the batch (`SegmentInv`): what is
before it has ended, it is one call or a run of reads, of which those before `ran` were
launched, and nothing behind is touched; a batch that was cut off has nothing in
flight, and is cut at the first call not launched; the queues and the ledger are typed.
It gives `TypeCorrect`, and `CallsInOrder` follows from it (`SegmentsKeepOrder`): two calls
that are out of order would have to be in one segment. `SegmentStarts`, `OneCallGoesOn` and
`SegmentEnds` keep it. With it
`TranscriptIsTrue` and `GuidanceReachesModel` are inductive as they
stand: their steps are split into those that leave the batch alone (`Elsewhere`,
`Beside`), a reply, a call that goes on and the end of a batch.
`RoundsAreBounded` needs `StepInv`: the replies of the turn whose calls were carried
out are at most the steps counted, and a batch is only begun below the limit and
before the grace round, which asks but carries nothing out.

**`McpHostProofs`** (`McpHostAssumption`). `ClaimInv`: the spawn under way has exactly one
owner, which is where the claim is taken, held or published. `ProcessInv`: a process
that starts is its owner's, in the handshake, and nothing is connected meanwhile;
hence one process (`ServerIsShared`). `CloseInv` needs that a session has no background
goroutine before it boots (`BootInv`) and gives, with `ProcessInv`, `NobodyEscapes`.
`ToldInv` follows a result from the owner through those that wait for it to the
registries, as long as nothing connected was removed: `ToolsAreTrue`. The steps of
`Add` are split by action; those of a session are dispatched by two lemmas
(`SessionStep`, `RegistryStep`) that say what such a step has to show.

**`GoalsProofs`** (`GoalsAssumption`, `TurnIsNoFrontend`). `TypeInv` holds every machine,
every file and every image under way below the limits while its goal runs
(`Running`), because a restart may take up any of them. `AdvancedFacts` says what one
judged turn makes of a machine, from a lemma for each of its three parts. `CauseInv`
follows what the model was told from the count of its claims (`ToldTodos`, `ToldCheck`:
a counted claim has begun a turn with the list, or is about to), and bounds the count
of blocks by the turns that ended with the reason, in the machine, in every file and
in every image (`ReasonInv`): hence `EndsForCause`. `WrittenInv` says that, up to the
first overlap, the one image that is built, or else the file, is current
(`BuiltIsCurrent`), and that the commands under way name other sessions
(`Elsewhere`): hence `FileIsKept`. The attempt to prove an earlier `FileIsCurrent`,
without `sent.closed`, failed for a reason: see *Goals* in section 7.

**`SessionSaveProofs`** (`ScenarioFields`). `TypeInv` types every file, sidecar, `Session`
and thread record. `LockInv` is why the check may be trusted: a thread between `Lock` and
the end of its save holds the lock file of its path (`LockHeld`), no two such threads
share a path (`LockAlone`), and so (`WritesOK`) what `checkSnapshotWrite` found is still
true when the file is replaced, and what was written is still on the file when it
becomes the baseline; a recovery branch not yet written is headed for the path named by
its text. From the two, `TypeCorrect`. `SavesReplaceOnlyWhatTheySaw` is the step
simulation: a save, or the file of a recovery branch, maps to `Extend`, `Rewrite`,
`Create` or `Reuse` (`StorePut`), a step after which a controller knows something it has
just read or written maps to `Observe` (`Observes`, `BaselineGained`, `NothingLearned`),
any other to a stutter or to the client forgetting. An action is proved by what it
moves: one thread and nothing else (`CalmOnly`, `ThreadOnly`), a lock taken or given back
(`TakeMove`, `ReleaseMove`), a log (`ControllerMove`), both threads of a process
(`BothMove`). Lemmas at the top say what each `EXCEPT` makes of a record; `LeastNumber`
gets the least element of a set of numbers from the well-foundedness of finite
subsets, because the library states induction with an operator parameter.

`SavedMessagesSurvive` and `NothingIsLost` hold for any number of runtimes and any scenario
under `[]NotDivergent`; each of its three parts is needed, TLC refutes
`SavedMessageSurvives` without it (`ResumeIsGenuine` on the instance of `session_shared`,
the other two on larger ones: two runtimes with six messages and autosaves, three
runtimes). A message may leave a file only when a save replaces what is there by a
text that is no extension of it. So the invariant, `Kept`, says what covers what. The turn
of a runtime saves exactly the log it has now (`TurnOK`); an autosave never rewrites and
saves no more than the log of its `Session` holds, or than the user gave up since (`AutoOK`);
a baseline is covered by the log of its `Session` in the same way (`Bases`). A rewrite
replaces its own baseline (`Verdict`), hence a text its log covers, and this stays
true until the lock is given back (`TextOK` at *write*, from `LockInv`). What a runtime is about to
install has been saved (`TextOK` at *install*), and what its log holds beyond that belongs to
a turn that is not over or to the save at its end (`Unsaved`): adopting a file, exiting
and resuming lose nothing else. That a transcript begins with a prompt (`Openings`) is why
a log that is not on disk is never found needless by `SaveRecoveryBranch`. `Kept` was checked by
TLC on the instance of `session_shared`, and by simulation with three runtimes, before it
was proved; that simulation is what found `RecoveryFileIsUnused`. The steps go by what they
move, as above: one thread (`CalmKept`), a file (`PutKept`), a baseline (`PersKept`),
a log (`LogKept`), a `Session` (`InstallKept`), a whole runtime (`ExitKept`, `ResumeKept`).

**`CheckpointsProofs`** (`BoundsAssumption`, `ScopesAssumption`).
`TypeInv` bounds the logs and keeps the store's turns, in memory and on disk, below the
turns begun; it needs that memory holds no checkpoint the disk lacks, and gives `TypeCorrect`
for every switch but `Compaction` (a fold selects messages, which is induction over data).
The other three assume `Undisturbed`: rewinds of code and conversation that run to their end
outside of a turn, no summaries or compactions, removals that succeed. None of this can be
dropped: TLC refutes `RewindRestoresTurnStart` without any one of them (section 7 tells how).
The heart is `Intact`: of every turn a rewind may still go to, each file was not touched
since and is as it was, or its earliest snapshot since is that. The lemmas named after it say that
opening a checkpoint, a first touch, an edit behind one, a rewind's writes and its
truncation keep it so. What they rest on is `StoreInv` (memory, disk and boundaries agree,
turns are numbered without a gap, boundaries and epochs ascend) and `CurrentInv` (a turn
snapshots into the latest checkpoint); that no turn loses its checkpoint in the middle is
`RunInv`: the file is a prefix of the log that reaches to the turn's start, or was left behind by
a rewind to the system prompt and then holds nothing of this turn, so that an autosave never
adopts it. `LogInv` keeps every boundary within log and file, also across a crash and the
strip of an interrupted turn. Hence `RewindRestores`. `SoleInv` adds that the file is a prefix
of the log and that a boundary divides the log at its turn; this needs `RewindLeavesContent`,
as in the run, which `RewindCuts` and `SoleFileIsKept` have as a hypothesis.

**Left to TLC.** Liveness under fairness, and anything with `ENABLED`, is beyond
TLAPS: all `~>` properties. So are facts by induction over data, such as what
a fold selects: `PromptsKept`, and `Checkpoints` with `Compaction`, are model-checked.
So is the module `Compaction`, whose invariants relate filtered and folded
sequences. `TurnEnds` and `NothingHangs` are model-checked only.
`TerminalStatusFinal`, `DoneClosedImpliesSettled`, `PendingIsAwaited`, `LockHasHolder` and
`DroppedIsNoted` are proved and therefore in no run.

## 6. Abstractions

Left out everywhere: texts, formatting, events and their wire encodings, metrics,
time other than the order of events, and what a model or a shell command does
(a free choice). The sink is called one event at a time, as its contract says.
Replacing a file (`fileutil`'s write and rename) is one step that does not fail,
except where a switch says so. Not modelled in the modelled components:

- `Jobs`: output buffers, artifact files and their offsets; the grace period of
  `CloseWithGrace` (`RemoveTempRoot` is the background removal that follows it too).
- `Checkpoints`: encodings, path-escape checks, failing writes during a restore; a
  second process on the same transcript; the lease.
- `Approval`: the guardian's verdict, prefixes trusted in plan mode, rules written
  to the configuration, the memory tools' prompts.
- `BotGateway`: `/new`, `/use` and other commands that change the runtime of a session
  (workspace, model, attached file), so that `getOrCreateSession` never rebuilds a controller; approvals and questions over chat; pairing, allow-lists, reactions.
- `SessionSave`: the system message, the version counter that spares a save of nothing
  new, synthetic turns, compaction and deletion; a rewind to the system prompt alone.
  A controller reads its own path, session and log in one step, and has one autosave
  in flight. A transcript that cannot be read or written (the save fails, what was said
  stays in memory only), a sidecar that cannot be read (taken for revision 0, and not
  written, `save.go:440-442`), and an `onSessionRecovered` that fails (the recovery file is
  there, the session stays at its path and meets the conflict again,
  `controller.go:2756-2760`). `EnsureBranchMeta` creates a missing sidecar within the update that asks
  for it. The session lease is taken by no code but tests.
- `Goals`: plan mode and the AutoResearch task a goal may carry; reasons are
  normalised already. `Cancel` is one step; a session is switched between turns.
- `Compaction`: the usage an answer reports is that of its prompt at the ordinary
  ratio, so no estimate is too high but by a log that shrank; which mark of the window it passes
  is free. Archives of one millisecond do not collide in the runs (`Collide`), and there
  is a directory for them (`ArchiveDir`). A provider without a window compacts on demand
  only and is left out. The keep policy is a flag of a message; a summary and the mechanical marker that stands in for
  it are both a digest. `SummarizeFrom` and `SummarizeUpTo` are in `Checkpoints`.
- `Transcript`: the repair of empty names and truncated arguments.
- `AgentLoop`: messages other than replies with calls, compaction, todo lists, the
  loop guards (repeated calls, repeated success, reads without progress), trust in plan
  mode. Gate and hooks are a free refusal. There is one file and one check, and
  background commands are left out. A `Steer` when nothing runs begins a turn.
- `McpHost`: one server with one tool; failures, prompts, resources, statistics and the
  schema cache's contents; eager starts and `StartAll`; a placeholder that is called
  (its spawn is kicked already, so it only waits). A user's `ResumePrefix` and
  `RemovePrefix` are one step. A session's end and its context.

## 7. Where code and documentation disagree

Two counterexamples are kept as runs; each checks the one property a comment
or document states.

| run | property | what happens |
|---|---|---|
| `compact_overlap` | `UserTurnsSurvive` | `/compact` takes no turn: a prompt sent while its summary is awaited, and what is answered, are not in the log that replaces the session's (`compact.go:279` against `docs/SPEC.md:236-239`). |
| `agent_signoff` | `SignOffIsProven` | A step is signed off by a check of the same reply that failed, was refused or never ran: the transcript handed to `complete_step` holds the call and no result yet, which counts as success (`agent.go:2254` against `completestep.go:293-294`). |

Others were met while modelling. Where a model has the steps, it has the
behaviour too; no property of a run claims the opposite.

*Jobs.*
- A job started before its session had a path is adopted while it runs; its goroutine
  still notes the completion under the empty session, and no scoped drain finds it
  (`jobs.go:338` against 834-835).
- A kill publishes `Killed` at once (`jobs.go:688`), so "an observed terminal status
  implies the note is already queued" (336-337) is true of natural ends only:
  `NaturalEndNoted` says just that, and `DoneClosedImpliesSettled` what holds of all.
- A stall warning decided before the job ended may be queued after it (480, 538).
- A job started in a session that is being destroyed is not refused and outlives
  the window.
- `wg.Add` follows the unlock (273), so the ordering that the comment of
  `CloseWithGrace` relies on (1299-1302) has a gap. `WaitGroupIdle` has it.
- `serve` closes the destroy window before it removes the session's files
  (`serve.go:1125-1155`).
- Without an artifact file the read offset is compared with a tail cut at 64 KiB
  (`jobs.go:592`, `artifacts.go:99`): once it is full, new output is not read.

*Checkpoints.*
- A rewind to the first turn leaves only the system prompt, which `snapshot` does not
  write: the file keeps what was taken back (`controller.go:2647`).
- A compaction saved by an ordinary snapshot is no extension of the file and is taken
  for a diverged transcript: the session moves to a recovery branch though nobody
  else wrote (`serve.go:556`, `chat_tui.go:1379` against `save.go:119-120`).
- `Rewind` reads `Running` once (2182); with a turn that starts after it (`Overlap`)
  `PromptsKept` fails, and the truncation may take a new turn's checkpoint with it. A crash
  between the files and the truncation leaves checkpoints of turns the files forgot.
- Summarizing drops the boundaries in memory; the checkpoint files keep theirs and a
  restart brings them back (`controller.go:2496-2498`, `control/checkpoint.go:42-45`).
  A compaction leaves even those in memory (`controller.go:2203`). With either,
  `RewindCutsAtTurn` fails, so the run of it has neither.
- A conversation-only rewind discards the file snapshots of the turns it removes
  (2209), a later code rewind to an earlier turn then misses them; see
  `docs/CHECKPOINTS.md:91-92`. A code-only rewind keeps those of later turns, which
  begin from another workspace now. `RewindRestoresTurnStart` is checked, and proved,
  with the scope "both".
- A `Rewind` that finds no boundary has already restored the files (2198).
- After a compaction inside a turn, a cancel strips by an index into the old log
  (2862), and the final save is skipped when the log is no longer than at the start
  (2911).
- A checkpoint file whose removal fails is loaded by the next process
  (`checkpoint.go:254-260`).

*Approval.*
- `Cancel` reads the cancel function, unlocks and then clears the prompts: of the next
  turn, if one began in between, whose call then waits under an id nobody can answer
  (`controller.go:1351`). `AnswerIsForItsCall` says what still holds.
- A switch to yolo between a call's second look at the posture and its registration
  (4148-4154) leaves a prompt that a posture of yolo would not have shown.
- A grant for the session is recorded after `promptMu` is released (4111-4112), so
  the next call in the queue may be asked for the same thing.
- Two changes of posture at once may leave the gate of one with the mode of the
  other (3518-3520). The run has one requester; `Setters` allows more.
- A call that queues on `promptMu` does not watch its context (4143): after a
  cancel it still registers, and emits, a prompt it abandons at once.
- At the deadline `select` may prefer the timeout to an answer that has arrived.
- Under auto, `drainLocked` answers a pending prompt of the memory tools, for which
  the auto gate asks (`approval.go:126-128`, `controller.go:1442`).

*BotGateway.*
- The turn releases between `IsActive` and `ReplacePending`: the session is marked
  active for a message nobody runs, and every later one is queued (`gateway.go:605-619`).
- `/stop` frees the session while its turn unwinds (1093-1101): a second turn may run
  beside it, and the first one's `Release` then frees the second one's lock. Hence
  "until stopped" in `OneTurnUntilStopped`.
- A steer between `IsActive` and `RunTurn`, or after the turn, becomes a turn of the
  controller's own, outside the session lock: it may vanish, or make the queued
  turn fail with `ErrTurnRunning` (682, 625-628). Guidance accepted after the last
  look at the queue (`agent.go:1101`) is cleared. `fate` records each.
- `state.cancel` belongs to whichever turn stored it last (686-696): an interrupt while
  the next turn starts cancels nothing.
- A prompt that timed out stays in `pendingAsks`, and the next plain message is taken
  for its answer (`gateway.go:588`, 1044-1054).

*SessionSave.* With the first three, `session_shared` without its constraint loses messages;
with the fifth, three runtimes do.
- The autosave's read, merge and replace of the sidecar may put back the in-flight
  marker the end of the turn has cleared (`branch.go:370-387`, 189-207: only the
  revision is merged). A later resume takes the finished turn for one that was cut and
  strips its answer.
- A second process that resumes a session whose turn is running takes the live
  marker for a crashed turn's.
- An autosave overtaken by the save of its own turn finds a longer file, adopts it and
  replaces the `Session` a tool batch is appending to (`controller.go:2619-2622`).
- The marker is set and cleared at the path of the moment (`controller.go:2801`), which a
  conflict in between has changed: the old path keeps its marker.
- A recovery file is named by a digest of the text it was made of; when that text comes
  up again, what was appended to the file since is replaced (`save.go:309-333`). Two
  runtimes with the same diverging text branch to the same path; the first goes on there,
  and the second replaces the file by the text both began with. `SavedMessageSurvives`
  then fails, in TLC with three runtimes, or two of which one exits and comes back; the
  scenarios of `session_shared` do not get there. The proof of the refinement needs `Reuse`
  for it, that of `SavedMessagesSurvive` the hypothesis `RecoveryFileIsUnused`.
- `UpdateSessionMeta` writes without the lock and can put an older revision back: the
  next save takes the file for somebody else's and moves to a recovery branch.

*Goals.*
- Bytes built under the mutex are written after it, in any order (`goal.go:50-51`,
  320-321): an older state may be what stays. Hence `raced` in `FileIsCurrent`.
- A turn with `[goal:continue]` or no marker resets the idle count (252) before the check
  that reads it: such turns never get the reminder
  `docs/GOAL_ENFORCEMENT.zh-CN.md:13` describes. The model resets it too.
- A `[goal:blocked]` turn between two claims does not reset the count of intercepts.
- A goal stays through `NewSession`, `ClearSession`, `Resume` and `SwitchBranch`, though
  `docs/SPEC.md:359` and `goal.go:140` call it session-scoped; `Resume` restores a running
  goal from the file, `SwitchBranch` does not.
- A turn refused by a hook is judged by the previous answer's marker.
- A goal set while a turn of an earlier one runs is completed by that turn's
  `[goal:complete]` (`turn_orchestrator.go:226-256`).
- A cancel after the failed turn looked at its context leaves the goal running.
- A plain turn after the goal is complete leaves the finished goal's file as it was, and
  when it is cancelled `stopGoal` writes the finished goal again with that turn's open
  todos (`controller.go:682`, `goal.go:170-180`): a resume of the session
  takes either for what the goal left. Hence `closed` in `FileIsCurrent`.
- The todos are read before the machine's lock is taken; the model reads them with it.

*Compaction.*
- "A fact the user states in a normal-sized turn is kept verbatim and is never summarized
  away" (`docs/SPEC.md:236-239`) holds of turns the code takes for normal-sized. The limit
  is in tokens, which it estimates by the last usage over the present log
  (`compact.go:387-395`, 580-589). A prompt past the force mark is pruned and folded in one
  look, and `/compact` may follow a fold before a new usage is known: the log has
  shrunk, the ratio is up to 2 tokens to a character, eight times the ordinary one, and a
  turn of 750 characters or more is over the limit of 1500 tokens and is folded, where
  up to 6000 should be kept. `compaction` reaches this; its `UserTurnsSurvive` excepts the turns in
  `dear`, and says that no turn is among them which is small at every ratio.
- Archive files are named by the millisecond (`compact.go:738`): a fold in the same
  millisecond as the prune before it overwrites the originals that one archived. With
  `Collide`, `NothingForgotten` fails after six steps.
- Without a plan, a prune falls back on everything but the last messages
  (`prune.go:55-65`), results just produced included.
- A prompt in the snip band, or the one that shows the notice, resets neither latch nor
  count (`compact.go:110-112`), and a `compact` that folded nothing counts as one.
- The soft notice is shown once in the life of an agent (`agent.go:370`).
- The retry with a minimum of one message (`compact.go:207-212`) folds sessions the
  comment at 566-568 calls too small.
- A cancel while a summary is awaited folds with the mechanical marker.

*AgentLoop.*
- Guidance queued after the last look, while `maybeCompact` runs, is cleared by `Run`;
  guidance whose sender saw the turn running and queues after it returned goes to the
  next turn.
- On the last step, a final answer with guidance waiting, or one that is sent back, ends
  the turn as paused without a grace round, and drops the guidance.
- The grace round stores a reply with calls and no results; loading repairs it.
- A read in the same reply satisfies the stale-read guard: the model had not seen
  its result when it wrote the edit.
- `rebuildTodoState` applies a `complete_step` that precedes the `todo_write` of its
  message (`agent.go:1408`); "cancelled:" and "[no result:" count as success for it (1440).
- A check started in the background counts as passed when it starts.

*McpHost.*
- A disconnect while a handshake is under way finds no client; when it ends, the swap
  (or the registration of a caller that was just handed the tools) shows the server
  again, against "Its tools vanish next turn" (`controller.go:3395`): the condition on
  `removed` in `ToolsAreOfTheServer`. A hidden server is protected (`SuspendPrefix`), a
  disconnected one is not.
- The spawn is kicked before the placeholders are registered (`boot.go:471-478`): a fast
  start leaves a placeholder over its tool, or a stub that no swap will remove.
- On a shared host an eager start passes its five-second context as the life of the
  process and then cancels it (`boot.go:412-414` against `plugin.go:769-771`); eager
  starts are not modelled.
- `ErrSpawningInFlight` is documented as what `Add` returns (`plugin.go:674-675`) and handled
  by its callers, and is never returned: `Add` waits.
- A caller whose start failed records the failure after another one has connected.

*Elsewhere* (for the modules to come): frames dropped for a slow subscriber
(`broadcaster.go:39`), calls of a hung MCP server that queue without looking at their context
(`transport_stdio.go:469`), an ACP cancel handled before the prompt it follows
(`acp/server.go:212`), a dead language server returned from the table
(`lsp/manager.go:132`), sub-agent locks that another process does not see
(`subagent_store.go`).
