---------------------------- MODULE Checkpoints ----------------------------
(***************************************************************************)
(* Checkpoints and rewind: the per-turn file snapshots of                  *)
(* internal/checkpoint, the turn numbers and message boundaries that       *)
(* control/checkpoint.go keeps beside them, and the Controller operations  *)
(* that move files, message log and boundaries together: a turn that edits *)
(* files, autosaves and may be cancelled; Rewind; Fork; Summarize; the     *)
(* compactions that rewrite the log; a crash and the Resume after it.      *)
(*                                                                         *)
(* One session has one writer here.  A message is the turn it belongs to   *)
(* (a ghost number, never reused) and the part it plays in that turn; the  *)
(* text is left out.  A file's content is a model value.                   *)
(***************************************************************************)
EXTENDS Integers, Sequences, Functions

CONSTANTS
  Paths,       \* files the writer tools can touch
  Contents,    \* what a file can hold
  Absent,      \* the content of a file that does not exist
  NoPath,      \* no edit is under way
  MaxTurns,    \* bound: turns begun over the whole behaviour
  MaxLog,      \* bound: messages in the log
  Targets,     \* turn numbers a user may rewind, fork or summarize at
  Scopes,      \* rewind scopes a user may ask for
  CrashPoints, \* where the process may die: "idle", "turn", "rewind"
  Compaction,  \* the context window fills up, or the user asks /compact
  Summaries,   \* the user summarizes from or up to a turn
  Overlap,     \* a turn may start while Rewind is at work
  DeleteFails  \* removing a checkpoint file may fail

ASSUME PathsAssumption == NoPath \notin Paths
ASSUME ContentsAssumption == Absent \notin Contents
ASSUME BoundsAssumption == MaxTurns \in Nat /\ MaxLog \in Nat \ {0}
ASSUME TargetsAssumption == Targets \subseteq Nat
ASSUME ScopesAssumption == Scopes \subseteq {"code", "conversation", "both"}
ASSUME CrashAssumption == CrashPoints \subseteq {"idle", "turn", "rewind"}
ASSUME SwitchesAssumption == {Compaction, Summaries, Overlap, DeleteFails} \subseteq BOOLEAN

VARIABLES
  files,      \* the workspace
  touching,   \* the path whose snapshot is taken and whose edit is not yet done
  log,        \* Session.Messages
  savedLog,   \* the transcript on disk, <<>> when there is no file
  branch,     \* how many times the session was moved to a recovery branch
  marker,     \* InFlightTurn.StartMessageIndex in the session's meta file
  phase,      \* where the turn is
  start,      \* startMessages of the running turn
  next,       \* checkpointManager.turn
  bound,      \* checkpointManager.bound
  current,    \* the turn of Store.cur
  ckpts,      \* Store.done and Store.cur, by turn
  disk,       \* the turn-N.json files
  rewind,     \* the Rewind call in progress
  epochs,     \* ghost: turns begun so far
  startFiles  \* ghost: the workspace at the start of each of them

sessionVars == <<log, savedLog, branch, marker>>
turnVars == <<phase, start, touching>>
managerVars == <<next, bound>>
storeVars == <<current, ckpts, disk>>
ghostVars == <<epochs, startFiles>>
vars == <<files, sessionVars, turnVars, managerVars, storeVars, rewind, ghostVars>>

Role == {"system", "prompt", "work", "digest"}
Message == [epoch : 0..MaxTurns, role : Role]
Content == Contents \cup {Absent}
Workspace == [Paths -> Content]
Phase == {"idle", "asked", "working", "done", "cancelled"}
NoTurn == -1
NoBoundary == -1
NoMarker == -1

Idle == [step |-> "idle", turn |-> NoTurn, scope |-> "code", boundary |-> NoBoundary]
Rewinds == [step : {"idle", "checked", "restored", "cut", "truncated"},
            turn : {NoTurn} \cup Nat,
            scope : {"code", "conversation", "both"},
            boundary : {NoBoundary} \cup Nat]

SystemPrompt == [epoch |-> 0, role |-> "system"]

Init ==
  /\ files \in Workspace
  /\ touching = NoPath
  /\ log = <<SystemPrompt>>
  /\ savedLog = <<>>
  /\ branch = 0
  /\ marker = NoMarker
  /\ phase = "idle"
  /\ start = 0
  /\ next = 0
  /\ bound = <<>>
  /\ current = NoTurn
  /\ ckpts = <<>>
  /\ disk = <<>>
  /\ rewind = Idle
  /\ epochs = 0
  /\ startFiles = <<>>

-----------------------------------------------------------------------------
\* The store: turn -> [index, epoch, files], files mapping a path to its
\* content at its first touch in the turn.

Put(f, k, v) == [x \in DOMAIN f \cup {k} |-> IF x = k THEN v ELSE f[x]]
Before(f, t) == Restrict(f, {k \in DOMAIN f : k < t})

\* One past the highest turn of store d.
NextTurn(d) ==
  IF DOMAIN d = {} THEN 0
  ELSE 1 + CHOOSE t \in DOMAIN d : \A u \in DOMAIN d : u <= t

Bounds(d) == [t \in DOMAIN d |-> d[t].index]

\* The turns at or after t that snapshotted p.
Touched(d, p, t) == {u \in DOMAIN d : u >= t /\ p \in DOMAIN d[u].files}

\* Mutant: the latest snapshot of a file is restored.
RestoredLatest(d, t) ==
  [p \in Paths |->
     LET touched == Touched(d, p, t)
     IN IF touched = {} THEN files[p]
        ELSE LET u == CHOOSE u \in touched : \A w \in touched : u >= w
             IN d[u].files[p]]

\* The earliest snapshot of every touched file wins; others stay as they are.
Restored(d, t) ==
  [p \in Paths |->
     LET touched == Touched(d, p, t)
     IN IF touched = {} THEN files[p]
        ELSE LET u == CHOOSE u \in touched : \A w \in touched : u <= w
             IN d[u].files[p]]

\* checkpointManager.rebind on a session whose checkpoint directory holds d.
Rebind(d) ==
  /\ next' = NextTurn(d)
  /\ bound' = Bounds(d)
  /\ current' = NoTurn
  /\ ckpts' = d
  /\ disk' = d

-----------------------------------------------------------------------------
\* Saving: Controller.snapshot over Session.SaveSnapshot and SaveRewrite.

HasContent(l) == \E i \in 1..Len(l) : l[i].role # "system"

\* Mutant: an unchanged log is not taken for its own prefix.
IsProperPrefixOf(l, m) == Len(l) < Len(m) /\ \A i \in 1..Len(l) : l[i] = m[i]

IsPrefixOf(l, m) == Len(l) <= Len(m) /\ \A i \in 1..Len(l) : l[i] = m[i]

\* Whether the log l may replace the file: a rewrite may, being the file's only
\* writer; an ordinary snapshot only appends.
MayWrite(l, rewrite) == rewrite \/ IsPrefixOf(savedLog, l)

Save(l, rewrite) ==
  IF ~HasContent(l)
  THEN log' = l /\ UNCHANGED <<savedLog, branch, marker, managerVars, storeVars>>
  ELSE \/ /\ MayWrite(l, rewrite)
          /\ log' = l
          /\ savedLog' = l
          /\ UNCHANGED <<branch, marker, managerVars, storeVars>>
       \/ /\ ~MayWrite(l, rewrite)            \* stale prefix: adopt the file
          /\ IsPrefixOf(l, savedLog)
          /\ log' = savedLog
          /\ Rebind(disk)
          /\ UNCHANGED <<savedLog, branch, marker>>
       \/ /\ ~MayWrite(l, rewrite)            \* diverged: a recovery branch,
          /\ ~IsPrefixOf(l, savedLog)         \* with no checkpoints of its own
          /\ log' = l
          /\ savedLog' = l
          /\ branch' = branch + 1
          /\ marker' = NoMarker
          /\ Rebind(<<>>)

-----------------------------------------------------------------------------
\* A turn.

Running == phase # "idle"

\* Mutant: the boundary is taken after the user message is appended.
AfterPrompt == Len(log) + 1

\* The turn's message count, and rewind boundary, before its first message.
StartMessages == Len(log)

\* runGuarded takes the running flag; the turn opens its checkpoint before the
\* user message is appended.
BeginTurn ==
  /\ ~Running
  /\ Overlap \/ rewind = Idle
  /\ epochs < MaxTurns
  /\ epochs' = epochs + 1
  /\ startFiles' = Append(startFiles, files)
  /\ phase' = "asked"
  /\ start' = StartMessages
  /\ next' = next + 1
  /\ bound' = Put(bound, next, StartMessages)
  /\ current' = next
  /\ ckpts' = Put(ckpts, next, [index |-> StartMessages, epoch |-> epochs + 1, files |-> <<>>])
  /\ disk' = Put(disk, next, ckpts'[next])
  /\ UNCHANGED <<files, touching, sessionVars, rewind>>

\* A UserPromptSubmit hook refuses the prompt: nothing was appended.
Blocked ==
  /\ phase = "asked"
  /\ phase' = "done"
  /\ UNCHANGED <<files, sessionVars, start, touching, managerVars, storeVars, rewind, ghostVars>>

Append1(role) ==
  /\ Len(log) < MaxLog
  /\ log' = Append(log, [epoch |-> epochs, role |-> role])

\* The turn is marked in flight and the agent appends the user's prompt.
Ask ==
  /\ phase = "asked"
  /\ Append1("prompt")
  /\ marker' = start
  /\ phase' = "working"
  /\ UNCHANGED <<files, savedLog, branch, start, touching, managerVars, storeVars, rewind, ghostVars>>

\* An assistant message or a tool result.
Work ==
  /\ phase = "working"
  /\ Append1("work")
  /\ UNCHANGED <<files, savedLog, branch, marker, turnVars, managerVars, storeVars, rewind, ghostVars>>

\* The pre-edit hook: Store.Snapshot keeps the first touch of a path per turn.
KeepsSnapshot(p) == current # NoTurn /\ p \notin DOMAIN ckpts[current].files

PreEdit(p) ==
  /\ phase = "working"
  /\ touching = NoPath
  /\ touching' = p
  /\ IF KeepsSnapshot(p)
     THEN /\ ckpts' = [ckpts EXCEPT ![current].files = Put(@, p, files[p])]
          /\ disk' = Put(disk, current, ckpts'[current])
     ELSE UNCHANGED <<ckpts, disk>>
  /\ UNCHANGED <<files, sessionVars, phase, start, managerVars, current, rewind, ghostVars>>

\* The writer tool runs; it may fail and leave the file alone.
Edit(c) ==
  /\ touching # NoPath
  /\ files' = [files EXCEPT ![touching] = c]
  /\ touching' = NoPath
  /\ UNCHANGED <<sessionVars, phase, start, managerVars, storeVars, rewind, ghostVars>>

\* autosaveWhileRunning ticks until the turn's context ends.
Autosave ==
  /\ phase \in {"asked", "working", "done"}
  /\ Save(log, FALSE)
  /\ UNCHANGED <<files, turnVars, rewind, ghostVars>>

\* The run returns; the in-flight marker goes before the deferred save.
Finish ==
  /\ phase = "working"
  /\ touching = NoPath
  /\ marker' = NoMarker
  /\ phase' = "done"
  /\ UNCHANGED <<files, log, savedLog, branch, start, touching, managerVars, storeVars, rewind, ghostVars>>

\* stripCancelledVisibleTurnMessagesAfter: the messages before idx and the first
\* prompt after them.  replaceSessionAfterCancel writes the result itself.
Prompts(l, idx) == {i \in (idx + 1)..Len(l) : l[i].role = "prompt"}

Strip(l, idx) ==
  IF Len(l) <= idx THEN l
  ELSE IF Prompts(l, idx) = {} THEN SubSeq(l, 1, idx)
  ELSE LET i == CHOOSE i \in Prompts(l, idx) : \A j \in Prompts(l, idx) : i <= j
       IN Append(SubSeq(l, 1, idx), l[i])

Cancel ==
  /\ phase = "working"
  /\ touching = NoPath
  /\ log' = Strip(log, start)
  /\ savedLog' = IF Len(log) <= start THEN savedLog ELSE log'
  /\ marker' = NoMarker
  /\ phase' = "cancelled"
  /\ UNCHANGED <<files, branch, start, touching, managerVars, storeVars, rewind, ghostVars>>

HasNewMessages == Len(log) > start

\* The deferred snapshotActivityIfChanged, after which running is cleared.
EndTurn ==
  /\ phase \in {"done", "cancelled"}
  /\ phase' = "idle"
  /\ IF HasNewMessages
     THEN Save(log, FALSE)
     ELSE UNCHANGED <<sessionVars, managerVars, storeVars>>
  /\ UNCHANGED <<files, start, touching, rewind, ghostVars>>

-----------------------------------------------------------------------------
\* Rewriting the log.

\* Mutant: prompts are folded too.
IsDigest(m) == m.role = "digest"

IsKept(m) == m.role \in {"prompt", "digest"}
IsFolded(m) == ~IsKept(m)

\* Agent.compact: messages 2..k become their prompts and earlier digests,
\* verbatim, and one digest of the rest.
Folded(l, k) ==
  LET region == SubSeq(l, 2, k)
      fold == SelectSeq(region, IsFolded)
  IN <<l[1]>> \o SelectSeq(region, IsKept)
       \o <<[epoch |-> fold[Len(fold)].epoch, role |-> "digest"]>>
       \o SubSeq(l, k + 1, Len(l))

Foldable(l) == {k \in 2..(Len(l) - 1) : \E i \in 2..k : IsFolded(l[i])}

\* The context window is full in the middle of a turn.
CompactAuto ==
  /\ Compaction
  /\ phase = "working"
  /\ touching = NoPath
  /\ \E k \in Foldable(log) : log' = Folded(log, k)
  /\ UNCHANGED <<files, savedLog, branch, marker, turnVars, managerVars, storeVars, rewind, ghostVars>>

\* /compact between turns.  The slash command saves with SnapshotRewrite, the
\* HTTP server and the terminal UI with Snapshot.
CompactCommand ==
  /\ Compaction
  /\ ~Running /\ rewind = Idle
  /\ \E k \in Foldable(log), rewrite \in BOOLEAN : Save(Folded(log, k), rewrite)
  /\ UNCHANGED <<files, turnVars, rewind, ghostVars>>

Digest(l) == [epoch |-> l[Len(l)].epoch, role |-> "digest"]

SummarizedFrom(l, b) ==
  IF b >= Len(l) THEN l ELSE Append(SubSeq(l, 1, b), Digest(l))

SummarizedUpTo(l, b) ==
  IF b <= 1 \/ b > Len(l) THEN l
  ELSE <<l[1], Digest(SubSeq(l, 1, b))>> \o SubSeq(l, b + 1, Len(l))

\* SummarizeFrom and SummarizeUpTo drop every boundary and save the rewrite; the
\* boundaries in the checkpoint files stay.
Summarize(t) ==
  /\ Summaries
  /\ ~Running /\ rewind = Idle
  /\ t \in DOMAIN bound
  /\ \E l \in {SummarizedFrom(log, bound[t]), SummarizedUpTo(log, bound[t])} :
       /\ log' = l
       /\ savedLog' = IF HasContent(l) THEN l ELSE savedLog
  /\ bound' = <<>>
  /\ UNCHANGED <<files, branch, marker, turnVars, next, storeVars, rewind, ghostVars>>

\* What the snapshot before a fork finds: a log its file is ahead of, or one
\* that has to move to a recovery branch.
Behind == HasContent(log) /\ ~MayWrite(log, FALSE) /\ IsPrefixOf(log, savedLog)
Diverged == HasContent(log) /\ ~MayWrite(log, FALSE) /\ ~IsPrefixOf(log, savedLog)

\* ForkNamed with a switch: the session is saved, then the messages up to the
\* boundary, which was read before that, become a new session with its own,
\* empty, checkpoint directory.
Fork(t) ==
  /\ ~Running /\ rewind = Idle
  /\ t \in DOMAIN bound
  /\ LET source == IF Behind THEN savedLog ELSE log
     IN  log' = SubSeq(source, 1, IF bound[t] > Len(source) THEN Len(source) ELSE bound[t])
  /\ savedLog' = log'
  /\ branch' = IF Diverged THEN branch + 1 ELSE branch
  /\ marker' = NoMarker
  /\ Rebind(<<>>)
  /\ UNCHANGED <<files, turnVars, rewind, ghostVars>>

\* ForkSession opens the fork elsewhere: here the session is only saved.
ForkSession(t) ==
  /\ ~Running /\ rewind = Idle
  /\ t \in DOMAIN bound
  /\ Save(log, FALSE)
  /\ UNCHANGED <<files, turnVars, rewind, ghostVars>>

-----------------------------------------------------------------------------
\* Rewind.  Running is read once, at the start; no lock is held after it.

AsksCode == rewind.scope # "conversation"
AsksConversation == rewind.scope # "code"

RewindCheck(t, scope) ==
  /\ rewind = Idle
  /\ ~Running
  /\ t \in DOMAIN ckpts
  /\ rewind' = [step |-> "checked", turn |-> t, scope |-> scope,
                boundary |-> IF t \in DOMAIN bound THEN bound[t] ELSE NoBoundary]
  /\ UNCHANGED <<files, sessionVars, turnVars, managerVars, storeVars, ghostVars>>

\* A turn without a checkpoint is not refused: files that later turns touched
\* are restored, and the conversation is unavailable.
RewindUnknown(t, scope) ==
  /\ rewind = Idle
  /\ ~Running
  /\ t \notin DOMAIN ckpts \cup DOMAIN bound
  /\ files' = IF scope = "conversation" THEN files ELSE Restored(ckpts, t)
  /\ UNCHANGED <<sessionVars, turnVars, managerVars, storeVars, rewind, ghostVars>>

RewindCode ==
  /\ rewind.step = "checked" /\ AsksCode
  /\ files' = Restored(ckpts, rewind.turn)
  /\ rewind' = IF AsksConversation THEN [rewind EXCEPT !.step = "restored"] ELSE Idle
  /\ UNCHANGED <<sessionVars, turnVars, managerVars, storeVars, ghostVars>>

\* Code, when asked for, has been restored before the boundary is looked at.
AtConversation ==
  /\ AsksConversation
  /\ rewind.step = IF AsksCode THEN "restored" ELSE "checked"

HasBoundary == rewind.boundary # NoBoundary /\ rewind.boundary <= Len(log)

RewindUnavailable ==
  /\ AtConversation
  /\ ~HasBoundary
  /\ rewind' = Idle
  /\ UNCHANGED <<files, sessionVars, turnVars, managerVars, storeVars, ghostVars>>

RewindCut ==
  /\ AtConversation
  /\ HasBoundary
  /\ log' = SubSeq(log, 1, rewind.boundary)
  /\ rewind' = [rewind EXCEPT !.step = "cut"]
  /\ UNCHANGED <<files, savedLog, branch, marker, turnVars, managerVars, storeVars, ghostVars>>

\* Mutant: Store.cur stays open after its checkpoint is discarded.
DropDoneFrom(t) ==
  /\ next' = t
  /\ bound' = Before(bound, t)
  /\ ckpts' = Before(ckpts, t)
  /\ current' = current

\* truncateFrom renumbers and drops boundaries and checkpoints at or after the
\* turn; a file whose removal fails is only logged.
DropFrom(t) ==
  /\ next' = t
  /\ bound' = Before(bound, t)
  /\ ckpts' = Before(ckpts, t)
  /\ current' = IF current >= t THEN NoTurn ELSE current

RewindTruncate ==
  /\ rewind.step = "cut"
  /\ DropFrom(rewind.turn)
  /\ \E left \in SUBSET (DOMAIN disk \ DOMAIN ckpts') :
       /\ left # {} => DeleteFails
       /\ disk' = Restrict(disk, DOMAIN ckpts' \cup left)
  /\ rewind' = [rewind EXCEPT !.step = "truncated"]
  /\ UNCHANGED <<files, sessionVars, turnVars, ghostVars>>

\* SnapshotRewrite.
RewindSave ==
  /\ rewind.step = "truncated"
  /\ Save(log, TRUE)
  /\ rewind' = Idle
  /\ UNCHANGED <<files, turnVars, ghostVars>>

-----------------------------------------------------------------------------
\* The process dies and the session is resumed: LoadSession, rebind, and
\* recoverInterruptedTurn.

CrashPoint == IF rewind # Idle THEN "rewind" ELSE IF Running THEN "turn" ELSE "idle"

ResumedLog == IF marker = NoMarker THEN savedLog ELSE Strip(savedLog, marker)

CrashAndResume ==
  /\ CrashPoint \in CrashPoints
  /\ savedLog # <<>>
  /\ log' = ResumedLog
  /\ savedLog' = log'
  /\ marker' = NoMarker
  /\ Rebind(disk)
  /\ phase' = "idle"
  /\ start' = 0
  /\ touching' = NoPath
  /\ rewind' = Idle
  /\ UNCHANGED <<files, branch, ghostVars>>

Next ==
  \/ BeginTurn
  \/ Blocked
  \/ Ask
  \/ Work
  \/ \E p \in Paths : PreEdit(p)
  \/ \E c \in Content : Edit(c)
  \/ Autosave
  \/ Finish
  \/ Cancel
  \/ EndTurn
  \/ CompactAuto
  \/ CompactCommand
  \/ \E t \in Targets : Summarize(t)
  \/ \E t \in Targets : Fork(t) \/ ForkSession(t)
  \/ \E t \in Targets, scope \in Scopes : RewindCheck(t, scope) \/ RewindUnknown(t, scope)
  \/ RewindCode
  \/ RewindUnavailable
  \/ RewindCut
  \/ RewindTruncate
  \/ RewindSave
  \/ CrashAndResume

Spec == Init /\ [][Next]_vars

-----------------------------------------------------------------------------
\* Properties.

IsStore(d) ==
  /\ DOMAIN d \subseteq 0..MaxTurns
  /\ \A t \in DOMAIN d :
       /\ d[t].index \in 0..MaxLog
       /\ d[t].epoch \in 1..epochs
       /\ DOMAIN d[t].files \subseteq Paths
       /\ \A p \in DOMAIN d[t].files : d[t].files[p] \in Content

\* Every variable keeps its shape, and the turn being snapshotted is one the
\* store knows: Store.cur is one of its own checkpoints.
TypeOK ==
  /\ files \in Workspace
  /\ touching \in Paths \cup {NoPath}
  /\ log \in Seq(Message)
  /\ savedLog \in Seq(Message)
  /\ branch \in Nat
  /\ marker \in {NoMarker} \cup Nat
  /\ phase \in Phase
  /\ start \in Nat
  /\ next \in Nat
  /\ DOMAIN bound \subseteq Nat /\ \A t \in DOMAIN bound : bound[t] \in Nat
  /\ current = NoTurn \/ current \in DOMAIN ckpts
  /\ IsStore(ckpts) /\ IsStore(disk)
  /\ rewind \in Rewinds
  /\ epochs \in 0..MaxTurns
  /\ startFiles \in [1..epochs -> Workspace]

\* The ghost number of the turn a rewind is about.
Epoch == ckpts[rewind.turn].epoch

\* RestoreCode "reverts the workspace to its state at the start of turn
\* fromTurn": once the files are written back, every file, touched in that turn
\* or in any later one, holds what it held when the turn began.
RewindRestoresTurnStart ==
  [][RewindCode => files' = startFiles[Epoch]]_vars

\* Conversation rewinds that leave nothing but the system prompt are left out:
\* such a rewind is never written to disk (README).
RewindLeavesContent == rewind.step \in {"cut", "truncated"} => HasContent(log)

\* A conversation rewind keeps exactly the messages from before its turn: it
\* leaves none of that turn or a later one and takes none of an earlier one.
RewindCutsAtTurn ==
  [][RewindCut =>
       \A i \in 1..Len(log) : i <= Len(log') <=> log[i].epoch < Epoch]_vars

\* A session nobody else writes is never moved to a recovery branch, which is
\* for "a stale runtime's transcript".
SoleWriterKeepsItsFile == branch = 0

\* "A fact the user stated is never summarized away": saving, compacting and
\* cancelling keep every prompt the log holds, also when a compaction has moved
\* the messages under the index the turn was started with.
PromptsKept ==
  [][Autosave \/ EndTurn \/ Cancel \/ CompactAuto \/ CompactCommand
       => \A i \in 1..Len(log) : log[i].role = "prompt"
            => \E j \in 1..Len(log') : log'[j] = log[i]]_vars

=============================================================================
