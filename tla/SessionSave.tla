---------------------------- MODULE SessionSave ----------------------------
(***************************************************************************)
(* The transcript of a session on disk (agent/save.go, agent/branch.go)    *)
(* and the controllers that write it (control/controller.go): a save       *)
(* compares the file with what this runtime last read or wrote, under a    *)
(* lock of the file; a save that would hide somebody else's messages is a  *)
(* conflict, which is settled by adopting the file or by a recovery branch.*)
(* The sidecar (BranchMeta) holds the revision of the file and the marker  *)
(* of a turn in flight; it is rewritten by read, merge and replace, and    *)
(* only the save holds the lock while it does so.                          *)
(*                                                                         *)
(* A message is <<n, role>>.  The leading system message is left out: the  *)
(* code compares transcripts with and without it.  A path is Main or a     *)
(* recovery path, named by the path it comes from and the text it was      *)
(* made of (recoverySessionPath: a digest).                                *)
(***************************************************************************)
EXTENDS Naturals, FiniteSets, Sequences, SequencesExt

CONSTANTS Controllers,  \* runtimes that may open the session
          Scenarios     \* what may happen: who opens it, and how often the rest may occur

\* messages, rewinds, cancels, exits and autosaves bound the state space; fails
\* says whether the revision may fail to be recorded.
Allowance == [who : SUBSET Controllers, messages : Nat, rewinds : Nat, cancels : Nat,
              exits : Nat, ticks : Nat, fails : BOOLEAN]
ASSUME ScenarioFields == Scenarios \subseteq Allowance

VARIABLES file,     \* path -> transcript, for the paths that exist
          meta,     \* path -> the sidecar, for the paths that have one
          locked,   \* the paths whose lock file is held
          slot,     \* controller -> its Session objects
          cur,      \* controller -> the one its executor uses
          path,     \* controller -> sessionPath
          th,       \* thread -> where it is, and its locals
          left,     \* what the scenario leaves
          next,     \* number of the next message
          saved,    \* history: every message ever written to a file
          given     \* history: messages the user rewound or cancelled, or of a turn cut by an exit

vars == <<file, meta, locked, slot, cur, path, th, left, next, saved, given>>

Main == <<>>
NoMark == [on |-> FALSE, start |-> 0]
NoMeta == [rev |-> 0, mark |-> NoMark]
MetaOf(p) == IF p \in DOMAIN meta THEN meta[p] ELSE NoMeta
Put(f, k, v) == [x \in DOMAIN f \cup {k} |-> IF x = k THEN v ELSE f[x]]

\* A controller runs its turn on one goroutine and its mid-turn autosave on another.
Threads == Controllers \X {"turn", "auto"}
Turn(c) == <<c, "turn">>
ThreadsOf(c) == {Turn(c), <<c, "auto">>}

\* What a Session last read or wrote; was (history) is the one a save had when
\* it took the lock.
NoBase == [path |-> Main, text |-> <<>>, rev |-> 0]
Blank == [log |-> <<>>, pers |-> NoBase]
\* Of a controller's Session objects one is current and each thread may hold one.
Slots == 1..4
Idle == [pc |-> "idle", s |-> 0, path |-> Main, text |-> <<>>, base |-> 0,
         m |-> NoMeta, job |-> "none", then |-> "idle", rewrite |-> FALSE,
         kind |-> "none", start |-> 0, mine |-> {}, home |-> Main, was |-> NoBase]
Down == [Idle EXCEPT !.pc = "down"]

Log(c) == slot[c][cur[c]].log
\* A Session object no thread still holds; SetSession puts the new one there.
FreeSlot(c) == CHOOSE i \in Slots : i # cur[c] /\ \A t \in ThreadsOf(c) : th[t].s # i

OnDisk == UNION {Range(file[p]) : p \in DOMAIN file}
IsUser(m) == m[2] = "user"
HasContent(text) == text # <<>>

\* Thread t goes on at pc, keeping its locals.
At(t, pc) == [th EXCEPT ![t].pc = pc]
\* The end of an autosave or of a turn forgets the locals.
Return(t) == IF th[t].then = "idle" THEN [th EXCEPT ![t] = Idle]
             ELSE [th EXCEPT ![t].pc = th[t].then, ![t].job = "none", ![t].s = 0,
                             ![t].path = Main, ![t].text = <<>>, ![t].base = 0,
                             ![t].m = NoMeta, ![t].then = "idle", ![t].rewrite = FALSE, ![t].was = NoBase]

Init ==
  /\ file = [p \in {Main} |-> << <<1, "user">> >>]
  /\ meta = [p \in {Main} |-> [rev |-> 1, mark |-> NoMark]]
  /\ locked = {}
  /\ slot = [c \in Controllers |-> [i \in Slots |-> Blank]]
  /\ cur = [c \in Controllers |-> 1]
  /\ path = [c \in Controllers |-> Main]
  /\ th = [t \in Threads |-> Down]
  /\ left \in Scenarios
  /\ next = 2
  /\ saved = { <<1, "user">> }
  /\ given = {}

-----------------------------------------------------------------------------
(* A save: Session.save, with the lock of the path held from Lock to Record. *)

\* s.snapshotWithVersion: the text is copied before the lock is taken.
Saving(t, text, rewrite, job, then) ==
  [th[t] EXCEPT !.pc = "lock", !.s = cur[t[1]], !.path = path[t[1]], !.text = text,
                !.rewrite = rewrite, !.job = job, !.then = then]

\* Mutant: a rewrite need not have seen the text it replaces.
VerdictBlind(t) ==
  IF th[t].path \notin DOMAIN file \/ th[t].rewrite \/ IsPrefix(file[th[t].path], th[t].text)
  THEN "ok" ELSE IF IsPrefix(th[t].text, file[th[t].path]) THEN "stale" ELSE "diverged"

\* checkSnapshotWrite: may text, written by a Session with this baseline, replace what is there?
Verdict(t) ==
  LET p == th[t].path
      new == th[t].text
      pers == slot[t[1]][th[t].s].pers
      rev == MetaOf(p).rev
  IN  IF p \notin DOMAIN file THEN "ok"
      ELSE IF IsPrefix(file[p], new)
      THEN IF pers.path = p /\ pers.rev # rev /\ file[p] # new THEN "diverged" ELSE "ok"
      ELSE IF th[t].rewrite /\ pers = [path |-> p, text |-> file[p], rev |-> rev] THEN "ok"
      ELSE IF IsPrefix(new, file[p]) THEN "stale" ELSE "diverged"

\* The revision is read and the file may be written.
Locked(t) == [th EXCEPT ![t].pc = "write", ![t].base = MetaOf(th[t].path).rev,
                        ![t].was = slot[t[1]][th[t].s].pers]

\* Mutant: the lock file is not taken.
LockNothing(t) ==
  /\ th[t].pc = "lock"
  /\ th' = CASE Verdict(t) = "ok" -> Locked(t)
             [] Verdict(t) = "stale" -> At(t, "load")
             [] Verdict(t) = "diverged" -> At(t, "branch")
  /\ UNCHANGED <<file, meta, locked, slot, cur, path, left, next, saved, given>>

Lock(t) ==
  /\ th[t].pc = "lock" /\ th[t].path \notin locked
  /\ CASE Verdict(t) = "ok" ->
            /\ locked' = locked \cup {th[t].path}
            /\ th' = Locked(t)
       [] Verdict(t) = "stale" -> th' = At(t, "load") /\ UNCHANGED locked
       [] Verdict(t) = "diverged" -> th' = At(t, "branch") /\ UNCHANGED locked
  /\ UNCHANGED <<file, meta, slot, cur, path, left, next, saved, given>>

\* writeSessionMessages: a sibling file renamed over the old one.
Write(t) ==
  /\ th[t].pc = "write"
  /\ file' = Put(file, th[t].path, th[t].text)
  /\ saved' = saved \cup Range(th[t].text)
  /\ th' = At(t, "record")
  /\ UNCHANGED <<meta, locked, slot, cur, path, left, next, given>>

\* recordSessionContentRevision loads the sidecar ...
Record(t) ==
  /\ th[t].pc = "record"
  /\ LET m == MetaOf(th[t].path)
     IN  th' = [th EXCEPT ![t].pc = "recMerge",
                          ![t].m = [m EXCEPT !.rev = (IF m.rev < th[t].base THEN th[t].base ELSE m.rev) + 1]]
  /\ UNCHANGED <<file, meta, locked, slot, cur, path, left, next, saved, given>>

\* preserveBranchMetaPersistence: only the revision of a newer sidecar is kept.
Merged(m, p) == [m EXCEPT !.rev = IF MetaOf(p).rev > m.rev THEN MetaOf(p).rev ELSE m.rev]

RecMerge(t) ==
  /\ th[t].pc = "recMerge"
  /\ th' = [th EXCEPT ![t].pc = "recPut", ![t].m = Merged(th[t].m, th[t].path)]
  /\ UNCHANGED <<file, meta, locked, slot, cur, path, left, next, saved, given>>

RecPut(t) ==
  /\ th[t].pc = "recPut"
  /\ meta' = Put(meta, th[t].path, th[t].m)
  /\ th' = At(t, "persisted")
  /\ UNCHANGED <<file, locked, slot, cur, path, left, next, saved, given>>

\* The sidecar cannot be written: save returns the error and the baseline is not moved.
RecordFailed(t) ==
  /\ left.fails /\ th[t].pc = "recPut"
  /\ locked' = locked \ {th[t].path}
  /\ th' = Return(t)
  /\ UNCHANGED <<file, meta, slot, cur, path, left, next, saved, given>>

\* markPersisted, with the revision read back, and the end of the lock; a
\* snapshot then refreshes the listing fields of the sidecar.
Persisted(t) ==
  /\ th[t].pc = "persisted"
  /\ slot' = [slot EXCEPT ![t[1]][th[t].s].pers =
                [path |-> th[t].path, text |-> th[t].text, rev |-> MetaOf(th[t].path).rev]]
  /\ locked' = locked \ {th[t].path}
  /\ th' = IF th[t].job = "update" THEN [th EXCEPT ![t].pc = "read", ![t].was = NoBase]
           ELSE Return(t)
  /\ UNCHANGED <<file, meta, cur, path, left, next, saved, given>>

-----------------------------------------------------------------------------
(* A conflict: recoverSnapshotConflict. *)

\* adoptDiskSession, LoadSession: the transcript first, without a lock ...
Load(t) ==
  /\ th[t].pc = "load"
  /\ th' = [th EXCEPT ![t].pc = "install", ![t].text = file[th[t].path]]
  /\ UNCHANGED <<file, meta, locked, slot, cur, path, left, next, saved, given>>

\* SetSession: the executor goes on with a fresh Session object.
Installed(c, log, p) ==
  /\ cur' = [cur EXCEPT ![c] = FreeSlot(c)]
  /\ slot' = [slot EXCEPT ![c][FreeSlot(c)] =
                [log |-> log, pers |-> [path |-> p, text |-> log, rev |-> MetaOf(p).rev]]]

\* ... then the revision.
Install(t) ==
  /\ th[t].pc = "install"
  /\ Installed(t[1], th[t].text, th[t].path)
  /\ th' = IF th[t].job = "update" THEN At(t, "read") ELSE Return(t)
  /\ UNCHANGED <<file, meta, locked, path, left, next, saved, given>>

\* Mutant: a conflict always adopts the file.
BranchNever(t) ==
  /\ th[t].pc = "branch" /\ th[t].path \notin locked
  /\ th' = At(t, "load")
  /\ UNCHANGED <<file, meta, locked, slot, cur, path, left, next, saved, given>>

\* SaveRecoveryBranch: the log of now against the file, whose lock is taken and given back.
Branch(t) ==
  LET p == th[t].path
      text == Log(t[1])
      rp == Append(p, text)
      needless == \/ \A i \in DOMAIN text : ~IsUser(text[i])
                  \/ p \in DOMAIN file /\ IsPrefix(text, file[p])
  IN  /\ th[t].pc = "branch" /\ p \notin locked
      /\ th' = IF needless THEN At(t, "load")
               ELSE [th EXCEPT ![t].pc = "branchFile", ![t].s = cur[t[1]],
                               ![t].text = text, ![t].path = rp]
      /\ UNCHANGED <<file, meta, locked, slot, cur, path, left, next, saved, given>>

\* Mutant: the recovery file is not written.
BranchFileMissing(t) ==
  /\ th[t].pc = "branchFile" /\ th[t].path \notin locked
  /\ locked' = locked \cup {th[t].path}
  /\ th' = At(t, "branchMeta")
  /\ UNCHANGED <<file, meta, slot, cur, path, left, next, saved, given>>

\* A recovery file with this very text is used again, any other is replaced.
BranchFile(t) ==
  /\ th[t].pc = "branchFile" /\ th[t].path \notin locked
  /\ locked' = locked \cup {th[t].path}
  /\ file' = Put(file, th[t].path, th[t].text)
  /\ saved' = saved \cup Range(th[t].text)
  /\ th' = At(t, "branchMeta")
  /\ UNCHANGED <<meta, slot, cur, path, left, next, given>>

\* saveRecoveryBranchMeta, markPersisted, and the controller moves to the recovery path.
BranchMeta(t) ==
  LET p == th[t].path
      m == Merged([rev |-> 1, mark |-> NoMark], p)
  IN  /\ th[t].pc = "branchMeta"
      /\ meta' = Put(meta, p, m)
      /\ slot' = [slot EXCEPT ![t[1]][th[t].s].pers = [path |-> p, text |-> th[t].text, rev |-> m.rev]]
      /\ path' = [path EXCEPT ![t[1]] = p]
      /\ locked' = locked \ {p}
      /\ th' = IF th[t].job = "update" THEN At(t, "read") ELSE Return(t)
      /\ UNCHANGED <<file, cur, left, next, saved, given>>

-----------------------------------------------------------------------------
(* The sidecar without the lock: UpdateSessionMeta, MarkSessionInFlightTurn, *)
(* ClearSessionInFlightTurn, each a read, a merge and a replace.             *)

Edited(t, m) == CASE th[t].job = "mark" -> [m EXCEPT !.mark = [on |-> TRUE, start |-> th[t].start]]
                  [] th[t].job = "clear" -> [m EXCEPT !.mark = NoMark]
                  [] OTHER -> m

Read(t) ==
  LET m == MetaOf(th[t].path)
  IN  /\ th[t].pc = "read"
      /\ th' = IF th[t].job = "clear" /\ ~m.mark.on THEN Return(t)
               ELSE [th EXCEPT ![t].pc = "merge", ![t].m = Edited(t, m)]
      /\ UNCHANGED <<file, meta, locked, slot, cur, path, left, next, saved, given>>

Merge(t) ==
  /\ th[t].pc = "merge"
  /\ th' = [th EXCEPT ![t].pc = "put", ![t].m = Merged(th[t].m, th[t].path)]
  /\ UNCHANGED <<file, meta, locked, slot, cur, path, left, next, saved, given>>

Replace(t) ==
  /\ th[t].pc = "put"
  /\ meta' = Put(meta, th[t].path, th[t].m)
  /\ th' = Return(t)
  /\ UNCHANGED <<file, locked, slot, cur, path, left, next, saved, given>>

-----------------------------------------------------------------------------
(* The controller: turns, rewinds, resume, and the exit of its process. *)

\* stripCancelledVisibleTurnMessagesAfter keeps the prompt of the turn.
Stripped(text, start) ==
  LET prompts == {i \in start + 1..Len(text) : IsUser(text[i])}
  IN  SubSeq(text, 1, start) \o
      (IF prompts = {} THEN <<>> ELSE << text[CHOOSE i \in prompts : \A j \in prompts : i <= j] >>)
SetLog(c, text) == slot' = [slot EXCEPT ![c][cur[c]].log = text]
Dropped(c, text) == given' = given \cup (Range(Log(c)) \ Range(text))
Spend(what) == left' = [left EXCEPT ![what] = @ - 1]

\* runOrchestratedTurn: the length of the log is noted, the turn is prepared ...
StartTurn(c) ==
  /\ th[Turn(c)].pc = "idle" /\ left.messages > 0
  /\ th' = [th EXCEPT ![Turn(c)].pc = "prepare", ![Turn(c)].kind = "turn", ![Turn(c)].start = Len(Log(c))]
  /\ UNCHANGED <<file, meta, locked, slot, cur, path, left, next, saved, given>>

\* ... and marked in the sidecar of the path of now.
MarkTurn(c) ==
  /\ th[Turn(c)].pc = "prepare"
  /\ th' = [th EXCEPT ![Turn(c)].pc = "read", ![Turn(c)].job = "mark",
                      ![Turn(c)].path = path[c], ![Turn(c)].then = "prompt"]
  /\ UNCHANGED <<file, meta, locked, slot, cur, path, left, next, saved, given>>

Say(c, role, pc) ==
  LET m == <<next, role>>
  IN  /\ left.messages > 0 /\ Spend("messages") /\ next' = next + 1
      /\ SetLog(c, Append(Log(c), m))
      /\ th' = [th EXCEPT ![Turn(c)].pc = pc, ![Turn(c)].mine = @ \cup {m}]
      /\ UNCHANGED <<file, meta, locked, cur, path, saved, given>>

\* Agent.Run appends the prompt, then what the model answers.
Prompt(c) == th[Turn(c)].pc = "prompt" /\ Say(c, "user", "work")
Reply(c) == th[Turn(c)].pc = "work" /\ Say(c, "reply", "replied")

EndTurn(c) ==
  /\ th[Turn(c)].pc \in {"work", "replied"}
  /\ th' = At(Turn(c), "clear")
  /\ UNCHANGED <<file, meta, locked, slot, cur, path, left, next, saved, given>>

\* replaceSessionAfterCancel: the stripped log is written as a rewrite.
CancelTurn(c) ==
  LET text == Stripped(Log(c), th[Turn(c)].start)
  IN  /\ th[Turn(c)].pc \in {"work", "replied"}
      /\ left.cancels > 0 /\ Spend("cancels")
      /\ IF Len(Log(c)) <= th[Turn(c)].start
         THEN th' = At(Turn(c), "clear") /\ UNCHANGED <<slot, given>>
         ELSE /\ SetLog(c, text)
              /\ given' = given \cup (th[Turn(c)].mine \ Range(text))
              /\ th' = [th EXCEPT ![Turn(c)] = Saving(Turn(c), text, TRUE, "none", "clear")]
      /\ UNCHANGED <<file, meta, locked, cur, path, next, saved>>

\* clearInFlightTurn, of the path of now.
ClearMark(c) ==
  /\ th[Turn(c)].pc = "clear"
  /\ th' = [th EXCEPT ![Turn(c)].pc = "read", ![Turn(c)].job = "clear",
                      ![Turn(c)].path = path[c], ![Turn(c)].then = "flush"]
  /\ UNCHANGED <<file, meta, locked, slot, cur, path, left, next, saved, given>>

\* snapshotActivityIfChanged, deferred to the end of the turn.
Flush(c) ==
  /\ th[Turn(c)].pc = "flush"
  /\ th' = [th EXCEPT ![Turn(c)] = IF Len(Log(c)) <= th[Turn(c)].start THEN Idle
                                   ELSE [Saving(Turn(c), Log(c), FALSE, "update", "idle") EXCEPT !.mine = {}]]
  /\ UNCHANGED <<file, meta, locked, slot, cur, path, left, next, saved, given>>

\* autosaveWhileRunning ticks; a save it began may outlive the turn.
Tick(c) ==
  /\ left.ticks > 0 /\ Spend("ticks") /\ th[Turn(c)].kind = "turn"
  /\ th[<<c, "auto">>].pc = "idle" /\ HasContent(Log(c))
  /\ th' = [th EXCEPT ![<<c, "auto">>] = Saving(<<c, "auto">>, Log(c), FALSE, "update", "idle")]
  /\ UNCHANGED <<file, meta, locked, slot, cur, path, next, saved, given>>

\* Rewind to the start of a turn, with the prompt of an earlier one left, and SnapshotRewrite.
Rewind(c) ==
  \E k \in 1..Len(Log(c)) - 1 :
    LET text == SubSeq(Log(c), 1, k)
    IN  /\ th[Turn(c)].pc = "idle" /\ IsUser(Log(c)[k + 1])
        /\ left.rewinds > 0 /\ Spend("rewinds")
        /\ SetLog(c, text) /\ Dropped(c, text)
        /\ th' = [th EXCEPT ![Turn(c)] = Saving(Turn(c), text, TRUE, "update", "idle")]
        /\ UNCHANGED <<file, meta, locked, cur, path, next, saved>>

\* The process ends, at any step.
Holds(t) == th[t].pc \in {"write", "record", "recMerge", "recPut", "persisted", "branchMeta"}

Exit(c) ==
  LET turn == th[Turn(c)]
  IN  /\ turn.pc # "down"
      /\ left.exits > 0 /\ Spend("exits")
      /\ given' = given \cup turn.mine \cup (Range(Log(c)) \ OnDisk)
      /\ locked' = locked \ {th[t].path : t \in {u \in ThreadsOf(c) : Holds(u)}}
      /\ slot' = [slot EXCEPT ![c] = [i \in Slots |-> Blank]]
      /\ cur' = [cur EXCEPT ![c] = 1]
      /\ path' = [path EXCEPT ![c] = Main]
      /\ th' = [t \in Threads |-> IF t \in ThreadsOf(c) THEN Down ELSE th[t]]
      /\ UNCHANGED <<file, meta, next, saved>>

\* A process opens one of the transcripts: LoadSession and Resume ...
Resume(c) ==
  \E p \in DOMAIN file :
    /\ c \in left.who /\ th[Turn(c)].pc = "down"
    /\ path' = [path EXCEPT ![c] = p]
    /\ th' = [th EXCEPT ![<<c, "auto">>] = Idle,
                        ![Turn(c)] = [Idle EXCEPT !.pc = "load", !.path = p, !.home = p, !.then = "resumed"]]
    /\ UNCHANGED <<file, meta, locked, slot, cur, left, next, saved, given>>

\* ... whose recoverInterruptedTurn strips the turn a marker says was cut,
Recover(c) ==
  LET mark == MetaOf(th[Turn(c)].home).mark
      text == Stripped(Log(c), mark.start)
  IN  /\ th[Turn(c)].pc = "resumed"
      /\ IF mark.on /\ Len(Log(c)) > mark.start
         THEN /\ SetLog(c, text)
              /\ th' = [th EXCEPT ![Turn(c)] = Saving(Turn(c), text, TRUE, "none", "recovered")]
         ELSE /\ th' = IF mark.on THEN At(Turn(c), "unmark") ELSE [th EXCEPT ![Turn(c)] = Idle]
              /\ UNCHANGED slot
      /\ UNCHANGED <<file, meta, locked, cur, path, left, next, saved, given>>

\* saves once more, as a snapshot,
Recovered(c) ==
  /\ th[Turn(c)].pc = "recovered"
  /\ th' = IF HasContent(Log(c))
           THEN [th EXCEPT ![Turn(c)] = Saving(Turn(c), Log(c), TRUE, "update", "unmark")]
           ELSE At(Turn(c), "unmark")
  /\ UNCHANGED <<file, meta, locked, slot, cur, path, left, next, saved, given>>

\* and clears the marker of the path it was given.
Unmark(c) ==
  /\ th[Turn(c)].pc = "unmark"
  /\ th' = [th EXCEPT ![Turn(c)].pc = "read", ![Turn(c)].job = "clear",
                      ![Turn(c)].path = th[Turn(c)].home, ![Turn(c)].then = "idle"]
  /\ UNCHANGED <<file, meta, locked, slot, cur, path, left, next, saved, given>>

-----------------------------------------------------------------------------
SaveStep(t) == \/ Lock(t) \/ Write(t) \/ Record(t) \/ RecMerge(t) \/ RecPut(t)
               \/ RecordFailed(t) \/ Persisted(t)
ConflictStep(t) == Load(t) \/ Install(t) \/ Branch(t) \/ BranchFile(t) \/ BranchMeta(t)
MetaStep(t) == Read(t) \/ Merge(t) \/ Replace(t)
ControllerStep(c) ==
  \/ StartTurn(c) \/ MarkTurn(c) \/ Prompt(c) \/ Reply(c) \/ EndTurn(c) \/ CancelTurn(c)
  \/ ClearMark(c) \/ Flush(c) \/ Tick(c) \/ Rewind(c) \/ Exit(c)
  \/ Resume(c) \/ Recover(c) \/ Recovered(c) \/ Unmark(c)

Next == \/ \E t \in Threads : SaveStep(t) \/ ConflictStep(t) \/ MetaStep(t)
        \/ \E c \in Controllers : ControllerStep(c)

Spec == Init /\ [][Next]_vars

-----------------------------------------------------------------------------
Messages == (1..next - 1) \X {"user", "reply"}
IsText(x) == x \in Seq(Messages)

TypeOK ==
  /\ Main \in DOMAIN file /\ DOMAIN meta \subseteq DOMAIN file
  /\ \A p \in DOMAIN file : IsText(file[p])
  /\ \A p \in DOMAIN meta : meta[p].rev \in Nat /\ meta[p].mark.on \in BOOLEAN
  /\ locked \subseteq DOMAIN file
  /\ \A c \in Controllers : cur[c] \in Slots /\ IsText(Log(c)) /\ path[c] \in DOMAIN file
  /\ {left.messages, left.rewinds, left.cancels, left.exits, left.ticks} \subseteq Nat
  /\ saved \subseteq Messages /\ given \subseteq Messages

\* Three ways in which the code does lose messages, described in the README.  A
\* resume takes the marker of a finished turn for one of a turn that was cut;
ResumeIsGenuine ==
  \A c \in Controllers :
    LET mark == MetaOf(th[Turn(c)].home).mark
    IN  th[Turn(c)].pc = "resumed" /\ mark.on /\ Len(Log(c)) > mark.start
          => Range(Log(c)) \ Range(Stripped(Log(c), mark.start)) \subseteq given

\* an autosave is overtaken by the save of its own turn;
AutosaveIsCurrent == \A c \in Controllers : th[<<c, "auto">>].pc \notin {"load", "branch"}

\* a second recovery of the same text replaces the file in which the first went on.
RecoveryFileIsUnused ==
  \A t \in Threads : th[t].pc = "branchFile" /\ th[t].path \in DOMAIN file
                        => file[th[t].path] = th[t].text

NotDivergent == ResumeIsGenuine /\ AutosaveIsCurrent /\ RecoveryFileIsUnused

\* A message that reached a file stays in one, whoever saves what over it, until
\* the user rewinds it or cancels its turn, or its turn is cut by an exit
\* ("cannot hide a newer transcript already on disk", save.go:117).
SavedMessageSurvives == saved \subseteq OnDisk \cup given

\* Whatever was said in a turn is in a file, or in the log of a controller that
\* is still busy with its turn or its save.
NothingSaidIsLost ==
  LET busy == {c \in Controllers : th[Turn(c)].pc \notin {"idle", "down"}}
      kept == OnDisk \cup given \cup UNION {Range(Log(c)) : c \in busy}
  IN  1..next - 1 \subseteq {m[1] : m \in kept}

\* What a controller has seen on disk: the baselines of its Session objects and
\* of the saves that hold a lock, and what it has loaded and not yet installed.
Baselines(c) == {slot[c][i].pers : i \in Slots} \cup {th[t].was : t \in ThreadsOf(c)}
Loaded(c) == {t \in ThreadsOf(c) : th[t].pc = "install"}
Seen == [c \in Controllers |-> {<<b.path, b.text>> : b \in Baselines(c) \ {NoBase}}
                               \cup {<<th[t].path, th[t].text>> : t \in Loaded(c)}]

Store == INSTANCE TranscriptStore WITH Clients <- Controllers, text <- file, seen <- Seen

\* The check of digest and revision under the lock file amounts to an atomic
\* compare and write of the transcript: a save extends what is there, replaces
\* only a text its Session loaded or wrote itself, or creates a file, and a
\* recovery branch may put back the text its path is named by
\* (SaveSnapshot, SaveRewrite, SaveRecoveryBranch, save.go:116-127, 309-333).
SavesOwnWhatTheyReplace == Store!Spec
=============================================================================
