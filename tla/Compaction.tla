------------------------------ MODULE Compaction ------------------------------
(***************************************************************************)
(* Context maintenance of one agent (internal/agent: compact.go, prune.go).*)
(* After every answer the loop looks at the size of the prompt the provider*)
(* reports: it snips or prunes stale tool results, or folds the middle of  *)
(* the log into a digest, which takes a call to the summarizer.  /compact  *)
(* folds on demand, from a goroutine of its own.                           *)
(*                                                                         *)
(* Sizes are units of tokens at the ordinary ratio of tokens to characters.*)
(* What the code works with is an estimate: the characters of a message,   *)
(* times the tokens of the last prompt the provider reported, over the     *)
(* characters of the log as it is now.  The log grows and shrinks in       *)
(* between.  Which mark the reported usage passes is free.  The provider   *)
(* has a context window: without one nothing but /compact runs.            *)
(***************************************************************************)
EXTENDS Transcript
LOCAL INSTANCE SequencesExt
LOCAL INSTANCE FiniteSetsExt

CONSTANTS
  RecentKeep,   \* messages the recent tail keeps at least (recentKeep)
  TailBudget,   \* tokens it keeps at most beyond those
  SmallEnough,  \* estimate up to which a user turn is kept verbatim
  WorthPruning, \* size from which a tool result is rewritten
  WorthFolding, \* size from which a fold pays for its summary
  UserTurns,    \* the turns a user may send: <<size, the policy keeps it>>
  ToolResults,  \* the results the first call of a batch may have, likewise
  CallLists,    \* the calls an answer may make
  MaxMessages,  \* bound: messages ever said
  ArchiveDir,   \* there is a directory for archives
  Collide,      \* a fold may begin in the millisecond of the prune before it
  Overlap       \* prompts may be sent while /compact is at work

Large == 12

\* minRecentKeep.
TailFloor == IF RecentKeep > 2 THEN RecentKeep ELSE 2

\* The ratios tokPerChar believes, as multiples of fallbackTokPerChar.
Highest == 8
Lowest  == 5   \* one fifth

ASSUME CompactionAssumption ==
  /\ {ArchiveDir, Collide, Overlap} \subseteq BOOLEAN
  /\ {RecentKeep, TailBudget, SmallEnough, WorthPruning, WorthFolding, MaxMessages} \subseteq Nat
  /\ UserTurns \cup ToolResults \subseteq (1 .. Large) \X BOOLEAN

Bands   == {"low", "soft", "snip", "high", "force"}
Folders == {"auto", "manual"}

VARIABLES
  log,       \* the session's messages
  next,      \* identity of the next message
  pc,        \* "idle", "model", "tools", "look" or "fold": the turn's goroutine
  asked,     \* the calls of its last answer; none when it was final
  latch,     \* consecutiveCompacts, compactStuck, softCompactNoticed
  usage,     \* lastUsage: the size of the last prompt reported, 0 for none
  taken,     \* what a fold was planned on, while its summary is awaited
  archived,  \* messages whose original was archived
  newest,    \* those of them that only the prune before this fold archived
  small,     \* history: the user turns of a normal size, in order
  dear,      \* history: those folded while the estimates were too high
  answered,  \* history: answers whose calls got their results
  streak     \* history: automatic folds since the prompt was last under the trigger

vars == <<log, next, pc, asked, latch, usage, taken, archived, newest, small, dear,
          answered, streak>>

archives == <<archived, newest>>
history  == <<small, dear, answered>>

Par    == <<1, 1>>
NoFold == [msgs |-> <<>>, ratio |-> Par]
Fresh == [row |-> 0, stuck |-> FALSE, noticed |-> FALSE]

Init ==
  /\ log = <<Message("system", 0)>>
  /\ next = 1
  /\ pc = "idle"
  /\ asked = <<>>
  /\ latch = Fresh
  /\ usage = 0
  /\ taken = [f \in Folders |-> NoFold]
  /\ archived = {}
  /\ newest = {}
  /\ small = <<>>
  /\ dear = {}
  /\ answered = {}
  /\ streak = 0

-----------------------------------------------------------------------------
\* Estimates.

Size(msgs) == FoldLeft(LAMBDA total, m : total + m.size, 0, msgs)

\* tokPerChar: the last usage over the log as it is, unless that is absurd.
Calibrated(reported, size) ==
  IF reported > 0 /\ reported < Highest * size /\ size < Lowest * reported
  THEN <<reported, size>>
  ELSE Par

TokPerChar(msgs, reported) == Calibrated(reported, Size(msgs))

Estimate(m, ratio) == (m.size * ratio[1]) \div ratio[2]
Estimates(msgs, ratio) == FoldLeft(LAMBDA total, m : total + Estimate(m, ratio), 0, msgs)

-----------------------------------------------------------------------------
\* Where the log is cut: head .. tail.

IsDigest(m) == m.role = "digest"
Pinnable(m, ratio) == m.role = "user" /\ Estimate(m, ratio) <= SmallEnough

\* The number of leading messages a fold keeps: the system prompt, a small
\* first user turn, and the digests after it.
Pinned(msgs, ratio) ==
  LET first == IF Len(msgs) >= 2 /\ Pinnable(msgs[2], ratio) THEN 2 ELSE 1
  IN  Max({k \in first .. Len(msgs) : \A i \in (first + 1) .. k : IsDigest(msgs[i])})

\* The tail that begins after message k is short enough.
Fits(msgs, k, ratio) ==
  \/ Len(msgs) - k <= TailFloor
  \/ Estimates(SubSeq(msgs, k + 1, Len(msgs)), ratio) <= TailBudget

\* The number of messages before the longest tail that fits.  The message after
\* the head is never in the tail.
LongestTail(msgs, head, ratio) ==
  Min({Len(msgs)} \cup {k \in (head + 1) .. (Len(msgs) - 1) : Fits(msgs, k, ratio)})

\* The tail never begins with a tool result: it is longer then.
OffResults(msgs, head, cut) ==
  IF cut = Len(msgs) THEN cut
  ELSE Max({head} \cup {k \in head .. cut : ~IsTool(msgs[k + 1])})

\* Mutant: the cut may fall between the results of a call.
TailStartAnywhere(msgs, head, ratio) == LongestTail(msgs, head, ratio)

TailStart(msgs, head, ratio) == OffResults(msgs, head, LongestTail(msgs, head, ratio))

\* planCompaction.  compact asks for two messages to fold, and if there are less
\* for one.
Between(head, cut) == [head |-> head, cut |-> cut, ok |-> cut > head]
PlanAfter(msgs, head, ratio) == Between(head, TailStart(msgs, head, ratio))
Plan(msgs, ratio) == PlanAfter(msgs, Pinned(msgs, ratio), ratio)

-----------------------------------------------------------------------------
\* The fold.

\* findToolCaller, keepToolCallGroup: the answer that made a call, with its
\* results.
Group(region, j) ==
  {j} \cup {k \in (j + 1) .. Len(region) :
              /\ \A i \in (j + 1) .. k : IsTool(region[i])
              /\ region[k].id \in ToSet(region[j].calls)}

Callers(region, i) ==
  {j \in 1 .. (i - 1) : /\ region[j].role = "assistant"
                        /\ region[i].id \in ToSet(region[j].calls)}

\* What the keep policy keeps of the messages since the last digest, each tool
\* result with its whole group.
PolicyKeeps(region) ==
  LET since == Max({0} \cup {i \in DOMAIN region : IsDigest(region[i])})
      own   == {i \in DOMAIN region : i > since /\ region[i].keep}
  IN  own \cup UNION {Group(region, Max(Callers(region, i))) :
                        i \in {k \in own : IsTool(region[k]) /\ Callers(region, k) # {}}}

\* Mutant: small user turns are folded.
KeptDigests(region, ratio) ==
  PolicyKeeps(region) \cup {i \in DOMAIN region : IsDigest(region[i])}

\* Mutant: earlier digests are folded into the new one.
KeptTurns(region, ratio) ==
  PolicyKeeps(region) \cup {i \in DOMAIN region : Pinnable(region[i], ratio)}

Kept(region, ratio) ==
  PolicyKeeps(region)
    \cup {i \in DOMAIN region : IsDigest(region[i]) \/ Pinnable(region[i], ratio)}

Pick(region, S) ==
  LET at == SelectSeq([i \in DOMAIN region |-> i], LAMBDA i : i \in S)
  IN  [k \in DOMAIN at |-> region[at[k]]]

\* compact: the parts the log falls into by a plan.
PartsBy(msgs, plan, ratio) ==
  LET region == SubSeq(msgs, plan.head + 1, plan.cut)
      kept   == Kept(region, ratio)
  IN  [ok   |-> plan.ok,
       head |-> SubSeq(msgs, 1, plan.head),
       kept |-> Pick(region, kept),
       fold |-> Pick(region, DOMAIN region \ kept),
       tail |-> SubSeq(msgs, plan.cut + 1, Len(msgs))]

Parts(msgs, ratio) == PartsBy(msgs, Plan(msgs, ratio), ratio)

\* A pass with nothing to fold, or too little for the price, comes back as it is.
\* foldEconomics counts characters and knows no ratio.
Pays(p, force) == p.ok /\ p.fold # <<>> /\ (force \/ Size(p.fold) >= WorthFolding)
WouldFold(msgs, force) == Pays(Parts(msgs, TokPerChar(msgs, usage)), force)

\* What was said: a repaired answer and a digest have no identity.
Originals(msgs) == {msgs[i].n : i \in DOMAIN msgs} \ {0}

DigestOf(fold) == [Message("digest", 0) EXCEPT !.covers = Originals(fold)]
Compacted(p) == p.head \o p.kept \o <<DigestOf(p.fold)>> \o p.tail

-----------------------------------------------------------------------------
\* Rewriting stale tool results.

\* shouldMaintainToolResult, and the errors the keep policy protects.
Maintains(m, mode) ==
  /\ IsTool(m)
  /\ ~m.keep
  /\ \/ m.form = "full" /\ m.size >= WorthPruning
     \/ m.form = "snipped" /\ mode = "prune"

\* The messages a pass may touch.  A prune that finds no plan falls back on
\* everything but the last messages.
StaleBy(msgs, mode, plan) ==
  LET range == IF plan.ok THEN (plan.head + 1) .. plan.cut
               ELSE IF mode = "prune" THEN 2 .. (Len(msgs) - RecentKeep) ELSE {}
  IN  {i \in range : Maintains(msgs[i], mode)}

Stale(msgs, mode, reported) == StaleBy(msgs, mode, Plan(msgs, TokPerChar(msgs, reported)))

Rewritten(msgs, stale, mode) ==
  [i \in DOMAIN msgs |->
     IF i \notin stale THEN msgs[i]
     ELSE IF mode = "snip" THEN [msgs[i] EXCEPT !.form = "snipped", !.size = 2]
     ELSE [msgs[i] EXCEPT !.form = "pruned", !.size = 1]]

\* The messages that are as they were said; of the others the original was
\* archived when they were rewritten.
Verbatim(msgs, S) == {msgs[i].n : i \in {k \in S : msgs[k].form = "full"}} \ {0}

\* A pass that changes something archives the originals first.
Maintained(msgs, mode, stale) ==
  /\ stale # {}
  /\ log' = Rewritten(msgs, stale, mode)
  /\ archived' = archived \cup (IF ArchiveDir THEN Verbatim(msgs, stale) ELSE {})

\* With nothing to rewrite, or an archive that cannot be written, it changes
\* nothing.
MaintainBy(mode, stale) ==
  \/ Maintained(log, mode, stale)
  \/ /\ stale = {} \/ (ArchiveDir /\ Verbatim(log, stale) # {})
     /\ UNCHANGED <<log, archived>>

Maintain(mode) == MaintainBy(mode, Stale(log, mode, usage))

-----------------------------------------------------------------------------
\* The turn.

Free == pc = "idle" /\ (Overlap \/ taken["manual"] = NoFold)
Room(k) == next + k <= MaxMessages + 1

\* A normal-sized turn: kept verbatim by an estimate at the ordinary ratio.
Normal(m) == m.role = "user" /\ m.size <= SmallEnough

Prompt(size, keep) ==
  LET m == [Message("user", next) EXCEPT !.size = size, !.keep = keep]
  IN  /\ Free
      /\ Room(1)
      /\ log' = Append(log, m)
      /\ next' = next + 1
      /\ small' = IF Normal(m) THEN Append(small, m) ELSE small
      /\ pc' = "model"
      /\ UNCHANGED <<asked, latch, usage, taken, archives, dear, answered, streak>>

\* The usage comes with the answer, and is that of the prompt.
Answer(calls) ==
  /\ pc = "model"
  /\ Room(1 + Len(calls))
  /\ log' = Append(log, [Message("assistant", next) EXCEPT !.calls = calls])
  /\ usage' = Size(log)
  /\ next' = next + 1
  /\ asked' = calls
  /\ pc' = IF calls = <<>> THEN "look" ELSE "tools"
  /\ UNCHANGED <<latch, taken, archives, history, streak>>

\* The results of a batch; the first of them is as given, the others are short.
Results(size, keep) ==
  LET result(k) == [Message("tool", next + k - 1) EXCEPT
                      !.id = asked[k], !.size = IF k = 1 THEN size ELSE 1,
                      !.keep = (k = 1 /\ keep)]
  IN  /\ pc = "tools"
      /\ log' = log \o [k \in DOMAIN asked |-> result(k)]
      /\ next' = next + Len(asked)
      /\ answered' = answered \cup {next - 1}
      /\ pc' = "look"
      /\ UNCHANGED <<asked, latch, usage, taken, archives, small, dear, streak>>

\* The provider fails, or the grace round still wants tools: its calls stay
\* unanswered.
GiveUp ==
  /\ pc \in {"model", "tools"}
  /\ pc' = "idle"
  /\ UNCHANGED <<log, next, asked, latch, usage, taken, archives, history, streak>>

-----------------------------------------------------------------------------
\* maybeCompact.

Looked == IF asked = <<>> THEN "idle" ELSE "model"
Quiet  == UNCHANGED <<next, asked, usage, taken, history>>

\* Under the trigger: the one notice, a snip, or the reset of the latch.
LookUnder(band) ==
  /\ pc = "look"
  /\ band \in {"low", "soft", "snip"}
  /\ pc' = Looked
  /\ \/ /\ band = "soft" /\ ~latch.noticed
        /\ latch' = [latch EXCEPT !.noticed = TRUE]
        /\ UNCHANGED <<log, archived>>
     \/ /\ band = "snip"
        /\ Maintain("snip")
        /\ UNCHANGED latch
     \/ /\ band = "low" \/ (band = "soft" /\ latch.noticed)
        /\ latch' = [latch EXCEPT !.row = 0, !.stuck = FALSE]
        /\ UNCHANGED <<log, archived>>
  /\ streak' = 0
  /\ UNCHANGED newest
  /\ Quiet

\* The latch holds automatic compaction back.
LookStuck ==
  /\ pc = "look"
  /\ latch.stuck
  /\ pc' = Looked
  /\ UNCHANGED <<log, archives, latch, streak>>
  /\ Quiet

\* Mutant: the pause begins one compaction late.
CountedLate(l) == [l EXCEPT !.row = @ + 1, !.stuck = (l.row + 1 > 2)]

\* Mutant: compactions in a row are not counted.
CountedNever(l) == l

\* compact came back without an error, having folded or not.
Counted(l) == [l EXCEPT !.row = @ + 1, !.stuck = (l.row + 1 >= 2)]

\* Over the trigger: prune; if that is not enough, or the prompt is past the
\* force mark, fold.
LookOver(band) ==
  /\ pc = "look"
  /\ band \in {"high", "force"}
  /\ ~latch.stuck
  /\ \/ /\ band = "high"             \* pruning cleared the trigger
        /\ Maintained(log, "prune", Stale(log, "prune", usage))
        /\ pc' = Looked
        /\ UNCHANGED <<latch, newest>>
     \/ /\ Maintain("prune")
        /\ \/ /\ ~WouldFold(log', band = "force")
              /\ pc' = Looked
              /\ latch' = Counted(latch)
              /\ UNCHANGED newest
           \/ /\ WouldFold(log', band = "force")
              /\ pc' = "fold"
              /\ newest' = archived' \ archived
              /\ UNCHANGED latch
  /\ UNCHANGED streak
  /\ Quiet

\* compact archives the messages it folds, then awaits their summary.  A file
\* of the same millisecond is written over.
Begin(f) ==
  LET ratio == TokPerChar(log, usage)
      fold  == Parts(log, ratio).fold
  IN  /\ taken[f] = NoFold
      /\ taken' = [taken EXCEPT ![f] = [msgs |-> log, ratio |-> ratio]]
      /\ \E lost \in {{}} \cup (IF Collide THEN {newest} ELSE {}) :
           archived' = IF ArchiveDir THEN (archived \ lost) \cup Verbatim(fold, DOMAIN fold)
                                     ELSE archived

FoldBegins ==
  /\ pc = "fold"
  /\ Begin("auto")
  /\ newest' = {}
  /\ UNCHANGED <<log, next, pc, asked, latch, usage, history, streak>>

\* The archive cannot be written: the pass is aborted, and not counted.
FoldAborted ==
  /\ pc = "fold" /\ ArchiveDir
  /\ taken["auto"] = NoFold
  /\ pc' = Looked
  /\ newest' = {}
  /\ UNCHANGED <<log, next, asked, latch, usage, taken, archived, history, streak>>

\* The summary, or the marker that stands in for it, takes the place of the
\* messages the fold was planned on.
NormalOnes(fold) == {fold[i].n : i \in {k \in DOMAIN fold : Normal(fold[k])}}
ReplaceBy(f, p) ==
  /\ log' = Compacted(p)
  /\ taken' = [taken EXCEPT ![f] = NoFold]
  /\ dear' = IF taken[f].ratio[1] > taken[f].ratio[2] THEN dear \cup NormalOnes(p.fold)
                                                      ELSE dear

Replace(f) ==
  /\ taken[f] # NoFold
  /\ ReplaceBy(f, Parts(taken[f].msgs, taken[f].ratio))

FoldDone ==
  /\ pc = "fold"
  /\ Replace("auto")
  /\ pc' = Looked
  /\ latch' = Counted(latch)
  /\ streak' = streak + 1
  /\ UNCHANGED <<next, asked, usage, archives, small, answered>>

-----------------------------------------------------------------------------
\* /compact: the command takes no turn.

CompactNow ==
  /\ Overlap \/ pc = "idle"
  /\ WouldFold(log, TRUE)
  /\ Begin("manual")
  /\ UNCHANGED <<log, next, pc, asked, latch, usage, newest, history, streak>>

CompactDone ==
  /\ Replace("manual")
  /\ UNCHANGED <<next, pc, asked, latch, usage, archives, small, answered, streak>>

-----------------------------------------------------------------------------
\* The process ends at any point and a new one loads the log; a session idle
\* for long is pruned when it is resumed, before any usage is known.

Restart ==
  /\ LET loaded == Stored(log)
     IN  \/ log' = loaded /\ UNCHANGED archived
         \/ Maintained(loaded, "prune", Stale(loaded, "prune", 0))
  /\ newest' = {}
  /\ pc' = "idle"
  /\ asked' = <<>>
  /\ latch' = Fresh
  /\ usage' = 0
  /\ taken' = [f \in Folders |-> NoFold]
  /\ streak' = 0
  /\ UNCHANGED <<next, history>>

Next ==
  \/ \E u \in UserTurns : Prompt(u[1], u[2])
  \/ \E calls \in CallLists : Answer(calls)
  \/ \E t \in ToolResults : Results(t[1], t[2])
  \/ GiveUp
  \/ \E band \in Bands : LookUnder(band)
  \/ LookStuck
  \/ \E band \in Bands : LookOver(band)
  \/ FoldBegins
  \/ FoldAborted
  \/ FoldDone
  \/ CompactNow
  \/ CompactDone
  \/ Restart

Spec == Init /\ [][Next]_vars

-----------------------------------------------------------------------------
\* Properties.

IsMessage(m) ==
  /\ m.role \in {"system", "user", "assistant", "tool", "digest"}
  /\ m.n \in 0 .. MaxMessages
  /\ m.size \in 1 .. Large
  /\ m.keep \in BOOLEAN
  /\ m.form \in {"full", "snipped", "pruned"}
  /\ m.covers \subseteq 1 .. MaxMessages

\* The state has its shape; only a turn at its fold awaits an automatic
\* summary, and the latch pauses at the second compaction of a row and not
\* before.
TypeOK ==
  /\ log # <<>> /\ \A i \in DOMAIN log : IsMessage(log[i])
  /\ next \in 1 .. (MaxMessages + 1)
  /\ pc \in {"idle", "model", "tools", "look", "fold"}
  /\ taken["auto"] # NoFold \/ newest # {} => pc = "fold"
  /\ latch.stuck = (latch.row >= 2) /\ latch.row \in 0 .. 2
  /\ usage \in 0 .. (Large * MaxMessages)
  /\ newest \cup archived \cup dear \cup answered \subseteq 1 .. MaxMessages
  /\ \A i \in DOMAIN small : IsMessage(small[i]) /\ Normal(small[i])

\* The calls of an answer keep their results and the results their call,
\* whatever is pruned, kept by policy, folded or cut off (compact.go:423-459,
\* 560-580): what was answered once never goes out with a placeholder, and the
\* repair of a request (SanitizeToolPairing) leaves out nothing of the log.
PairsSurvive ==
  /\ \A i \in DOMAIN log :
       Calls(log[i]) /\ log[i].n \in answered => Answered(log[i].calls, After(log, i))
  /\ Originals(Wire(log)) = Originals(log)

\* "A fact the user states in a normal-sized turn is kept verbatim and is never
\* summarized away - at any point in the session, across any number of
\* compactions" (docs/SPEC.md:236-239): the normal turns of the log are those
\* that were sent, as they were and in their order.  The code keeps this but
\* for the turns it takes for long ones: a fold that comes after the log has
\* shrunk, and before the next usage, counts too many tokens to a character
\* (compact.go:387-395, 580-589).  It never does so to a turn that is small at
\* every ratio the code believes.
UserTurnsSurvive ==
  /\ SelectSeq(log, Normal) = SelectSeq(small, LAMBDA m : m.n \notin dear)
  /\ \A i \in DOMAIN small : small[i].size * Highest <= SmallEnough => small[i].n \notin dear

\* Everything said is in the log or covered by a digest that still is, and what
\* was rewritten or folded has its original in the archive (compact.go:188-191,
\* 250-254).
NothingForgotten ==
  LET digests == {log[i].covers : i \in {k \in DOMAIN log : IsDigest(log[k])}}
  IN  /\ 1 .. (next - 1) \subseteq Originals(log) \cup UNION digests
      /\ UNION digests \subseteq archived
      /\ \A i \in DOMAIN log : log[i].form # "full" => log[i].n \in archived

\* A prompt that stays over the trigger is not folded again and again: after
\* two folds automatic compaction pauses until the prompt drops
\* (compact.go:134-142).
PausesWhenUseless == streak <= 2
=============================================================================
