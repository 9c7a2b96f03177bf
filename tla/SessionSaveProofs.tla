-------------------------- MODULE SessionSaveProofs --------------------------
(***************************************************************************)
(* The saves of transcripts for any number of runtimes and any scenario:   *)
(* type correctness, and the step simulation of TranscriptStore.  A save   *)
(* is decided under the lock of its path and written under it, and nobody  *)
(* else writes there meanwhile: what was true of the file when the lock    *)
(* was taken is true when it is replaced, and what was written is on the   *)
(* file when it becomes the baseline of the Session.                       *)
(* Then, apart from the cases of NotDivergent, that no message is lost: a  *)
(* text that is replaced is covered by the log of the runtime that does.   *)
(***************************************************************************)
EXTENDS SessionSave, SequenceTheorems, FiniteSetTheorems, TLAPS

-----------------------------------------------------------------------------
(* Types.                                                                  *)

Role == {"user", "reply"}
Paths == Seq(Seq(Nat \X Role))
Mark == [on : BOOLEAN, start : Nat]
Meta == [rev : Nat, mark : Mark]
Fields == {"pc", "s", "path", "text", "base", "m", "job", "then", "rewrite", "kind",
           "start", "mine", "home", "was"}

\* Where a thread goes on when its save or its edit of the sidecar is done.
Resting == {"idle", "prompt", "clear", "flush", "resumed", "recovered", "unmark"}
Holding == {"write", "record", "recMerge", "recPut", "persisted", "branchMeta"}

Files ==
  /\ Main \in DOMAIN file
  /\ DOMAIN file \subseteq Paths
  /\ \A p \in DOMAIN file : IsText(file[p])

Sidecars ==
  /\ DOMAIN meta \subseteq DOMAIN file
  /\ \A p \in DOMAIN meta : meta[p] \in Meta

Counts ==
  /\ locked \subseteq DOMAIN file
  /\ left \in Allowance
  /\ next \in Nat \ {0}
  /\ saved \subseteq Messages /\ given \subseteq Messages

SlotOK(x, M) == DOMAIN x = {"log", "pers"} /\ x.log \in Seq(M)
SlotsOK(f, M) ==
  /\ DOMAIN f = Controllers
  /\ \A c \in Controllers : DOMAIN f[c] = Slots /\ \A i \in Slots : SlotOK(f[c][i], M)
Runtimes ==
  /\ SlotsOK(slot, Messages)
  /\ cur \in [Controllers -> Slots]
  /\ path \in [Controllers -> DOMAIN file]

\* r, where F are the paths in use and M the messages so far.
ThreadOK(r, F, M) ==
  /\ DOMAIN r = Fields
  /\ r.path \in Paths /\ (r.pc # "branchFile" => r.path \in F)
  /\ r.home \in F
  /\ r.text \in Seq(M)
  /\ r.pc = "lock" => r.s \in Slots
  /\ r.base \in Nat /\ r.start \in Nat
  /\ r.m \in Meta
  /\ r.mine \subseteq M
  /\ r.then \in Resting
ThreadsOK == DOMAIN th = Threads /\ \A t \in Threads : ThreadOK(th[t], DOMAIN file, Messages)

TypeInv == Files /\ Sidecars /\ Counts /\ Runtimes /\ ThreadsOK

-----------------------------------------------------------------------------
(* Locks, and what is on the file while one is held.                       *)

Holder(r) == r.pc \in Holding
LockHeld == \A t \in Threads : Holder(th[t]) => th[t].path \in locked
LockAlone ==
  \A t, u \in Threads : t # u /\ Holder(th[t]) /\ Holder(th[u]) => th[t].path # th[u].path

Replaces(r, f) ==
  \/ IsPrefix(f[r.path], r.text)
  \/ r.was # NoBase /\ r.was.path = r.path /\ r.was.text = f[r.path]

\* What r may rely on, f being the files.
WriteOK(r, f) ==
  /\ r.pc = "write" => Replaces(r, f)
  /\ r.pc \in Holding \ {"write"} => f[r.path] = r.text
  /\ r.pc = "branchFile" => r.path # <<>> /\ Last(r.path) = r.text
WritesOK == \A t \in Threads : WriteOK(th[t], file)

LockInv == LockHeld /\ LockAlone /\ WritesOK

Inv == TypeInv /\ LockInv

StoreStep == [Store!Next]_(Store!vars)

-----------------------------------------------------------------------------
(* Data.                                                                   *)

\* A set of numbers has a least one: a descent of numbers would be a descent
\* of finite sets.
LEMMA LeastNumber ==
  ASSUME NEW T \in SUBSET Nat, T # {}
  PROVE  \E i \in T : \A j \in T : i <= j
<1> DEFINE Below(n) == 0 .. n - 1
           R == StrictSubsetOrdering(Nat)
           Sets == {Below(n) : n \in T}
<1>1. IsWellFoundedOn(R, FiniteSubsetsOf(Nat))
  BY FS_StrictSubsetOrderingWellFounded
<1>2. \A n \in Nat : Below(n) \in FiniteSubsetsOf(Nat)
  <2> TAKE n \in Nat
  <2>1. IsFiniteSet(0 .. n - 1)
    BY FS_Interval
  <2>2. 0 .. n - 1 \subseteq Nat
    BY SMT
  <2> QED BY <2>1, <2>2 DEF FiniteSubsetsOf
<1>3. Sets \subseteq FiniteSubsetsOf(Nat) /\ Sets # {}
  BY <1>2
<1>4. PICK X \in Sets : \A Y \in Sets : ~(<<Y, X>> \in R)
  <2> HIDE DEF Sets, R
  <2> QED BY <1>1, <1>3, WFMin
<1>5. PICK m \in T : X = Below(m)
  OBVIOUS
<1>6. ASSUME NEW n \in T, n < m
      PROVE  FALSE
  <2>1. Below(n) \subseteq Below(m) /\ Below(n) # Below(m)
    <3>1. Below(n) \subseteq Below(m)
      BY <1>6, SMT
    <3>2. n \in Below(m) /\ n \notin Below(n)
      BY <1>6, SMT
    <3> QED BY <3>1, <3>2
  <2>2. Below(n) \in SUBSET Nat /\ Below(m) \in SUBSET Nat
    BY <1>2 DEF FiniteSubsetsOf
  <2>3. <<Below(n), Below(m)>> \in R
    BY <2>1, <2>2 DEF StrictSubsetOrdering
  <2>4. Below(n) \in Sets
    OBVIOUS
  <2> QED BY <2>3, <2>4, <1>4, <1>5
<1>7. \A n \in T : m <= n
  BY <1>6, SMT
<1> QED BY <1>7

LEMMA CutText ==
  ASSUME NEW M, NEW text \in Seq(M), NEW k \in Nat, k <= Len(text)
  PROVE  SubSeq(text, 1, k) \in Seq(M)
<1>1. \A i \in 1 .. k : text[i] \in M
  BY ElementOfSeq, LenProperties, SMT
<1> QED BY <1>1, SubSeqProperties

LEMMA StrippedText ==
  ASSUME NEW M, NEW text \in Seq(M), NEW k \in Nat, k < Len(text)
  PROVE  Stripped(text, k) \in Seq(M)
<1> DEFINE prompts == {i \in k + 1 .. Len(text) : IsUser(text[i])}
           least == CHOOSE i \in prompts : \A j \in prompts : i <= j
           rest == IF prompts = {} THEN <<>> ELSE << text[least] >>
<1>1. SubSeq(text, 1, k) \in Seq(M)
  BY CutText, LenProperties, SMT
<1>2. rest \in Seq(M)
  <2>1. CASE prompts = {}
    BY <2>1, EmptySeq
  <2>2. CASE prompts # {}
    <3>0. Len(text) \in Nat
      BY LenProperties
    <3>1. prompts \in SUBSET Nat
      BY <3>0, SMT
    <3>2. \E i \in prompts : \A j \in prompts : i <= j
      <4> HIDE DEF prompts
      <4> QED BY <3>1, <2>2, LeastNumber
    <3>3. least \in prompts
      <4> HIDE DEF prompts
      <4> QED BY <3>2
    <3>4. least \in 1 .. Len(text)
      <4> HIDE DEF least
      <4> QED BY <3>0, <3>3, SMT
    <3>5. text[least] \in M
      <4> HIDE DEF least
      <4> QED BY <3>4, ElementOfSeq
    <3> QED BY <2>2, <3>5
  <2> QED BY <2>1, <2>2
<1>3. Stripped(text, k) = SubSeq(text, 1, k) \o rest
  BY DEF Stripped
<1> QED
  <2> HIDE DEF rest
  <2> QED BY <1>1, <1>2, <1>3, ConcatProperties

LEMMA PutFacts ==
  ASSUME NEW f, NEW k, NEW v
  PROVE  /\ DOMAIN Put(f, k, v) = DOMAIN f \cup {k}
         /\ Put(f, k, v)[k] = v
         /\ \A x \in DOMAIN f : x # k => Put(f, k, v)[x] = f[x]
BY DEF Put

LEMMA NewPath ==
  ASSUME NEW p \in Paths, NEW text \in Seq(Nat \X Role)
  PROVE  /\ Append(p, text) \in Paths
         /\ Append(p, text) # <<>>
         /\ Last(Append(p, text)) = text
<1>1. /\ Append(p, text) \in Paths
      /\ Append(p, text) # <<>>
      /\ Len(Append(p, text)) = Len(p) + 1
      /\ Append(p, text)[Len(p) + 1] = text
  BY AppendProperties DEF Paths
<1> QED BY <1>1 DEF Last

LEMMA AllMessages ==
  ASSUME next \in Nat \ {0}
  PROVE  /\ Messages \subseteq Nat \X Role
         /\ Seq(Messages) \subseteq Seq(Nat \X Role)
<1>1. Messages \subseteq Nat \X Role
  BY SMT DEF Messages, Role
<1> QED BY <1>1, SeqMonotonic

LEMMA SidecarOK ==
  ASSUME Sidecars, NEW p
  PROVE  MetaOf(p) \in Meta
<1>1. NoMeta \in Meta
  BY SMT DEF NoMeta, NoMark, Meta, Mark
<1> QED BY <1>1 DEF Sidecars, MetaOf

LEMMA RevisionOK ==
  ASSUME NEW m \in Meta, NEW n \in Nat
  PROVE  [m EXCEPT !.rev = n] \in Meta
BY SMT DEF Meta

LEMMA MergedOK ==
  ASSUME Sidecars, NEW m \in Meta, NEW p
  PROVE  Merged(m, p) \in Meta
<1>1. MetaOf(p).rev \in Nat /\ m.rev \in Nat
  BY SidecarOK, SMT DEF Meta
<1> QED BY <1>1, RevisionOK DEF Merged

LEMMA EditedOK ==
  ASSUME NEW t \in Threads, ThreadsOK, NEW m \in Meta
  PROVE  Edited(t, m) \in Meta
<1>1. th[t].start \in Nat
  BY DEF ThreadsOK, ThreadOK
<1>2. NoMark \in Mark /\ [on |-> TRUE, start |-> th[t].start] \in Mark
  BY <1>1, SMT DEF NoMark, Mark
<1>3. ASSUME NEW k \in Mark
      PROVE  [m EXCEPT !.mark = k] \in Meta
  BY <1>3, SMT DEF Meta
<1> QED BY <1>2, <1>3 DEF Edited

\* With four slots one is always free.
LEMMA FreeSlotOK ==
  ASSUME NEW c
  PROVE  FreeSlot(c) \in Slots
<1> DEFINE x == cur[c]
           y == th[<<c, "turn">>].s
           z == th[<<c, "auto">>].s
<1>1. \E i \in 1 .. 4 : i # x /\ i # y /\ i # z
  <2> HIDE DEF x, y, z
  <2>1. 1 \in 1 .. 4 /\ 2 \in 1 .. 4 /\ 3 \in 1 .. 4 /\ 4 \in 1 .. 4
    BY SMT
  <2> QED BY <2>1, SMT
<1>2. \E i \in Slots : i # cur[c] /\ \A t \in ThreadsOf(c) : th[t].s # i
  BY <1>1 DEF Slots, ThreadsOf, Turn
<1> QED BY <1>2 DEF FreeSlot

LEMMA SpendOK ==
  ASSUME left \in Allowance,
         NEW w \in {"messages", "rewinds", "cancels", "exits", "ticks"},
         left[w] > 0, Spend(w)
  PROVE  left' \in Allowance
<1>1. left[w] \in Nat /\ left[w] - 1 \in Nat
  BY SMT DEF Allowance
<1>2. left' = [left EXCEPT ![w] = left[w] - 1]
  BY DEF Spend
<1> HIDE DEF Spend
<1>3. CASE w = "messages"
  BY <1>1, <1>2, <1>3, SMT DEF Allowance
<1>4. CASE w = "rewinds"
  BY <1>1, <1>2, <1>4, SMT DEF Allowance
<1>5. CASE w = "cancels"
  BY <1>1, <1>2, <1>5, SMT DEF Allowance
<1>6. CASE w = "exits"
  BY <1>1, <1>2, <1>6, SMT DEF Allowance
<1>7. CASE w = "ticks"
  BY <1>1, <1>2, <1>7, SMT DEF Allowance
<1> QED BY <1>3, <1>4, <1>5, <1>6, <1>7

-----------------------------------------------------------------------------
(* A thread's record, as the steps change it.                              *)

LEMMA Grows ==
  ASSUME NEW F, NEW M, NEW r, ThreadOK(r, F, M), NEW G, NEW N, F \subseteq G, M \subseteq N
  PROVE  ThreadOK(r, G, N)
<1>1. r.text \in Seq(N)
  BY SeqMonotonic DEF ThreadOK
<1> QED BY <1>1 DEF ThreadOK

LEMMA IdleOK ==
  ASSUME NEW F, NEW M, Main \in F, F \subseteq Paths,
         NEW r, r = Idle \/ r = Down
  PROVE  /\ ThreadOK(r, F, M) /\ r.pc \in {"idle", "down"} /\ r.was = NoBase
         /\ r.mine = {} /\ r.text = <<>> /\ r.path = Main
<1>1. /\ DOMAIN Idle = Fields /\ Idle.pc = "idle" /\ Idle.s = 0 /\ Idle.path = Main
      /\ Idle.text = <<>> /\ Idle.base = 0 /\ Idle.m = NoMeta /\ Idle.then = "idle"
      /\ Idle.start = 0 /\ Idle.mine = {} /\ Idle.home = Main /\ Idle.was = NoBase
  BY SMT DEF Idle, Fields
<1>2. /\ DOMAIN Down = Fields /\ Down.pc = "down" /\ Down.s = 0 /\ Down.path = Main
      /\ Down.text = <<>> /\ Down.base = 0 /\ Down.m = NoMeta /\ Down.then = "idle"
      /\ Down.start = 0 /\ Down.mine = {} /\ Down.home = Main /\ Down.was = NoBase
  <2>1. Down = [Idle EXCEPT !.pc = "down"]
    BY DEF Down
  <2> HIDE DEF Idle
  <2> QED BY <1>1, <2>1, SMT DEF Fields
<1>3. /\ r.pc \in {"idle", "down"} /\ r.was = NoBase /\ r.mine = {}
      /\ DOMAIN r = Fields /\ r.path = Main /\ r.text = <<>> /\ r.base = 0 /\ r.m = NoMeta
      /\ r.then = "idle" /\ r.start = 0 /\ r.home = Main
  BY <1>1, <1>2
<1>4. NoMeta \in Meta
  BY SMT DEF NoMeta, NoMark, Meta, Mark
<1>5. <<>> \in Seq(M)
  BY EmptySeq
<1>6. ThreadOK(r, F, M)
  BY <1>3, <1>4, <1>5, SMT DEF ThreadOK, Resting
<1> QED BY <1>3, <1>6

WithPc(q, pc) == [q EXCEPT !.pc = pc]
WithMeta(q, pc, m) == [q EXCEPT !.pc = pc, !.m = m]
WithLock(q, base, was) == [q EXCEPT !.pc = "write", !.base = base, !.was = was]
WithRead(q) == [q EXCEPT !.pc = "read", !.was = NoBase]
WithText(q, text) == [q EXCEPT !.pc = "install", !.text = text]
WithBranch(q, s, text, p) == [q EXCEPT !.pc = "branchFile", !.s = s, !.text = text, !.path = p]
WithStart(q, start) == [q EXCEPT !.pc = "prepare", !.kind = "turn", !.start = start]
WithEdit(q, job, p, then) == [q EXCEPT !.pc = "read", !.job = job, !.path = p, !.then = then]
WithSaid(q, pc, x) == [q EXCEPT !.pc = pc, !.mine = @ \cup {x}]

LEMMA PcSet ==
  ASSUME NEW F, NEW M, NEW q, ThreadOK(q, F, M), q.path \in F,
         NEW pc, pc # "lock"
  PROVE  /\ ThreadOK(WithPc(q, pc), F, M)
         /\ WithPc(q, pc).pc = pc
         /\ WithPc(q, pc).was = q.was
         /\ WithPc(q, pc).text = q.text
         /\ WithPc(q, pc).path = q.path
<1> DEFINE r == WithPc(q, pc)
<1>0. DOMAIN q = Fields
  BY DEF ThreadOK
<1>1. /\ DOMAIN r = Fields /\ r.pc = pc /\ r.was = q.was /\ r.text = q.text /\ r.path = q.path
      /\ r.home = q.home /\ r.base = q.base /\ r.start = q.start /\ r.m = q.m
      /\ r.mine = q.mine /\ r.then = q.then
  BY <1>0, SMT DEF Fields, WithPc
<1> HIDE DEF r
<1>2. ThreadOK(r, F, M)
  BY <1>1, SMT DEF ThreadOK
<1> QED BY <1>1, <1>2 DEF r

LEMMA MetaSet ==
  ASSUME NEW F, NEW M, NEW q, ThreadOK(q, F, M), q.path \in F,
         NEW pc, pc # "lock", NEW m \in Meta
  PROVE  /\ ThreadOK(WithMeta(q, pc, m), F, M)
         /\ WithMeta(q, pc, m).pc = pc
         /\ WithMeta(q, pc, m).was = q.was
         /\ WithMeta(q, pc, m).text = q.text
         /\ WithMeta(q, pc, m).path = q.path
<1> DEFINE r == WithMeta(q, pc, m)
<1>0. DOMAIN q = Fields
  BY DEF ThreadOK
<1>1. /\ DOMAIN r = Fields /\ r.pc = pc /\ r.was = q.was /\ r.text = q.text /\ r.path = q.path
      /\ r.home = q.home /\ r.base = q.base /\ r.start = q.start /\ r.m = m
      /\ r.mine = q.mine /\ r.then = q.then
  BY <1>0, SMT DEF Fields, WithMeta
<1> HIDE DEF r
<1>2. ThreadOK(r, F, M)
  BY <1>1, SMT DEF ThreadOK
<1> QED BY <1>1, <1>2 DEF r

LEMMA LockedSet ==
  ASSUME NEW F, NEW M, NEW q, ThreadOK(q, F, M), q.path \in F,
         NEW base \in Nat, NEW was
  PROVE  /\ ThreadOK(WithLock(q, base, was), F, M)
         /\ WithLock(q, base, was).pc = "write"
         /\ WithLock(q, base, was).was = was
         /\ WithLock(q, base, was).text = q.text
         /\ WithLock(q, base, was).path = q.path
<1> DEFINE r == WithLock(q, base, was)
<1>0. DOMAIN q = Fields
  BY DEF ThreadOK
<1>1. /\ DOMAIN r = Fields /\ r.pc = "write" /\ r.was = was /\ r.text = q.text /\ r.path = q.path
      /\ r.home = q.home /\ r.base = base /\ r.start = q.start /\ r.m = q.m
      /\ r.mine = q.mine /\ r.then = q.then
  BY <1>0, SMT DEF Fields, WithLock
<1> HIDE DEF r
<1>2. ThreadOK(r, F, M)
  BY <1>1, SMT DEF ThreadOK
<1> QED BY <1>1, <1>2 DEF r

LEMMA ReadSet ==
  ASSUME NEW F, NEW M, NEW q, ThreadOK(q, F, M), q.path \in F
  PROVE  /\ ThreadOK(WithRead(q), F, M)
         /\ WithRead(q).pc = "read"
         /\ WithRead(q).was = NoBase
         /\ WithRead(q).path = q.path
<1> DEFINE r == WithRead(q)
<1>0. DOMAIN q = Fields
  BY DEF ThreadOK
<1>1. /\ DOMAIN r = Fields /\ r.pc = "read" /\ r.was = NoBase /\ r.text = q.text /\ r.path = q.path
      /\ r.home = q.home /\ r.base = q.base /\ r.start = q.start /\ r.m = q.m
      /\ r.mine = q.mine /\ r.then = q.then
  BY <1>0, SMT DEF Fields, WithRead
<1> HIDE DEF r
<1>2. ThreadOK(r, F, M)
  BY <1>1, SMT DEF ThreadOK
<1> QED BY <1>1, <1>2 DEF r

LEMMA LoadSet ==
  ASSUME NEW F, NEW M, NEW q, ThreadOK(q, F, M), q.path \in F,
         NEW text \in Seq(M)
  PROVE  /\ ThreadOK(WithText(q, text), F, M)
         /\ WithText(q, text).pc = "install"
         /\ WithText(q, text).was = q.was
         /\ WithText(q, text).text = text
         /\ WithText(q, text).path = q.path
<1> DEFINE r == WithText(q, text)
<1>0. DOMAIN q = Fields
  BY DEF ThreadOK
<1>1. /\ DOMAIN r = Fields /\ r.pc = "install" /\ r.was = q.was /\ r.text = text /\ r.path = q.path
      /\ r.home = q.home /\ r.base = q.base /\ r.start = q.start /\ r.m = q.m
      /\ r.mine = q.mine /\ r.then = q.then
  BY <1>0, SMT DEF Fields, WithText
<1> HIDE DEF r
<1>2. ThreadOK(r, F, M)
  BY <1>1, SMT DEF ThreadOK
<1> QED BY <1>1, <1>2 DEF r

LEMMA BranchSet ==
  ASSUME NEW F, NEW M, NEW q, ThreadOK(q, F, M),
         NEW s, NEW text \in Seq(M), NEW p \in Paths
  PROVE  /\ ThreadOK(WithBranch(q, s, text, p), F, M)
         /\ WithBranch(q, s, text, p).pc = "branchFile"
         /\ WithBranch(q, s, text, p).was = q.was
         /\ WithBranch(q, s, text, p).text = text
         /\ WithBranch(q, s, text, p).path = p
<1> DEFINE r == WithBranch(q, s, text, p)
<1>0. DOMAIN q = Fields
  BY DEF ThreadOK
<1>1. /\ DOMAIN r = Fields /\ r.pc = "branchFile" /\ r.was = q.was /\ r.text = text /\ r.path = p
      /\ r.home = q.home /\ r.base = q.base /\ r.start = q.start /\ r.m = q.m
      /\ r.mine = q.mine /\ r.then = q.then
  BY <1>0, SMT DEF Fields, WithBranch
<1> HIDE DEF r
<1>2. ThreadOK(r, F, M)
  BY <1>1, SMT DEF ThreadOK
<1> QED BY <1>1, <1>2 DEF r

LEMMA StartSet ==
  ASSUME NEW F, NEW M, NEW q, ThreadOK(q, F, M), q.path \in F,
         NEW start \in Nat
  PROVE  /\ ThreadOK(WithStart(q, start), F, M)
         /\ WithStart(q, start).pc = "prepare"
         /\ WithStart(q, start).was = q.was
<1> DEFINE r == WithStart(q, start)
<1>0. DOMAIN q = Fields
  BY DEF ThreadOK
<1>1. /\ DOMAIN r = Fields /\ r.pc = "prepare" /\ r.was = q.was /\ r.text = q.text /\ r.path = q.path
      /\ r.home = q.home /\ r.base = q.base /\ r.start = start /\ r.m = q.m
      /\ r.mine = q.mine /\ r.then = q.then
  BY <1>0, SMT DEF Fields, WithStart
<1> HIDE DEF r
<1>2. ThreadOK(r, F, M)
  BY <1>1, SMT DEF ThreadOK
<1> QED BY <1>1, <1>2 DEF r

LEMMA EditSet ==
  ASSUME NEW F, NEW M, NEW q, ThreadOK(q, F, M), F \subseteq Paths,
         NEW job, NEW p \in F, NEW then \in Resting
  PROVE  /\ ThreadOK(WithEdit(q, job, p, then), F, M)
         /\ WithEdit(q, job, p, then).pc = "read"
         /\ WithEdit(q, job, p, then).was = q.was
<1> DEFINE r == WithEdit(q, job, p, then)
<1>0. DOMAIN q = Fields
  BY DEF ThreadOK
<1>1. /\ DOMAIN r = Fields /\ r.pc = "read" /\ r.was = q.was /\ r.text = q.text /\ r.path = p
      /\ r.home = q.home /\ r.base = q.base /\ r.start = q.start /\ r.m = q.m
      /\ r.mine = q.mine /\ r.then = then
  BY <1>0, SMT DEF Fields, WithEdit
<1> HIDE DEF r
<1>2. ThreadOK(r, F, M)
  BY <1>1, SMT DEF ThreadOK
<1> QED BY <1>1, <1>2 DEF r

LEMMA SaySet ==
  ASSUME NEW F, NEW M, NEW q, ThreadOK(q, F, M), q.path \in F,
         NEW pc, pc # "lock", NEW x \in M
  PROVE  /\ ThreadOK(WithSaid(q, pc, x), F, M)
         /\ WithSaid(q, pc, x).pc = pc
         /\ WithSaid(q, pc, x).was = q.was
<1> DEFINE r == WithSaid(q, pc, x)
<1>0. DOMAIN q = Fields
  BY DEF ThreadOK
<1>1. /\ DOMAIN r = Fields /\ r.pc = pc /\ r.was = q.was /\ r.text = q.text /\ r.path = q.path
      /\ r.home = q.home /\ r.base = q.base /\ r.start = q.start /\ r.m = q.m
      /\ r.mine = q.mine \cup {x} /\ r.then = q.then
  BY <1>0, SMT DEF Fields, WithSaid
<1> HIDE DEF r
<1>2. ThreadOK(r, F, M)
  BY <1>1, SMT DEF ThreadOK
<1> QED BY <1>1, <1>2 DEF r

Saved(t, text, rewrite, job, then) == [Saving(t, text, rewrite, job, then) EXCEPT !.mine = {}]

\* A save by t that is about to take its lock.
SaveOK(r, t) == ThreadOK(r, DOMAIN file, Messages) /\ r.pc = "lock" /\ r.was = th[t].was

LEMMA SavingSet ==
  ASSUME TypeInv, NEW t \in Threads,
         NEW text \in Seq(Messages), NEW rewrite, NEW job, NEW then \in Resting
  PROVE  /\ SaveOK(Saving(t, text, rewrite, job, then), t)
         /\ SaveOK(Saved(t, text, rewrite, job, then), t)
<1> DEFINE q == th[t]
           s == Saving(t, text, rewrite, job, then)
           r == Saved(t, text, rewrite, job, then)
<1>1. /\ ThreadOK(q, DOMAIN file, Messages) /\ t[1] \in Controllers
  BY DEF TypeInv, ThreadsOK, Threads
<1>2. cur[t[1]] \in Slots /\ path[t[1]] \in DOMAIN file /\ path[t[1]] \in Paths
  BY <1>1 DEF TypeInv, Runtimes, Files
<1>3. DOMAIN q = Fields
  BY <1>1 DEF ThreadOK
<1>4. s = [q EXCEPT !.pc = "lock", !.s = cur[t[1]], !.path = path[t[1]], !.text = text,
                    !.rewrite = rewrite, !.job = job, !.then = then]
  BY DEF Saving
<1>5. r = [s EXCEPT !.mine = {}]
  BY DEF Saved
<1> HIDE DEF q, s, r
<1>6. /\ DOMAIN s = Fields /\ s.pc = "lock" /\ s.was = q.was /\ s.text = text /\ s.path = path[t[1]]
      /\ s.home = q.home /\ s.base = q.base /\ s.start = q.start /\ s.m = q.m
      /\ s.mine = q.mine /\ s.then = then /\ s.s = cur[t[1]]
  BY <1>3, <1>4, SMT DEF Fields
<1>7. /\ DOMAIN r = Fields /\ r.pc = "lock" /\ r.was = q.was /\ r.text = text /\ r.path = path[t[1]]
      /\ r.home = q.home /\ r.base = q.base /\ r.start = q.start /\ r.m = q.m
      /\ r.mine = {} /\ r.then = then /\ r.s = cur[t[1]]
  BY <1>5, <1>6, SMT DEF Fields
<1>8. ThreadOK(s, DOMAIN file, Messages)
  BY <1>1, <1>2, <1>6, SMT DEF ThreadOK
<1>9. ThreadOK(r, DOMAIN file, Messages)
  BY <1>1, <1>2, <1>7, SMT DEF ThreadOK
<1>10. SaveOK(s, t) /\ SaveOK(r, t)
  BY <1>6, <1>7, <1>8, <1>9 DEF SaveOK, q
<1> QED BY <1>10 DEF s, r

\* The record Return leaves is quiet.
Returned(t) ==
  IF th[t].then = "idle" THEN Idle
  ELSE [th[t] EXCEPT !.pc = th[t].then, !.job = "none", !.s = 0, !.path = Main, !.text = <<>>,
                     !.base = 0, !.m = NoMeta, !.then = "idle", !.rewrite = FALSE, !.was = NoBase]

LEMMA ReturnSet ==
  ASSUME TypeInv, NEW t \in Threads
  PROVE  /\ Return(t) = [th EXCEPT ![t] = Returned(t)]
         /\ ThreadOK(Returned(t), DOMAIN file, Messages)
         /\ Returned(t).pc \in Resting /\ Returned(t).was = NoBase
<1> DEFINE q == th[t]
           r == Returned(t)
<1>1. Main \in DOMAIN file /\ DOMAIN file \subseteq Paths
  BY DEF TypeInv, Files
<1>2. ThreadOK(q, DOMAIN file, Messages)
  BY DEF TypeInv, ThreadsOK
<1>3. CASE q.then = "idle"
  <2>1. r = Idle /\ Return(t) = [th EXCEPT ![t] = Returned(t)]
    BY <1>3 DEF Returned, Return
  <2>2. ThreadOK(Idle, DOMAIN file, Messages) /\ Idle.was = NoBase
    BY <1>1, IdleOK, Zenon
  <2>3. Idle.pc = "idle"
    BY DEF Idle
  <2> QED BY <2>1, <2>2, <2>3 DEF Resting
<1>4. CASE q.then # "idle"
  <2>1. r = [q EXCEPT !.pc = q.then, !.job = "none", !.s = 0, !.path = Main, !.text = <<>>,
                      !.base = 0, !.m = NoMeta, !.then = "idle", !.rewrite = FALSE, !.was = NoBase]
    BY <1>4 DEF Returned
  <2>2. Return(t) = [th EXCEPT ![t] = r]
    <3> DEFINE h == [q EXCEPT !.pc = q.then, !.job = "none", !.s = 0, !.path = Main, !.text = <<>>]
               H == [th EXCEPT ![t].pc = q.then, ![t].job = "none", ![t].s = 0,
                               ![t].path = Main, ![t].text = <<>>]
    <3>1. DOMAIN th = Threads
      BY DEF TypeInv, ThreadsOK
    <3>2. H = [th EXCEPT ![t] = h]
      BY <3>1, Zenon
    <3>3. r = [h EXCEPT !.base = 0, !.m = NoMeta, !.then = "idle", !.rewrite = FALSE, !.was = NoBase]
      BY <2>1
    <3>4. Return(t) = [H EXCEPT ![t].base = 0, ![t].m = NoMeta, ![t].then = "idle",
                                ![t].rewrite = FALSE, ![t].was = NoBase]
      BY <1>4 DEF Return
    <3> HIDE DEF h, H, q, r
    <3>5. DOMAIN H = Threads /\ H[t] = h /\ \A u \in Threads : u # t => H[u] = th[u]
      BY <3>1, <3>2, Zenon
    <3>6. Return(t) = [H EXCEPT ![t] = r]
      BY <3>3, <3>4, <3>5, Zenon
    <3>7. [H EXCEPT ![t] = r] = [th EXCEPT ![t] = r]
      BY <3>1, <3>2, Zenon
    <3> QED BY <3>6, <3>7
  <2>3. DOMAIN q = Fields
    BY <1>2 DEF ThreadOK
  <2> HIDE DEF q, r
  <2>4. /\ DOMAIN r = Fields /\ r.pc = q.then /\ r.was = NoBase /\ r.text = <<>> /\ r.path = Main
        /\ r.home = q.home /\ r.base = 0 /\ r.start = q.start /\ r.m = NoMeta
        /\ r.mine = q.mine /\ r.then = "idle"
    <3> DEFINE h == [q EXCEPT !.pc = q.then, !.job = "none", !.s = 0, !.path = Main, !.text = <<>>]
    <3>1. r = [h EXCEPT !.base = 0, !.m = NoMeta, !.then = "idle", !.rewrite = FALSE, !.was = NoBase]
      BY <2>1
    <3>2. /\ DOMAIN h = Fields /\ h.pc = q.then /\ h.text = <<>> /\ h.path = Main
          /\ h.home = q.home /\ h.start = q.start /\ h.mine = q.mine
      BY <2>3, SMT DEF Fields
    <3> HIDE DEF h
    <3>3. /\ DOMAIN r = Fields /\ r.base = 0 /\ r.m = NoMeta /\ r.then = "idle" /\ r.was = NoBase
          /\ r.pc = h.pc /\ r.text = h.text /\ r.path = h.path
          /\ r.home = h.home /\ r.start = h.start /\ r.mine = h.mine
      BY <3>1, <3>2, SMT DEF Fields
    <3> QED BY <3>2, <3>3
  <2>5. NoMeta \in Meta
    BY SMT DEF NoMeta, NoMark, Meta, Mark
  <2>6. <<>> \in Seq(Messages)
    BY EmptySeq
  <2>7. q.then \in Resting
    BY <1>2 DEF ThreadOK
  <2>8. ThreadOK(r, DOMAIN file, Messages)
    BY <1>1, <1>2, <2>4, <2>5, <2>6, <2>7, SMT DEF ThreadOK, Resting
  <2> QED BY <2>2, <2>4, <2>7, <2>8 DEF r
<1> QED BY <1>3, <1>4

-----------------------------------------------------------------------------
(* What every step has to show.                                            *)

LEMMA Moved ==
  ASSUME ThreadsOK, NEW t \in Threads, NEW r, th' = [th EXCEPT ![t] = r]
  PROVE  /\ DOMAIN th' = Threads /\ th'[t] = r
         /\ \A u \in Threads \ {t} : th'[u] = th[u]
BY SMT DEF ThreadsOK

\* The threads of U move, the others stay.
LEMMA SomeMove ==
  ASSUME Inv, NEW U \in SUBSET Threads,
         DOMAIN th' = Threads, \A u \in Threads \ U : th'[u] = th[u],
         DOMAIN file \subseteq DOMAIN file', Messages \subseteq Messages',
         \A t \in U : /\ ThreadOK(th'[t], DOMAIN file', Messages')
                      /\ WriteOK(th'[t], file'),
         \A u \in Threads \ U : Holder(th[u]) =>
            th[u].path \in locked' /\ file'[th[u].path] = file[th[u].path],
         \A t \in U : Holder(th'[t]) =>
            /\ th'[t].path \in locked'
            /\ \A u \in Threads \ {t} : Holder(th[u]) => th[u].path # th'[t].path
            /\ \A u \in U \ {t} : ~Holder(th'[u])
  PROVE  ThreadsOK' /\ LockInv'
<1>1. /\ ThreadsOK /\ LockHeld /\ LockAlone /\ WritesOK
  BY DEF Inv, TypeInv, LockInv
<1>2. ThreadsOK'
  <2>1. ASSUME NEW t \in Threads
        PROVE  ThreadOK(th'[t], DOMAIN file', Messages')
    <3>1. CASE t \in U
      BY <3>1
    <3>2. CASE t \notin U
      <4>1. th'[t] = th[t] /\ ThreadOK(th[t], DOMAIN file, Messages)
        BY <1>1, <3>2 DEF ThreadsOK
      <4> QED BY <4>1, Grows, Zenon
    <3> QED BY <3>1, <3>2
  <2> QED BY <2>1 DEF ThreadsOK
<1>3. LockHeld'
  BY <1>1 DEF LockHeld
<1>4. LockAlone'
  <2>1. ASSUME NEW t \in Threads, NEW u \in Threads, t # u, Holder(th'[t]), Holder(th'[u])
        PROVE  th'[t].path # th'[u].path
    <3>1. CASE t \in U
      <4>1. u \notin U
        BY <2>1, <3>1
      <4> QED BY <2>1, <3>1, <4>1
    <3>2. CASE t \notin U /\ u \in U
      BY <2>1, <3>2
    <3>3. CASE t \notin U /\ u \notin U
      BY <1>1, <2>1, <3>3 DEF LockAlone
    <3> QED BY <3>1, <3>2, <3>3
  <2> QED BY <2>1 DEF LockAlone
<1>5. WritesOK'
  <2>1. ASSUME NEW t \in Threads
        PROVE  WriteOK(th'[t], file')
    <3>1. CASE t \in U
      BY <3>1
    <3>2. CASE t \notin U
      <4>1. th'[t] = th[t] /\ WriteOK(th[t], file)
        BY <1>1, <3>2 DEF WritesOK
      <4>2. Holder(th[t]) => file'[th[t].path] = file[th[t].path]
        BY <3>2
      <4> QED BY <4>1, <4>2 DEF WriteOK, Replaces, Holder, Holding
    <3> QED BY <3>1, <3>2
  <2> QED BY <2>1 DEF WritesOK
<1> QED BY <1>2, <1>3, <1>4, <1>5 DEF LockInv

\* One thread moves, and neither the files nor the locks change.
LEMMA QuietMove ==
  ASSUME Inv, NEW t \in Threads,
         DOMAIN th' = Threads, \A u \in Threads \ {t} : th'[u] = th[u],
         file' = file, locked' = locked, Messages \subseteq Messages',
         ThreadOK(th'[t], DOMAIN file, Messages'), WriteOK(th'[t], file),
         Holder(th'[t]) => Holder(th[t]) /\ th'[t].path = th[t].path
  PROVE  ThreadsOK' /\ LockInv'
<1> DEFINE U == {t}
<1>0. LockHeld /\ LockAlone
  BY DEF Inv, LockInv
<1>1. U \in SUBSET Threads /\ \A u \in Threads \ U : th'[u] = th[u]
  OBVIOUS
<1>2. \A u \in U : ThreadOK(th'[u], DOMAIN file', Messages') /\ WriteOK(th'[u], file')
  OBVIOUS
<1>3. \A u \in Threads \ U : Holder(th[u]) =>
        th[u].path \in locked' /\ file'[th[u].path] = file[th[u].path]
  BY <1>0 DEF LockHeld
<1>4. \A v \in U : Holder(th'[v]) =>
        /\ th'[v].path \in locked'
        /\ \A u \in Threads \ {v} : Holder(th[u]) => th[u].path # th'[v].path
        /\ \A u \in U \ {v} : ~Holder(th'[u])
  BY <1>0 DEF LockHeld, LockAlone
<1> HIDE DEF U
<1> QED BY <1>1, <1>2, <1>3, <1>4, SomeMove

LEMMA RestSame ==
  ASSUME TypeInv, UNCHANGED <<file, meta, locked, slot, cur, path, left, next, saved, given>>
  PROVE  Files' /\ Sidecars' /\ Counts' /\ Runtimes'
<1>1. Files /\ Sidecars /\ Counts /\ Runtimes
  BY DEF TypeInv
<1>2. Messages' = Messages
  BY DEF Messages
<1>3. Files' /\ Sidecars'
  BY <1>1, <1>2 DEF Files, Sidecars, IsText
<1>4. Counts' /\ Runtimes'
  BY <1>1, <1>2 DEF Counts, Runtimes
<1> QED BY <1>3, <1>4

\* The pair x is what a file holds.
OnFile(x) == x[1] \in DOMAIN file /\ file[x[1]] = x[2]

LEMMA SeenFacts ==
  ASSUME NEW c \in Controllers
  PROVE  /\ \A b \in Baselines(c) : b # NoBase => <<b.path, b.text>> \in Seen[c]
         /\ \A t \in Loaded(c) : <<th[t].path, th[t].text>> \in Seen[c]
         /\ \A x \in Seen'[c] : \/ \E b \in Baselines(c)' : b # NoBase /\ x = <<b.path, b.text>>
                               \/ \E t \in Loaded(c)' : x = <<th'[t].path, th'[t].text>>
<1>1. Seen[c] = {<<b.path, b.text>> : b \in Baselines(c) \ {NoBase}}
                  \cup {<<th[t].path, th[t].text>> : t \in Loaded(c)}
  BY DEF Seen
<1>2. Seen'[c] = {<<b.path, b.text>> : b \in Baselines(c)' \ {NoBase}}
                  \cup {<<th'[t].path, th'[t].text>> : t \in Loaded(c)'}
  BY DEF Seen
<1>3. \A b \in Baselines(c) : b # NoBase => <<b.path, b.text>> \in Seen[c]
  BY <1>1, Zenon
<1>4. \A t \in Loaded(c) : <<th[t].path, th[t].text>> \in Seen[c]
  BY <1>1, Zenon
<1>5. \A x \in Seen'[c] : \/ \E b \in Baselines(c)' : b # NoBase /\ x = <<b.path, b.text>>
                        \/ \E t \in Loaded(c)' : x = <<th'[t].path, th'[t].text>>
  BY <1>2, Zenon
<1> QED BY <1>3, <1>4, <1>5

\* A controller whose sessions and threads are left alone has seen what it had.
LEMMA SeenSame ==
  ASSUME NEW d \in Controllers, slot'[d] = slot[d], \A t \in ThreadsOf(d) : th'[t] = th[t]
  PROVE  Seen'[d] = Seen[d]
<1>1. Baselines(d)' = Baselines(d)
  BY DEF Baselines
<1>2. Loaded(d)' = Loaded(d)
  BY DEF Loaded
<1>3. {<<th'[t].path, th'[t].text>> : t \in Loaded(d)}
        = {<<th[t].path, th[t].text>> : t \in Loaded(d)}
  BY DEF Loaded
<1>4. Seen'[d] = {<<b.path, b.text>> : b \in Baselines(d)' \ {NoBase}}
                  \cup {<<th'[t].path, th'[t].text>> : t \in Loaded(d)'}
  BY DEF Seen
<1>5. Seen[d] = {<<b.path, b.text>> : b \in Baselines(d) \ {NoBase}}
                  \cup {<<th[t].path, th[t].text>> : t \in Loaded(d)}
  BY DEF Seen
<1> QED BY <1>1, <1>2, <1>3, <1>4, <1>5

\* Where the files stay, whatever c knows anew is on a file: it observes.
LEMMA Observes ==
  ASSUME NEW c \in Controllers, file' = file,
         \A d \in Controllers \ {c} : slot'[d] = slot[d],
         \A u \in Threads \ ThreadsOf(c) : th'[u] = th[u],
         \A b \in Baselines(c)' : b # NoBase =>
            <<b.path, b.text>> \in Seen[c] \/ OnFile(<<b.path, b.text>>),
         \A t \in Loaded(c)' :
            <<th'[t].path, th'[t].text>> \in Seen[c] \/ OnFile(<<th'[t].path, th'[t].text>>)
  PROVE  StoreStep
<1>1. ASSUME NEW d \in Controllers, d # c
      PROVE  Seen'[d] = Seen[d]
  <2>1. slot'[d] = slot[d] /\ \A t \in ThreadsOf(d) : th'[t] = th[t]
    BY <1>1 DEF ThreadsOf, Turn, Threads
  <2> QED BY <2>1, SeenSame, Zenon
<1>2. ASSUME NEW x \in Seen'[c]
      PROVE  x \in Seen[c] \/ OnFile(x)
  <2>1. \/ \E b \in Baselines(c)' : b # NoBase /\ x = <<b.path, b.text>>
        \/ \E t \in Loaded(c)' : x = <<th'[t].path, th'[t].text>>
    BY SeenFacts, Zenon
  <2> QED BY <2>1, Zenon
<1>3. Seen' = [Seen EXCEPT ![c] = Seen'[c]]
  <2>1. Seen = [d \in Controllers |-> Seen[d]] /\ Seen' = [d \in Controllers |-> Seen'[d]]
    BY DEF Seen
  <2> QED BY <1>1, <2>1
<1>4. Store!Observe(c)
  BY <1>2, <1>3 DEF Store!Observe, OnFile
<1> QED BY <1>4 DEF StoreStep, Store!Next

\* The moved thread learns nothing: its baseline is one its controller has, and
\* what it has loaded is on a file.
LEMMA NothingLearned ==
  ASSUME NEW t \in Threads, ThreadsOK,
         DOMAIN th' = Threads, \A u \in Threads \ {t} : th'[u] = th[u],
         file' = file, DOMAIN slot = Controllers,
         \A d \in Controllers \ {t[1]} : slot'[d] = slot[d],
         \A i \in Slots : slot'[t[1]][i].pers = slot[t[1]][i].pers,
         th'[t].was \in Baselines(t[1]) \cup {NoBase},
         th'[t].pc = "install" => OnFile(<<th'[t].path, th'[t].text>>)
  PROVE  StoreStep
<1> DEFINE c == t[1]
<1>1. c \in Controllers /\ t \in ThreadsOf(c) /\ ThreadsOf(c) \subseteq Threads
  BY DEF Threads, ThreadsOf, Turn
<1>2. /\ \A b \in Baselines(c) : b # NoBase => <<b.path, b.text>> \in Seen[c]
      /\ \A u \in Loaded(c) : <<th[u].path, th[u].text>> \in Seen[c]
  BY <1>1, SeenFacts, Zenon
<1>3. \A b \in Baselines(c)' : b # NoBase => b \in Baselines(c)
  BY <1>1 DEF Baselines
<1>4. \A b \in Baselines(c)' : b # NoBase =>
        <<b.path, b.text>> \in Seen[c] \/ OnFile(<<b.path, b.text>>)
  BY <1>2, <1>3, Zenon
<1>5. ASSUME NEW u \in Loaded(c)'
      PROVE  <<th'[u].path, th'[u].text>> \in Seen[c] \/ OnFile(<<th'[u].path, th'[u].text>>)
  <2>1. CASE u = t
    BY <1>5, <2>1 DEF Loaded
  <2>2. CASE u # t
    <3>1. th'[u] = th[u] /\ u \in Loaded(c)
      BY <1>1, <1>5, <2>2 DEF Loaded
    <3> QED BY <1>2, <3>1, Zenon
  <2> QED BY <2>1, <2>2
<1>6. \A u \in Threads \ ThreadsOf(c) : th'[u] = th[u]
  BY <1>1
<1>7. \A d \in Controllers \ {c} : slot'[d] = slot[d]
  OBVIOUS
<1> HIDE DEF c
<1> QED BY <1>1, <1>4, <1>5, <1>6, <1>7, Observes

LEMMA OwnBaseline ==
  ASSUME NEW t \in Threads
  PROVE  th[t].was \in Baselines(t[1])
<1>1. t \in ThreadsOf(t[1])
  BY DEF Threads, ThreadsOf, Turn
<1> QED BY <1>1 DEF Baselines

\* A step that changes nothing but one thread's record.
LEMMA ThreadOnly ==
  ASSUME Inv, NEW t \in Threads, NEW r, th' = [th EXCEPT ![t] = r],
         UNCHANGED <<file, meta, locked, slot, cur, path, left, next, saved, given>>,
         ThreadOK(r, DOMAIN file, Messages), WriteOK(r, file),
         Holder(r) => Holder(th[t]) /\ r.path = th[t].path,
         r.was \in {th[t].was, NoBase},
         r.pc = "install" => OnFile(<<r.path, r.text>>)
  PROVE  Inv' /\ StoreStep
<1>1. /\ TypeInv /\ ThreadsOK /\ DOMAIN slot = Controllers
  BY DEF Inv, TypeInv, Runtimes, SlotsOK
<1>2. /\ DOMAIN th' = Threads /\ th'[t] = r
      /\ \A u \in Threads \ {t} : th'[u] = th[u]
  BY <1>1, Moved
<1>3. Messages' = Messages
  BY DEF Messages
<1>4. ThreadsOK' /\ LockInv'
  BY <1>2, <1>3, QuietMove
<1>5. Files' /\ Sidecars' /\ Counts' /\ Runtimes'
  BY <1>1, RestSame
<1>6. th'[t].was \in Baselines(t[1]) \cup {NoBase}
  BY <1>2, OwnBaseline
<1>7. StoreStep
  BY <1>1, <1>2, <1>6, NothingLearned
<1> QED BY <1>4, <1>5, <1>7 DEF Inv, TypeInv

\* ... which then neither holds a lock nor has loaded a file.
Calm == {"lock", "load", "branch", "read", "merge", "put", "prepare", "work", "replied", "down"}
          \cup Resting

LEMMA CalmOnly ==
  ASSUME Inv, NEW t \in Threads, NEW r, th' = [th EXCEPT ![t] = r],
         UNCHANGED <<file, meta, locked, slot, cur, path, left, next, saved, given>>,
         ThreadOK(r, DOMAIN file, Messages), r.pc \in Calm, r.was \in {th[t].was, NoBase}
  PROVE  Inv' /\ StoreStep
<1>1. WriteOK(r, file) /\ ~Holder(r) /\ r.pc # "install"
  BY DEF WriteOK, Holder, Holding, Calm, Resting
<1> QED BY <1>1, ThreadOnly

LEMMA Here ==
  ASSUME Inv, NEW t \in Threads
  PROVE  /\ TypeInv /\ ThreadsOK /\ DOMAIN th = Threads /\ DOMAIN th[t] = Fields
         /\ Sidecars /\ t[1] \in Controllers
         /\ ThreadOK(th[t], DOMAIN file, Messages) /\ WriteOK(th[t], file)
         /\ th[t].pc # "branchFile" => th[t].path \in DOMAIN file
         /\ Main \in DOMAIN file /\ DOMAIN file \subseteq Paths
         /\ \A p \in DOMAIN file : file[p] \in Seq(Messages)
BY DEF Inv, TypeInv, ThreadsOK, ThreadOK, LockInv, WritesOK, Files, IsText, Threads

LEMMA OfController ==
  ASSUME Inv, NEW c \in Controllers
  PROVE  /\ Turn(c) \in Threads /\ <<c, "auto">> \in Threads /\ Turn(c) # <<c, "auto">>
         /\ ThreadsOf(c) = {Turn(c), <<c, "auto">>} /\ Turn(c)[1] = c /\ <<c, "auto">>[1] = c
         /\ cur[c] \in Slots /\ Log(c) \in Seq(Messages) /\ Len(Log(c)) \in Nat
         /\ path[c] \in DOMAIN file
<1>1. Log(c) \in Seq(Messages)
  BY DEF Inv, TypeInv, Runtimes, SlotsOK, SlotOK, Log
<1>2. Len(Log(c)) \in Nat
  BY <1>1, LenProperties
<1> QED BY <1>1, <1>2 DEF Inv, TypeInv, Runtimes, Threads, Turn, ThreadsOf

-----------------------------------------------------------------------------
(* The steps that move one thread and nothing else.                        *)

LEMMA AtStep ==
  ASSUME Inv, NEW t \in Threads, th[t].pc # "branchFile", NEW pc \in Calm, pc # "lock",
         UNCHANGED <<file, meta, locked, slot, cur, path, left, next, saved, given>>,
         th' = At(t, pc)
  PROVE  Inv' /\ StoreStep
<1> DEFINE r == WithPc(th[t], pc)
<1>1. th' = [th EXCEPT ![t] = r]
  BY Here, Zenon DEF At, WithPc
<1>2. ThreadOK(r, DOMAIN file, Messages) /\ r.pc = pc /\ r.was = th[t].was
  <2>1. ThreadOK(th[t], DOMAIN file, Messages) /\ th[t].path \in DOMAIN file
    BY Here
  <2> QED BY <2>1, PcSet
<1> HIDE DEF r
<1> QED BY <1>1, <1>2, CalmOnly

LEMMA ReturnStep ==
  ASSUME Inv, NEW t \in Threads,
         UNCHANGED <<file, meta, locked, slot, cur, path, left, next, saved, given>>,
         th' = Return(t)
  PROVE  Inv' /\ StoreStep
<1> DEFINE r == Returned(t)
<1>1. /\ th' = [th EXCEPT ![t] = r]
      /\ ThreadOK(r, DOMAIN file, Messages) /\ r.pc \in Resting /\ r.was = NoBase
  BY Here, ReturnSet
<1>2. r.pc \in Calm
  BY <1>1 DEF Calm
<1> HIDE DEF r
<1> QED BY <1>1, <1>2, CalmOnly

LEMMA MetaStepTo ==
  ASSUME Inv, NEW t \in Threads, th[t].pc # "branchFile", NEW m \in Meta, NEW pc,
         \/ pc \in {"merge", "put"}
         \/ th[t].pc \in Holding \ {"write"} /\ pc \in Holding \ {"write"},
         UNCHANGED <<file, meta, locked, slot, cur, path, left, next, saved, given>>,
         th' = [th EXCEPT ![t].pc = pc, ![t].m = m]
  PROVE  Inv' /\ StoreStep
<1> DEFINE r == WithMeta(th[t], pc, m)
<1>1. th' = [th EXCEPT ![t] = r]
  BY Here, Zenon DEF WithMeta
<1>2. pc # "lock" /\ pc # "install" /\ pc # "branchFile" /\ pc # "write"
  BY DEF Holding
<1>3. /\ ThreadOK(r, DOMAIN file, Messages) /\ r.pc = pc /\ r.was = th[t].was
      /\ r.text = th[t].text /\ r.path = th[t].path
  <2>1. ThreadOK(th[t], DOMAIN file, Messages) /\ th[t].path \in DOMAIN file
    BY Here DEF Holding
  <2> QED BY <1>2, <2>1, MetaSet
<1> HIDE DEF r
<1>4. WriteOK(r, file) /\ (Holder(r) => Holder(th[t]))
  BY <1>2, <1>3, Here DEF WriteOK, Holder, Holding
<1> QED BY <1>1, <1>2, <1>3, <1>4, ThreadOnly

LEMMA RecordStep ==
  ASSUME Inv, NEW t \in Threads, Record(t)
  PROVE  Inv' /\ StoreStep
<1> DEFINE m == MetaOf(th[t].path)
           n == (IF m.rev < th[t].base THEN th[t].base ELSE m.rev) + 1
<1>1. m \in Meta /\ th[t].base \in Nat
  BY Here, SidecarOK DEF ThreadOK
<1>2. n \in Nat
  <2>1. m.rev \in Nat
    BY <1>1 DEF Meta
  <2> HIDE DEF m
  <2> QED BY <1>1, <2>1, SMT
<1>3. [m EXCEPT !.rev = n] \in Meta
  <2> HIDE DEF m, n
  <2> QED BY <1>1, <1>2, RevisionOK
<1>4. th' = [th EXCEPT ![t].pc = "recMerge", ![t].m = [m EXCEPT !.rev = n]]
  BY DEF Record
<1> HIDE DEF m, n
<1> QED BY <1>3, <1>4, MetaStepTo DEF Record, Holding

LEMMA RecMergeStep ==
  ASSUME Inv, NEW t \in Threads, RecMerge(t)
  PROVE  Inv' /\ StoreStep
<1>1. Merged(th[t].m, th[t].path) \in Meta
  BY Here, MergedOK DEF ThreadOK
<1> QED BY <1>1, MetaStepTo DEF RecMerge, Holding

LEMMA MergeStep ==
  ASSUME Inv, NEW t \in Threads, Merge(t)
  PROVE  Inv' /\ StoreStep
<1>1. Merged(th[t].m, th[t].path) \in Meta
  BY Here, MergedOK DEF ThreadOK
<1> QED BY <1>1, MetaStepTo DEF Merge

LEMMA ReadStep ==
  ASSUME Inv, NEW t \in Threads, Read(t)
  PROVE  Inv' /\ StoreStep
<1> DEFINE m == MetaOf(th[t].path)
<1>1. Edited(t, m) \in Meta
  <2>1. m \in Meta
    BY Here, SidecarOK
  <2> HIDE DEF m
  <2> QED BY <2>1, Here, EditedOK
<1>2. CASE th' = Return(t)
  BY <1>2, ReturnStep DEF Read
<1>3. CASE th' = [th EXCEPT ![t].pc = "merge", ![t].m = Edited(t, m)]
  BY <1>1, <1>3, MetaStepTo DEF Read
<1> QED BY <1>2, <1>3 DEF Read

LEMMA LoadStep ==
  ASSUME Inv, NEW t \in Threads, Load(t)
  PROVE  Inv' /\ StoreStep
<1> DEFINE text == file[th[t].path]
           r == WithText(th[t], text)
<1>1. th' = [th EXCEPT ![t] = r]
  BY Here, Zenon DEF Load, WithText
<1>2. th[t].path \in DOMAIN file /\ text \in Seq(Messages)
  BY Here DEF Load
<1>3. /\ ThreadOK(r, DOMAIN file, Messages) /\ r.pc = "install" /\ r.was = th[t].was
      /\ r.text = text /\ r.path = th[t].path
  <2>1. ThreadOK(th[t], DOMAIN file, Messages)
    BY Here
  <2> HIDE DEF text
  <2> QED BY <1>2, <2>1, LoadSet
<1> HIDE DEF r
<1>4. WriteOK(r, file) /\ ~Holder(r) /\ OnFile(<<r.path, r.text>>)
  BY <1>2, <1>3 DEF WriteOK, Holder, Holding, OnFile
<1> QED BY <1>1, <1>3, <1>4, ThreadOnly DEF Load

LEMMA BranchStep ==
  ASSUME Inv, NEW t \in Threads, Branch(t)
  PROVE  Inv' /\ StoreStep
<1> DEFINE c == t[1]
           text == Log(c)
           rp == Append(th[t].path, text)
           r == WithBranch(th[t], cur[c], text, rp)
<1>0. c \in Controllers /\ text \in Seq(Messages) /\ text \in Seq(Nat \X Role)
  BY Here, OfController, AllMessages DEF TypeInv, Counts
<1>1. CASE th' = At(t, "load")
  BY <1>1, AtStep DEF Branch, Calm
<1>2. CASE th' = [th EXCEPT ![t].pc = "branchFile", ![t].s = cur[c], ![t].text = text, ![t].path = rp]
  <2>1. th' = [th EXCEPT ![t] = r]
    BY <1>2, Here, Zenon DEF WithBranch
  <2>2. rp \in Paths /\ rp # <<>> /\ Last(rp) = text
    <3>1. th[t].path \in Paths
      BY Here DEF ThreadOK
    <3> QED BY <1>0, <3>1, NewPath
  <2>3. /\ ThreadOK(r, DOMAIN file, Messages) /\ r.pc = "branchFile" /\ r.was = th[t].was
        /\ r.text = text /\ r.path = rp
    <3>1. ThreadOK(th[t], DOMAIN file, Messages)
      BY Here
    <3> HIDE DEF text, rp
    <3> QED BY <1>0, <2>2, <3>1, BranchSet
  <2> HIDE DEF r, text, rp
  <2>4. WriteOK(r, file) /\ ~Holder(r)
    BY <2>2, <2>3 DEF WriteOK, Holder, Holding
  <2> QED BY <2>1, <2>3, <2>4, ThreadOnly DEF Branch
<1> QED BY <1>1, <1>2 DEF Branch

LEMMA StartTurnStep ==
  ASSUME Inv, NEW c \in Controllers, StartTurn(c)
  PROVE  Inv' /\ StoreStep
<1> DEFINE t == Turn(c)
           start == Len(Log(c))
           r == WithStart(th[t], start)
<1>0. t \in Threads /\ start \in Nat
  BY OfController
<1>1. th' = [th EXCEPT ![t] = r]
  BY <1>0, Here, Zenon DEF StartTurn, WithStart
<1>2. ThreadOK(th[t], DOMAIN file, Messages) /\ th[t].path \in DOMAIN file
  BY <1>0, Here DEF StartTurn
<1>3. ThreadOK(r, DOMAIN file, Messages) /\ r.pc = "prepare" /\ r.was = th[t].was
  <2> HIDE DEF start
  <2> QED BY <1>0, <1>2, StartSet
<1> HIDE DEF r
<1> QED BY <1>0, <1>1, <1>3, CalmOnly DEF StartTurn, Calm

LEMMA EditStepTo ==
  ASSUME Inv, NEW t \in Threads, NEW job, NEW p \in DOMAIN file, NEW then \in Resting,
         th' = [th EXCEPT ![t].pc = "read", ![t].job = job, ![t].path = p, ![t].then = then],
         UNCHANGED <<file, meta, locked, slot, cur, path, left, next, saved, given>>
  PROVE  Inv' /\ StoreStep
<1> DEFINE r == WithEdit(th[t], job, p, then)
<1>1. th' = [th EXCEPT ![t] = r]
  BY Here, Zenon DEF WithEdit
<1>2. ThreadOK(th[t], DOMAIN file, Messages) /\ DOMAIN file \subseteq Paths
  BY Here
<1>3. ThreadOK(r, DOMAIN file, Messages) /\ r.pc = "read" /\ r.was = th[t].was
  BY <1>2, EditSet
<1> HIDE DEF r
<1> QED BY <1>1, <1>3, CalmOnly DEF Calm

LEMMA SaveStepTo ==
  ASSUME Inv, NEW t \in Threads,
         NEW text \in Seq(Messages), NEW rewrite, NEW job, NEW then \in Resting,
         \/ th' = [th EXCEPT ![t] = Saving(t, text, rewrite, job, then)]
         \/ th' = [th EXCEPT ![t] = Saved(t, text, rewrite, job, then)],
         UNCHANGED <<file, meta, locked, slot, cur, path, left, next, saved, given>>
  PROVE  Inv' /\ StoreStep
<1> DEFINE s == Saving(t, text, rewrite, job, then)
           r == Saved(t, text, rewrite, job, then)
<1>1. /\ ThreadOK(s, DOMAIN file, Messages) /\ s.pc = "lock" /\ s.was = th[t].was
      /\ ThreadOK(r, DOMAIN file, Messages) /\ r.pc = "lock" /\ r.was = th[t].was
  <2>1. SaveOK(s, t) /\ SaveOK(r, t)
    BY Here, SavingSet
  <2> HIDE DEF s, r
  <2> QED BY <2>1 DEF SaveOK
<1> HIDE DEF s, r
<1>2. CASE th' = [th EXCEPT ![t] = s]
  BY <1>1, <1>2, CalmOnly DEF Calm
<1>3. CASE th' = [th EXCEPT ![t] = r]
  BY <1>1, <1>3, CalmOnly DEF Calm
<1> QED BY <1>2, <1>3 DEF s, r

LEMMA IdleStep ==
  ASSUME Inv, NEW t \in Threads, th' = [th EXCEPT ![t] = Idle],
         UNCHANGED <<file, meta, locked, slot, cur, path, left, next, saved, given>>
  PROVE  Inv' /\ StoreStep
<1>1. ThreadOK(Idle, DOMAIN file, Messages) /\ Idle.was = NoBase
  <2>1. Main \in DOMAIN file /\ DOMAIN file \subseteq Paths
    BY Here
  <2> QED BY <2>1, IdleOK
<1>2. Idle.pc = "idle"
  BY DEF Idle
<1> QED BY <1>1, <1>2, CalmOnly DEF Calm, Resting

LEMMA MarkTurnStep ==
  ASSUME Inv, NEW c \in Controllers, MarkTurn(c) \/ ClearMark(c) \/ Unmark(c)
  PROVE  Inv' /\ StoreStep
<1>1. Turn(c) \in Threads /\ path[c] \in DOMAIN file
  BY OfController
<1>2. th[Turn(c)].home \in DOMAIN file
  BY <1>1, Here DEF ThreadOK
<1>3. {"prompt", "flush", "idle"} \subseteq Resting
  BY DEF Resting
<1>4. CASE MarkTurn(c)
  BY <1>1, <1>3, <1>4, EditStepTo DEF MarkTurn
<1>5. CASE ClearMark(c)
  BY <1>1, <1>3, <1>5, EditStepTo DEF ClearMark
<1>6. CASE Unmark(c)
  BY <1>1, <1>2, <1>3, <1>6, EditStepTo DEF Unmark
<1> QED BY <1>4, <1>5, <1>6

LEMMA EndTurnStep ==
  ASSUME Inv, NEW c \in Controllers, EndTurn(c)
  PROVE  Inv' /\ StoreStep
<1>1. Turn(c) \in Threads
  BY OfController
<1> QED BY <1>1, AtStep DEF EndTurn, Calm, Resting

LEMMA FlushStep ==
  ASSUME Inv, NEW c \in Controllers, Flush(c)
  PROVE  Inv' /\ StoreStep
<1>1. Turn(c) \in Threads /\ Log(c) \in Seq(Messages) /\ "idle" \in Resting
  BY OfController DEF Resting
<1>2. CASE th' = [th EXCEPT ![Turn(c)] = Idle]
  BY <1>1, <1>2, IdleStep DEF Flush
<1>3. CASE th' = [th EXCEPT ![Turn(c)] = Saved(Turn(c), Log(c), FALSE, "update", "idle")]
  <2>1. UNCHANGED <<file, meta, locked, slot, cur, path, left, next, saved, given>>
    BY DEF Flush
  <2> QED BY <1>1, <1>3, <2>1, SaveStepTo
<1> QED BY <1>2, <1>3 DEF Flush, Saved

LEMMA RecoveredStep ==
  ASSUME Inv, NEW c \in Controllers, Recovered(c)
  PROVE  Inv' /\ StoreStep
<1>1. Turn(c) \in Threads /\ Log(c) \in Seq(Messages) /\ "unmark" \in Resting
  BY OfController DEF Resting
<1>2. CASE th' = At(Turn(c), "unmark")
  BY <1>1, <1>2, AtStep DEF Recovered, Calm
<1>3. CASE th' = [th EXCEPT ![Turn(c)] = Saving(Turn(c), Log(c), TRUE, "update", "unmark")]
  <2>1. UNCHANGED <<file, meta, locked, slot, cur, path, left, next, saved, given>>
    BY DEF Recovered
  <2> QED BY <1>1, <1>3, <2>1, SaveStepTo
<1> QED BY <1>2, <1>3 DEF Recovered

-----------------------------------------------------------------------------
(* A runtime's Session objects, as the steps change them.                  *)

WithPers(f, c, i, base) == [f EXCEPT ![c][i].pers = base]
WithLog(f, c, i, text) == [f EXCEPT ![c][i].log = text]
WithSession(f, c, i, x) == [f EXCEPT ![c][i] = x]

LEMMA PersSet ==
  ASSUME NEW f, NEW M, SlotsOK(f, M), NEW c \in Controllers, NEW i, NEW base
  PROVE  /\ SlotsOK(WithPers(f, c, i, base), M)
         /\ \A d \in Controllers \ {c} : WithPers(f, c, i, base)[d] = f[d]
         /\ \A j \in Slots : WithPers(f, c, i, base)[c][j].pers \in {base, f[c][j].pers}
<1> DEFINE g == WithPers(f, c, i, base)
           x == [f[c][i] EXCEPT !.pers = base]
<1>1. /\ DOMAIN f = Controllers
      /\ \A d \in Controllers : DOMAIN f[d] = Slots /\ \A j \in Slots : SlotOK(f[d][j], M)
  BY DEF SlotsOK
<1>2. g = [d \in Controllers |-> IF d = c THEN [f[c] EXCEPT ![i] = x] ELSE f[d]]
  BY <1>1, Zenon DEF WithPers
<1>3. /\ DOMAIN g = Controllers /\ g[c] = [f[c] EXCEPT ![i] = x]
      /\ \A d \in Controllers \ {c} : g[d] = f[d]
  BY <1>2
<1> HIDE DEF g
<1>4. /\ DOMAIN g[c] = Slots
      /\ \A j \in Slots : g[c][j] = IF j = i THEN x ELSE f[c][j]
  BY <1>1, <1>3
<1>5. ASSUME NEW j \in Slots
      PROVE  SlotOK(g[c][j], M) /\ g[c][j].pers \in {base, f[c][j].pers}
  <2>1. CASE j = i
    <3>1. g[c][j] = [f[c][j] EXCEPT !.pers = base] /\ SlotOK(f[c][j], M)
      BY <1>1, <1>4, <2>1
    <3> QED BY <3>1, SMT DEF SlotOK
  <2>2. CASE j # i
    BY <1>1, <1>4, <2>2
  <2> QED BY <2>1, <2>2
<1>6. SlotsOK(g, M)
  <2>1. ASSUME NEW d \in Controllers
        PROVE  DOMAIN g[d] = Slots /\ \A j \in Slots : SlotOK(g[d][j], M)
    <3>1. CASE d = c
      BY <1>4, <1>5, <3>1
    <3>2. CASE d # c
      BY <1>1, <1>3, <3>2
    <3> QED BY <3>1, <3>2
  <2> QED BY <1>3, <2>1 DEF SlotsOK
<1> QED BY <1>3, <1>5, <1>6 DEF g

LEMMA LogSet ==
  ASSUME NEW f, NEW M, SlotsOK(f, M), NEW c \in Controllers, NEW i, NEW text \in Seq(M)
  PROVE  /\ SlotsOK(WithLog(f, c, i, text), M)
         /\ \A d \in Controllers \ {c} : WithLog(f, c, i, text)[d] = f[d]
         /\ \A j \in Slots : WithLog(f, c, i, text)[c][j].pers = f[c][j].pers
<1> DEFINE g == WithLog(f, c, i, text)
           x == [f[c][i] EXCEPT !.log = text]
<1>1. /\ DOMAIN f = Controllers
      /\ \A d \in Controllers : DOMAIN f[d] = Slots /\ \A j \in Slots : SlotOK(f[d][j], M)
  BY DEF SlotsOK
<1>2. g = [d \in Controllers |-> IF d = c THEN [f[c] EXCEPT ![i] = x] ELSE f[d]]
  BY <1>1, Zenon DEF WithLog
<1>3. /\ DOMAIN g = Controllers /\ g[c] = [f[c] EXCEPT ![i] = x]
      /\ \A d \in Controllers \ {c} : g[d] = f[d]
  BY <1>2
<1> HIDE DEF g
<1>4. /\ DOMAIN g[c] = Slots
      /\ \A j \in Slots : g[c][j] = IF j = i THEN x ELSE f[c][j]
  BY <1>1, <1>3
<1>5. ASSUME NEW j \in Slots
      PROVE  SlotOK(g[c][j], M) /\ g[c][j].pers = f[c][j].pers
  <2>1. CASE j = i
    <3>1. g[c][j] = [f[c][j] EXCEPT !.log = text] /\ SlotOK(f[c][j], M)
      BY <1>1, <1>4, <2>1
    <3> QED BY <3>1, SMT DEF SlotOK
  <2>2. CASE j # i
    BY <1>1, <1>4, <2>2
  <2> QED BY <2>1, <2>2
<1>6. SlotsOK(g, M)
  <2>1. ASSUME NEW d \in Controllers
        PROVE  DOMAIN g[d] = Slots /\ \A j \in Slots : SlotOK(g[d][j], M)
    <3>1. CASE d = c
      BY <1>4, <1>5, <3>1
    <3>2. CASE d # c
      BY <1>1, <1>3, <3>2
    <3> QED BY <3>1, <3>2
  <2> QED BY <1>3, <2>1 DEF SlotsOK
<1> QED BY <1>3, <1>5, <1>6 DEF g

LEMMA SessionSet ==
  ASSUME NEW f, NEW M, SlotsOK(f, M), NEW c \in Controllers, NEW i, NEW x, SlotOK(x, M)
  PROVE  /\ SlotsOK(WithSession(f, c, i, x), M)
         /\ \A d \in Controllers \ {c} : WithSession(f, c, i, x)[d] = f[d]
         /\ \A j \in Slots : WithSession(f, c, i, x)[c][j] \in {x, f[c][j]}
<1> DEFINE g == WithSession(f, c, i, x)
<1>1. /\ DOMAIN f = Controllers
      /\ \A d \in Controllers : DOMAIN f[d] = Slots /\ \A j \in Slots : SlotOK(f[d][j], M)
  BY DEF SlotsOK
<1>2. g = [d \in Controllers |-> IF d = c THEN [f[c] EXCEPT ![i] = x] ELSE f[d]]
  BY <1>1, Zenon DEF WithSession
<1>3. /\ DOMAIN g = Controllers /\ g[c] = [f[c] EXCEPT ![i] = x]
      /\ \A d \in Controllers \ {c} : g[d] = f[d]
  BY <1>2
<1> HIDE DEF g
<1>4. /\ DOMAIN g[c] = Slots
      /\ \A j \in Slots : g[c][j] = IF j = i THEN x ELSE f[c][j]
  BY <1>1, <1>3
<1>5. \A j \in Slots : SlotOK(g[c][j], M) /\ g[c][j] \in {x, f[c][j]}
  BY <1>1, <1>4
<1>6. SlotsOK(g, M)
  <2>1. ASSUME NEW d \in Controllers
        PROVE  DOMAIN g[d] = Slots /\ \A j \in Slots : SlotOK(g[d][j], M)
    <3>1. CASE d = c
      BY <1>4, <1>5, <3>1
    <3>2. CASE d # c
      BY <1>1, <1>3, <3>2
    <3> QED BY <3>1, <3>2
  <2> QED BY <1>3, <2>1 DEF SlotsOK
<1> QED BY <1>3, <1>5, <1>6 DEF g

LEMMA SlotsGrow ==
  ASSUME NEW f, NEW M, NEW N, SlotsOK(f, M), M \subseteq N
  PROVE  SlotsOK(f, N)
<1>1. Seq(M) \subseteq Seq(N)
  BY SeqMonotonic
<1> QED BY <1>1 DEF SlotsOK, SlotOK

-----------------------------------------------------------------------------
(* A save.                                                                 *)

LEMMA MetaPut ==
  ASSUME TypeInv, NEW p \in DOMAIN file, NEW m \in Meta, meta' = Put(meta, p, m), file' = file
  PROVE  Sidecars'
<1> DEFINE g == Put(meta, p, m)
<1>1. /\ DOMAIN g = DOMAIN meta \cup {p} /\ g[p] = m
      /\ \A x \in DOMAIN meta : x # p => g[x] = meta[x]
  BY DEF Put
<1> HIDE DEF g
<1>2. Sidecars
  BY DEF TypeInv
<1> QED BY <1>1, <1>2 DEF Sidecars, g

\* A lock that was free is taken, and only its file may change.
LEMMA TakeMove ==
  ASSUME Inv, NEW t \in Threads, NEW p, p \notin locked, locked' = locked \cup {p},
         DOMAIN th' = Threads, \A u \in Threads \ {t} : th'[u] = th[u],
         \A x \in DOMAIN file \ {p} : file'[x] = file[x],
         DOMAIN file \subseteq DOMAIN file', Messages' = Messages,
         th'[t].path = p, ThreadOK(th'[t], DOMAIN file', Messages), WriteOK(th'[t], file')
  PROVE  ThreadsOK' /\ LockInv'
<1> DEFINE U == {t}
<1>0. LockHeld /\ locked \subseteq DOMAIN file
  BY DEF Inv, TypeInv, Counts, LockInv
<1>1. U \in SUBSET Threads /\ \A u \in Threads \ U : th'[u] = th[u]
  OBVIOUS
<1>2. \A u \in U : ThreadOK(th'[u], DOMAIN file', Messages') /\ WriteOK(th'[u], file')
  OBVIOUS
<1>3. \A u \in Threads : Holder(th[u]) => th[u].path # p
  BY <1>0 DEF LockHeld
<1>4. \A u \in Threads \ U : Holder(th[u]) =>
        th[u].path \in locked' /\ file'[th[u].path] = file[th[u].path]
  BY <1>0, <1>3 DEF LockHeld
<1>5. \A v \in U : Holder(th'[v]) =>
        /\ th'[v].path \in locked'
        /\ \A u \in Threads \ {v} : Holder(th[u]) => th[u].path # th'[v].path
        /\ \A u \in U \ {v} : ~Holder(th'[u])
  BY <1>3
<1> HIDE DEF U
<1> QED BY <1>1, <1>2, <1>4, <1>5, SomeMove

\* A lock is given back.
LEMMA ReleaseMove ==
  ASSUME Inv, NEW t \in Threads, Holder(th[t]), locked' = locked \ {th[t].path},
         DOMAIN th' = Threads, \A u \in Threads \ {t} : th'[u] = th[u],
         file' = file, Messages' = Messages,
         ThreadOK(th'[t], DOMAIN file, Messages), th'[t].pc \in Calm
  PROVE  ThreadsOK' /\ LockInv'
<1> DEFINE U == {t}
<1>0. LockHeld /\ LockAlone
  BY DEF Inv, LockInv
<1>1. U \in SUBSET Threads /\ \A u \in Threads \ U : th'[u] = th[u]
  OBVIOUS
<1>2. WriteOK(th'[t], file) /\ ~Holder(th'[t])
  BY DEF WriteOK, Holder, Holding, Calm, Resting
<1>3. \A u \in U : ThreadOK(th'[u], DOMAIN file', Messages') /\ WriteOK(th'[u], file')
  BY <1>2
<1>4. \A u \in Threads \ U : Holder(th[u]) =>
        th[u].path \in locked' /\ file'[th[u].path] = file[th[u].path]
  BY <1>0 DEF LockHeld, LockAlone
<1>5. \A v \in U : Holder(th'[v]) =>
        /\ th'[v].path \in locked'
        /\ \A u \in Threads \ {v} : Holder(th[u]) => th[u].path # th'[v].path
        /\ \A u \in U \ {v} : ~Holder(th'[u])
  BY <1>2
<1> HIDE DEF U
<1> QED BY <1>1, <1>3, <1>4, <1>5, SomeMove

\* A Session gets a baseline that is on the file or was seen already.
LEMMA BaselineGained ==
  ASSUME NEW t \in Threads, NEW base, DOMAIN th' = Threads, file' = file,
         <<base.path, base.text>> \in Seen[t[1]] \/ OnFile(<<base.path, base.text>>),
         \A d \in Controllers \ {t[1]} : slot'[d] = slot[d],
         \A j \in Slots : slot'[t[1]][j].pers \in {base, slot[t[1]][j].pers},
         \A u \in Threads \ {t} : th'[u] = th[u],
         th'[t].was \in {th[t].was, NoBase}, th'[t].pc # "install"
  PROVE  StoreStep
<1> DEFINE c == t[1]
<1>1. c \in Controllers /\ t \in ThreadsOf(c) /\ ThreadsOf(c) \subseteq Threads
  BY DEF Threads, ThreadsOf, Turn
<1>2. /\ \A d \in Controllers \ {c} : slot'[d] = slot[d]
      /\ \A j \in Slots : slot'[c][j].pers \in {base, slot[c][j].pers}
      /\ <<base.path, base.text>> \in Seen[c] \/ OnFile(<<base.path, base.text>>)
  OBVIOUS
<1> HIDE DEF c
<1>3. /\ \A b \in Baselines(c) : b # NoBase => <<b.path, b.text>> \in Seen[c]
      /\ \A u \in Loaded(c) : <<th[u].path, th[u].text>> \in Seen[c]
  BY <1>1, SeenFacts, Zenon
<1>4. \A b \in Baselines(c)' : b # NoBase => b = base \/ b \in Baselines(c)
  BY <1>1, <1>2 DEF Baselines
<1>5. \A b \in Baselines(c)' : b # NoBase =>
        <<b.path, b.text>> \in Seen[c] \/ OnFile(<<b.path, b.text>>)
  BY <1>2, <1>3, <1>4, Zenon
<1>6. ASSUME NEW u \in Loaded(c)'
      PROVE  <<th'[u].path, th'[u].text>> \in Seen[c] \/ OnFile(<<th'[u].path, th'[u].text>>)
  <2>1. u # t /\ u \in ThreadsOf(c)
    BY <1>6 DEF Loaded
  <2>2. th'[u] = th[u] /\ u \in Loaded(c)
    BY <1>1, <1>6, <2>1 DEF Loaded
  <2> QED BY <1>3, <2>2, Zenon
<1>7. \A u \in Threads \ ThreadsOf(c) : th'[u] = th[u]
  BY <1>1
<1> QED BY <1>1, <1>2, <1>5, <1>6, <1>7, Observes

\* What is on the file becomes the baseline of a Session.
LEMMA BaselineMoves ==
  ASSUME Inv, NEW t \in Threads, NEW i, NEW base, OnFile(<<base.path, base.text>>),
         slot' = WithPers(slot, t[1], i, base), file' = file, Messages' = Messages,
         DOMAIN th' = Threads, \A u \in Threads \ {t} : th'[u] = th[u],
         th'[t].was \in {th[t].was, NoBase}, th'[t].pc # "install"
  PROVE  SlotsOK(slot', Messages') /\ StoreStep
<1>0. SlotsOK(slot, Messages) /\ t[1] \in Controllers
  BY DEF Inv, TypeInv, Runtimes, Threads
<1>1. /\ SlotsOK(slot', Messages)
      /\ \A d \in Controllers \ {t[1]} : slot'[d] = slot[d]
      /\ \A j \in Slots : slot'[t[1]][j].pers \in {base, slot[t[1]][j].pers}
  BY <1>0, PersSet
<1> QED BY <1>1, BaselineGained

\* What a holder of a lock has seen stays seen while it writes.
LEMMA SeenKept ==
  ASSUME NEW t \in Threads, \A u \in Threads \ {t} : th'[u] = th[u], slot' = slot,
         th'[t].was = th[t].was, th[t].pc # "install", th'[t].pc # "install"
  PROVE  Seen' = Seen
<1>1. ASSUME NEW d \in Controllers
      PROVE  Seen'[d] = Seen[d]
  <2>1. ThreadsOf(d) \subseteq Threads
    BY DEF ThreadsOf, Turn, Threads
  <2>2. Baselines(d)' = Baselines(d)
    BY <2>1 DEF Baselines
  <2>3. Loaded(d)' = Loaded(d) /\ \A u \in Loaded(d) : th'[u] = th[u]
    BY <2>1 DEF Loaded
  <2>4. {<<th'[u].path, th'[u].text>> : u \in Loaded(d)}
          = {<<th[u].path, th[u].text>> : u \in Loaded(d)}
    BY <2>3
  <2>5. Seen'[d] = {<<b.path, b.text>> : b \in Baselines(d)' \ {NoBase}}
                    \cup {<<th'[u].path, th'[u].text>> : u \in Loaded(d)'}
    BY DEF Seen
  <2>6. Seen[d] = {<<b.path, b.text>> : b \in Baselines(d) \ {NoBase}}
                    \cup {<<th[u].path, th[u].text>> : u \in Loaded(d)}
    BY DEF Seen
  <2> QED BY <2>2, <2>3, <2>4, <2>5, <2>6
<1>2. Seen = [d \in Controllers |-> Seen[d]] /\ Seen' = [d \in Controllers |-> Seen'[d]]
  BY DEF Seen
<1> QED BY <1>1, <1>2

LEMMA VerdictFacts ==
  ASSUME NEW t \in Threads, th[t].path \in DOMAIN file
  PROVE  /\ Verdict(t) \in {"ok", "stale", "diverged"}
         /\ Verdict(t) = "ok" =>
              \/ IsPrefix(file[th[t].path], th[t].text)
              \/ /\ slot[t[1]][th[t].s].pers.path = th[t].path
                 /\ slot[t[1]][th[t].s].pers.text = file[th[t].path]
<1> DEFINE p == th[t].path
           new == th[t].text
           pers == slot[t[1]][th[t].s].pers
           rev == MetaOf(p).rev
<1>1. Verdict(t) = IF IsPrefix(file[p], new)
                   THEN IF pers.path = p /\ pers.rev # rev /\ file[p] # new THEN "diverged" ELSE "ok"
                   ELSE IF th[t].rewrite /\ pers = [path |-> p, text |-> file[p], rev |-> rev] THEN "ok"
                   ELSE IF IsPrefix(new, file[p]) THEN "stale" ELSE "diverged"
  BY Zenon DEF Verdict
<1>2. Verdict(t) \in {"ok", "stale", "diverged"}
  BY <1>1
<1>3. pers = [path |-> p, text |-> file[p], rev |-> rev] => pers.path = p /\ pers.text = file[p]
  OBVIOUS
<1> QED BY <1>1, <1>2, <1>3

LEMMA EmptyPrefix ==
  ASSUME NEW M, NEW text \in Seq(M)
  PROVE  IsPrefix(<<>>, text)
<1>1. Len(<<>>) = 0 /\ Len(text) \in Nat
  BY EmptySeq, LenProperties
<1>2. SubSeq(<<>>, 1, 0) = <<>> /\ SubSeq(text, 1, 0) = <<>>
  BY SubSeqEmpty
<1> QED BY <1>1, <1>2 DEF IsPrefix

LEMMA LockStep ==
  ASSUME Inv, NEW t \in Threads, Lock(t)
  PROVE  Inv' /\ StoreStep
<1> DEFINE p == th[t].path
           pers == slot[t[1]][th[t].s].pers
           r == WithLock(th[t], MetaOf(p).rev, pers)
<1>0. /\ th[t].pc = "lock" /\ p \in DOMAIN file /\ p \notin locked
      /\ ThreadOK(th[t], DOMAIN file, Messages) /\ th[t].s \in Slots /\ TypeInv
      /\ UNCHANGED <<file, meta, slot, cur, path, left, next, saved, given>>
  BY Here DEF Lock, ThreadOK
<1>1. CASE Verdict(t) = "ok"
  <2>1. locked' = locked \cup {p} /\ th' = Locked(t)
    BY <1>1 DEF Lock
  <2>2. th' = [th EXCEPT ![t] = r]
    BY <2>1, Here, Zenon DEF Locked, WithLock
  <2>3. MetaOf(p).rev \in Nat
    BY Here, SidecarOK DEF Meta
  <2>4. /\ ThreadOK(r, DOMAIN file, Messages) /\ r.pc = "write" /\ r.was = pers
        /\ r.text = th[t].text /\ r.path = p
    <3> HIDE DEF pers
    <3> QED BY <1>0, <2>3, LockedSet
  <2> HIDE DEF r
  <2>5. DOMAIN th' = Threads /\ th'[t] = r /\ \A u \in Threads \ {t} : th'[u] = th[u]
    BY <2>2, <1>0, Moved DEF TypeInv
  <2>6. WriteOK(r, file)
    <3>1. IsPrefix(file[p], r.text) \/ (pers.path = p /\ pers.text = file[p])
      <4>1. IsPrefix(file[p], th[t].text) \/ (pers.path = p /\ pers.text = file[p])
        <5>1. th[t].path \in DOMAIN file
          BY <1>0
        <5> QED BY <5>1, <1>1, VerdictFacts
      <4> HIDE DEF pers, p
      <4> QED BY <2>4, <4>1
    <3>2. CASE pers = NoBase /\ pers.text = file[p]
      <4>1. file[p] = <<>>
        BY <3>2 DEF NoBase
      <4> QED BY <2>4, <4>1, EmptyPrefix DEF WriteOK, Replaces, Holding, ThreadOK
    <3> QED BY <2>4, <3>1, <3>2 DEF WriteOK, Replaces, Holding
  <2>7. Messages' = Messages
    BY <1>0 DEF Messages
  <2>8. ThreadsOK' /\ LockInv'
    BY <1>0, <2>1, <2>4, <2>5, <2>6, <2>7, TakeMove
  <2>9. Files' /\ Sidecars' /\ Counts' /\ Runtimes'
    <3>1. Files /\ Sidecars /\ Counts /\ Runtimes
      BY <1>0 DEF TypeInv
    <3> QED BY <1>0, <2>1, <2>7, <3>1 DEF Files, Sidecars, Counts, Runtimes, IsText
  <2>10. pers \in Baselines(t[1])
    BY <1>0 DEF Baselines
  <2>11. StoreStep
    <3>1. DOMAIN slot = Controllers /\ ThreadsOK
      BY <1>0 DEF TypeInv, Runtimes, SlotsOK
    <3> HIDE DEF pers
    <3> QED BY <1>0, <2>4, <2>5, <2>10, <3>1, NothingLearned
  <2> QED BY <2>8, <2>9, <2>11 DEF Inv, TypeInv
<1>2. CASE Verdict(t) = "stale"
  BY <1>0, <1>2, AtStep DEF Lock, Calm
<1>3. CASE Verdict(t) = "diverged"
  BY <1>0, <1>3, AtStep DEF Lock, Calm
<1> QED BY <1>0, <1>1, <1>2, <1>3, VerdictFacts

\* The file of a lock's holder changes, and the store allows it.
LEMMA StorePut ==
  ASSUME NEW c \in Controllers, NEW p \in Paths, NEW text, file' = Put(file, p, text), Seen' = Seen,
         \/ p \notin DOMAIN file
         \/ p \in DOMAIN file /\ IsPrefix(file[p], text)
         \/ p \in DOMAIN file /\ <<p, file[p]>> \in Seen[c]
         \/ p \in DOMAIN file /\ p # <<>> /\ Last(p) = text
  PROVE  StoreStep
<1>1. /\ DOMAIN file' = DOMAIN file \cup {p} /\ file'[p] = text
      /\ file' = [x \in DOMAIN file \cup {p} |-> IF x = p THEN file'[p] ELSE file[x]]
  BY DEF Put
<1>2. Store!Put(c, p)
  BY <1>1 DEF Store!Put
<1>3. \/ Store!Extend(c, p) \/ Store!Rewrite(c, p) \/ Store!Create(c, p) \/ Store!Reuse(c, p)
  BY <1>1, <1>2 DEF Store!Extend, Store!Rewrite, Store!Create, Store!Reuse, Store!IsPrefix,
                    IsPrefix, Store!Last, Last
<1> QED BY <1>1, <1>3 DEF StoreStep, Store!Next

LEMMA WriteStep ==
  ASSUME Inv, NEW t \in Threads, Write(t)
  PROVE  Inv' /\ StoreStep
<1> DEFINE c == t[1]
           p == th[t].path
           text == th[t].text
           r == WithPc(th[t], "record")
<1>0. /\ th[t].pc = "write" /\ p \in DOMAIN file /\ p \in Paths /\ text \in Seq(Messages)
      /\ ThreadOK(th[t], DOMAIN file, Messages) /\ WriteOK(th[t], file) /\ TypeInv /\ c \in Controllers
      /\ UNCHANGED <<meta, locked, slot, cur, path, left, next, given>>
      /\ file' = Put(file, p, text) /\ saved' = saved \cup Range(text)
      /\ Messages' = Messages
  BY Here DEF Write, ThreadOK, Messages
<1>1. th' = [th EXCEPT ![t] = r]
  BY Here, Zenon DEF Write, At, WithPc
<1>2. /\ ThreadOK(r, DOMAIN file, Messages) /\ r.pc = "record" /\ r.was = th[t].was
      /\ r.text = text /\ r.path = p
  BY <1>0, PcSet
<1> HIDE DEF r
<1>3. DOMAIN th' = Threads /\ th'[t] = r /\ \A u \in Threads \ {t} : th'[u] = th[u]
  BY <1>0, <1>1, Moved DEF TypeInv
<1>4. /\ DOMAIN file' = DOMAIN file /\ file'[p] = text
      /\ \A x \in DOMAIN file : x # p => file'[x] = file[x]
  BY <1>0 DEF Put
<1>5. ThreadsOK' /\ LockInv'
  <2> DEFINE U == {t}
  <2>0. LockHeld /\ LockAlone /\ LockHeld /\ locked \subseteq DOMAIN file
    BY DEF Inv, LockInv, TypeInv, Counts
  <2>1. U \in SUBSET Threads /\ \A u \in Threads \ U : th'[u] = th[u]
    BY <1>3
  <2>2. \A u \in U : ThreadOK(th'[u], DOMAIN file', Messages') /\ WriteOK(th'[u], file')
    BY <1>0, <1>2, <1>3, <1>4 DEF WriteOK
  <2>3. Holder(th[t])
    BY <1>0 DEF Holder, Holding
  <2>4. \A u \in Threads \ U : Holder(th[u]) =>
          th[u].path \in locked' /\ file'[th[u].path] = file[th[u].path]
    BY <1>0, <1>4, <2>0, <2>3 DEF LockHeld, LockAlone
  <2>5. \A v \in U : Holder(th'[v]) =>
          /\ th'[v].path \in locked'
          /\ \A u \in Threads \ {v} : Holder(th[u]) => th[u].path # th'[v].path
          /\ \A u \in U \ {v} : ~Holder(th'[u])
    BY <1>0, <1>2, <1>3, <2>0, <2>3 DEF LockHeld, LockAlone
  <2>6. DOMAIN file \subseteq DOMAIN file' /\ Messages \subseteq Messages'
    BY <1>0, <1>4
  <2> HIDE DEF U
  <2> QED BY <1>3, <2>1, <2>2, <2>4, <2>5, <2>6, SomeMove
<1>6. Files' /\ Sidecars' /\ Counts' /\ Runtimes'
  <2>1. Files /\ Sidecars /\ Counts /\ Runtimes
    BY <1>0 DEF TypeInv
  <2>2. Range(text) \subseteq Messages
    BY <1>0, RangeOfSeq
  <2>3. Files'
    BY <1>0, <1>4, <2>1 DEF Files, IsText
  <2>4. Sidecars' /\ Counts' /\ Runtimes'
    BY <1>0, <1>4, <2>1, <2>2 DEF Sidecars, Counts, Runtimes
  <2> QED BY <2>3, <2>4
<1>7. StoreStep
  <2>1. Seen' = Seen
    BY <1>0, <1>2, <1>3, SeenKept
  <2>2. IsPrefix(file[p], text) \/ (th[t].was # NoBase /\ th[t].was.path = p /\ th[t].was.text = file[p])
    BY <1>0 DEF WriteOK, Replaces
  <2>3. th[t].was # NoBase => <<th[t].was.path, th[t].was.text>> \in Seen[c]
    BY <1>0, OwnBaseline, SeenFacts
  <2>4. IsPrefix(file[p], text) \/ <<p, file[p]>> \in Seen[c]
    BY <2>2, <2>3
  <2> HIDE DEF c, p, text
  <2> QED BY <1>0, <2>1, <2>4, StorePut
<1> QED BY <1>5, <1>6, <1>7 DEF Inv, TypeInv

LEMMA RecPutStep ==
  ASSUME Inv, NEW t \in Threads, RecPut(t)
  PROVE  Inv' /\ StoreStep
<1> DEFINE r == WithPc(th[t], "persisted")
<1>0. /\ th[t].pc = "recPut" /\ th[t].path \in DOMAIN file /\ th[t].m \in Meta
      /\ ThreadOK(th[t], DOMAIN file, Messages) /\ WriteOK(th[t], file) /\ TypeInv
      /\ UNCHANGED <<file, locked, slot, cur, path, left, next, saved, given>>
      /\ meta' = Put(meta, th[t].path, th[t].m) /\ Messages' = Messages
  BY Here DEF RecPut, ThreadOK, Messages
<1>1. th' = [th EXCEPT ![t] = r]
  BY Here, Zenon DEF RecPut, At, WithPc
<1>2. /\ ThreadOK(r, DOMAIN file, Messages) /\ r.pc = "persisted" /\ r.was = th[t].was
      /\ r.text = th[t].text /\ r.path = th[t].path
  BY <1>0, PcSet
<1> HIDE DEF r
<1>3. DOMAIN th' = Threads /\ th'[t] = r /\ \A u \in Threads \ {t} : th'[u] = th[u]
  BY <1>0, <1>1, Moved DEF TypeInv
<1>4. WriteOK(r, file) /\ Holder(th[t])
  BY <1>0, <1>2 DEF WriteOK, Holder, Holding
<1>5. ThreadsOK' /\ LockInv'
  BY <1>0, <1>2, <1>3, <1>4, QuietMove
<1>6. Files' /\ Sidecars' /\ Counts' /\ Runtimes'
  <2>1. Files /\ Counts /\ Runtimes
    BY <1>0 DEF TypeInv
  <2>2. Sidecars'
    BY <1>0, MetaPut
  <2> QED BY <1>0, <2>1, <2>2 DEF Files, Counts, Runtimes, IsText
<1>7. StoreStep
  <2>1. DOMAIN slot = Controllers /\ ThreadsOK
    BY <1>0 DEF TypeInv, Runtimes, SlotsOK
  <2> QED BY <1>0, <1>2, <1>3, <2>1, OwnBaseline, NothingLearned
<1> QED BY <1>5, <1>6, <1>7 DEF Inv, TypeInv

\* Return, where the sidecars may have changed and a lock may be given back.
LEMMA ReturnFacts ==
  ASSUME Inv, NEW t \in Threads, th' = Return(t)
  PROVE  /\ DOMAIN th' = Threads /\ \A u \in Threads \ {t} : th'[u] = th[u]
         /\ ThreadOK(th'[t], DOMAIN file, Messages)
         /\ th'[t].pc \in Calm /\ th'[t].was = NoBase
<1> DEFINE r == Returned(t)
<1>1. /\ th' = [th EXCEPT ![t] = r] /\ ThreadsOK
      /\ ThreadOK(r, DOMAIN file, Messages) /\ r.pc \in Resting /\ r.was = NoBase
  BY Here, ReturnSet
<1> HIDE DEF r
<1> QED BY <1>1, Moved DEF Calm

LEMMA ReplaceStep ==
  ASSUME Inv, NEW t \in Threads, Replace(t)
  PROVE  Inv' /\ StoreStep
<1>0. /\ th[t].pc = "put" /\ th[t].path \in DOMAIN file /\ th[t].m \in Meta /\ TypeInv
      /\ UNCHANGED <<file, locked, slot, cur, path, left, next, saved, given>>
      /\ meta' = Put(meta, th[t].path, th[t].m) /\ Messages' = Messages
  BY Here DEF Replace, ThreadOK, Messages
<1>1. /\ DOMAIN th' = Threads /\ \A u \in Threads \ {t} : th'[u] = th[u]
      /\ ThreadOK(th'[t], DOMAIN file, Messages)
      /\ th'[t].pc \in Calm /\ th'[t].was = NoBase
  BY ReturnFacts DEF Replace
<1>2. /\ WriteOK(th'[t], file) /\ ~Holder(th'[t]) /\ th'[t].pc # "install"
  BY <1>1 DEF WriteOK, Holder, Holding, Calm, Resting
<1>3. ThreadsOK' /\ LockInv'
  BY <1>0, <1>1, <1>2, QuietMove
<1>4. Files' /\ Sidecars' /\ Counts' /\ Runtimes'
  <2>1. Files /\ Counts /\ Runtimes
    BY <1>0 DEF TypeInv
  <2>2. Sidecars'
    BY <1>0, MetaPut
  <2> QED BY <1>0, <2>1, <2>2 DEF Files, Counts, Runtimes, IsText
<1>5. StoreStep
  <2>1. DOMAIN slot = Controllers /\ ThreadsOK
    BY <1>0 DEF TypeInv, Runtimes, SlotsOK
  <2> QED BY <1>0, <1>1, <1>2, <2>1, NothingLearned
<1> QED BY <1>3, <1>4, <1>5 DEF Inv, TypeInv

LEMMA RecordFailedStep ==
  ASSUME Inv, NEW t \in Threads, RecordFailed(t)
  PROVE  Inv' /\ StoreStep
<1>0. /\ th[t].pc = "recPut" /\ TypeInv
      /\ UNCHANGED <<file, meta, slot, cur, path, left, next, saved, given>>
      /\ locked' = locked \ {th[t].path} /\ Messages' = Messages
  BY Here DEF RecordFailed, Messages
<1>1. /\ DOMAIN th' = Threads /\ \A u \in Threads \ {t} : th'[u] = th[u]
      /\ ThreadOK(th'[t], DOMAIN file, Messages)
      /\ th'[t].pc \in Calm /\ th'[t].was = NoBase
  BY ReturnFacts DEF RecordFailed
<1>2. Holder(th[t]) /\ th'[t].pc # "install"
  BY <1>0, <1>1 DEF Holder, Holding, Calm, Resting
<1>3. ThreadsOK' /\ LockInv'
  BY <1>0, <1>1, <1>2, ReleaseMove
<1>4. Files' /\ Sidecars' /\ Counts' /\ Runtimes'
  <2>1. Files /\ Sidecars /\ Counts /\ Runtimes
    BY <1>0 DEF TypeInv
  <2> QED BY <1>0, <2>1 DEF Files, Sidecars, Counts, Runtimes, IsText
<1>5. StoreStep
  <2>1. DOMAIN slot = Controllers /\ ThreadsOK
    BY <1>0 DEF TypeInv, Runtimes, SlotsOK
  <2> QED BY <1>0, <1>1, <1>2, <2>1, NothingLearned
<1> QED BY <1>3, <1>4, <1>5 DEF Inv, TypeInv

LEMMA PersistedStep ==
  ASSUME Inv, NEW t \in Threads, Persisted(t)
  PROVE  Inv' /\ StoreStep
<1> DEFINE base == [path |-> th[t].path, text |-> th[t].text, rev |-> MetaOf(th[t].path).rev]
<1>0. /\ th[t].pc = "persisted" /\ TypeInv /\ th[t].path \in DOMAIN file
      /\ ThreadOK(th[t], DOMAIN file, Messages) /\ WriteOK(th[t], file)
      /\ UNCHANGED <<file, meta, cur, path, left, next, saved, given>>
      /\ locked' = locked \ {th[t].path} /\ Messages' = Messages
      /\ slot' = WithPers(slot, t[1], th[t].s, base)
  BY Here DEF Persisted, Messages, WithPers
<1>1. /\ DOMAIN th' = Threads /\ \A u \in Threads \ {t} : th'[u] = th[u]
      /\ ThreadOK(th'[t], DOMAIN file, Messages)
      /\ th'[t].pc \in Calm /\ th'[t].was = NoBase
  <2>1. CASE th' = Return(t)
    BY <2>1, ReturnFacts
  <2>2. CASE th' = [th EXCEPT ![t].pc = "read", ![t].was = NoBase]
    <3> DEFINE r == WithRead(th[t])
    <3>1. th' = [th EXCEPT ![t] = r]
      BY <2>2, Here, Zenon DEF WithRead
    <3>2. ThreadOK(r, DOMAIN file, Messages) /\ r.pc = "read" /\ r.was = NoBase
      BY <1>0, ReadSet
    <3> HIDE DEF r
    <3> QED BY <1>0, <3>1, <3>2, Moved DEF Calm, TypeInv
  <2> QED BY <2>1, <2>2 DEF Persisted
<1>2. Holder(th[t]) /\ th'[t].pc # "install"
  BY <1>0, <1>1 DEF Holder, Holding, Calm, Resting
<1>3. ThreadsOK' /\ LockInv'
  BY <1>0, <1>1, <1>2, ReleaseMove
<1>4. OnFile(<<base.path, base.text>>)
  BY <1>0 DEF WriteOK, Holding, OnFile
<1>5. SlotsOK(slot', Messages') /\ StoreStep
  <2> HIDE DEF base
  <2> QED BY <1>0, <1>1, <1>2, <1>4, BaselineMoves
<1>6. Files' /\ Sidecars' /\ Counts' /\ Runtimes'
  <2>1. Files /\ Sidecars /\ Counts /\ Runtimes
    BY <1>0 DEF TypeInv
  <2> HIDE DEF base
  <2>2. Files' /\ Sidecars' /\ Counts'
    BY <1>0, <2>1 DEF Files, Sidecars, Counts, IsText
  <2>3. Runtimes'
    BY <1>0, <1>5, <2>1 DEF Runtimes
  <2> QED BY <2>2, <2>3
<1> QED BY <1>3, <1>5, <1>6 DEF Inv, TypeInv

-----------------------------------------------------------------------------
(* A conflict.                                                             *)

LEMMA ReadAgain ==
  ASSUME Inv, NEW t \in Threads, th[t].path \in DOMAIN file, th' = At(t, "read")
  PROVE  /\ DOMAIN th' = Threads /\ \A u \in Threads \ {t} : th'[u] = th[u]
         /\ ThreadOK(th'[t], DOMAIN file, Messages)
         /\ th'[t].pc \in Calm /\ th'[t].was = th[t].was
<1> DEFINE r == WithPc(th[t], "read")
<1>1. th' = [th EXCEPT ![t] = r]
  BY Here, Zenon DEF At, WithPc
<1>2. ThreadOK(th[t], DOMAIN file, Messages) /\ ThreadsOK
  BY Here
<1>3. ThreadOK(r, DOMAIN file, Messages) /\ r.pc = "read" /\ r.was = th[t].was
  BY <1>2, PcSet
<1> HIDE DEF r
<1> QED BY <1>1, <1>2, <1>3, Moved DEF Calm

LEMMA InstallStep ==
  ASSUME Inv, NEW t \in Threads, Install(t)
  PROVE  Inv' /\ StoreStep
<1> DEFINE c == t[1]
           base == [path |-> th[t].path, text |-> th[t].text, rev |-> MetaOf(th[t].path).rev]
           x == [log |-> th[t].text, pers |-> base]
<1>0. /\ th[t].pc = "install" /\ TypeInv /\ th[t].path \in DOMAIN file /\ c \in Controllers
      /\ th[t].text \in Seq(Messages)
      /\ UNCHANGED <<file, meta, locked, path, left, next, saved, given>>
      /\ Messages' = Messages
      /\ slot' = WithSession(slot, c, FreeSlot(c), x)
      /\ cur' = [cur EXCEPT ![c] = FreeSlot(c)] /\ FreeSlot(c) \in Slots
  BY Here, FreeSlotOK DEF Install, Installed, Messages, WithSession, ThreadOK
<1>1. /\ DOMAIN th' = Threads /\ \A u \in Threads \ {t} : th'[u] = th[u]
      /\ ThreadOK(th'[t], DOMAIN file, Messages)
      /\ th'[t].pc \in Calm /\ th'[t].was \in {th[t].was, NoBase}
  <2>1. CASE th' = Return(t)
    BY <2>1, ReturnFacts
  <2>2. CASE th' = At(t, "read")
    BY <1>0, <2>2, ReadAgain
  <2> QED BY <2>1, <2>2 DEF Install
<1>2. /\ WriteOK(th'[t], file) /\ ~Holder(th'[t]) /\ th'[t].pc # "install"
  BY <1>1 DEF WriteOK, Holder, Holding, Calm, Resting
<1>3. ThreadsOK' /\ LockInv'
  BY <1>0, <1>1, <1>2, QuietMove
<1>4. SlotOK(x, Messages) /\ x.pers = base /\ SlotsOK(slot, Messages)
  BY <1>0 DEF SlotOK, TypeInv, Runtimes
<1>5. <<base.path, base.text>> \in Seen[c]
  <2>1. t \in Loaded(c)
    BY <1>0 DEF Loaded, ThreadsOf, Threads, Turn
  <2> QED BY <1>0, <2>1, SeenFacts
<1> HIDE DEF c, base, x
<1>6. /\ SlotsOK(slot', Messages)
      /\ \A d \in Controllers \ {c} : slot'[d] = slot[d]
      /\ \A j \in Slots : slot'[c][j] \in {x, slot[c][j]}
  BY <1>0, <1>4, SessionSet
<1>7. \A j \in Slots : slot'[c][j].pers \in {base, slot[c][j].pers}
  BY <1>4, <1>6
<1>8. StoreStep
  BY <1>0, <1>1, <1>2, <1>5, <1>6, <1>7, BaselineGained DEF c
<1>9. Files' /\ Sidecars' /\ Counts' /\ Runtimes'
  <2>1. Files /\ Sidecars /\ Counts /\ Runtimes
    BY <1>0 DEF TypeInv
  <2>2. Files' /\ Sidecars' /\ Counts'
    BY <1>0, <2>1 DEF Files, Sidecars, Counts, IsText
  <2>3. Runtimes'
    BY <1>0, <1>6, <2>1 DEF Runtimes
  <2> QED BY <2>2, <2>3
<1> QED BY <1>3, <1>8, <1>9 DEF Inv, TypeInv

LEMMA BranchFileStep ==
  ASSUME Inv, NEW t \in Threads, BranchFile(t)
  PROVE  Inv' /\ StoreStep
<1> DEFINE c == t[1]
           p == th[t].path
           text == th[t].text
           r == WithPc(th[t], "branchMeta")
<1>0. /\ th[t].pc = "branchFile" /\ p \in Paths /\ text \in Seq(Messages) /\ p \notin locked
      /\ ThreadOK(th[t], DOMAIN file, Messages) /\ WriteOK(th[t], file) /\ TypeInv /\ c \in Controllers
      /\ UNCHANGED <<meta, slot, cur, path, left, next, given>>
      /\ file' = Put(file, p, text) /\ saved' = saved \cup Range(text)
      /\ locked' = locked \cup {p} /\ Messages' = Messages
  BY Here DEF BranchFile, ThreadOK, Messages
<1>1. th' = [th EXCEPT ![t] = r]
  BY Here, Zenon DEF BranchFile, At, WithPc
<1>2. /\ DOMAIN file' = DOMAIN file \cup {p} /\ file'[p] = text
      /\ \A x \in DOMAIN file : x # p => file'[x] = file[x]
  BY <1>0 DEF Put
<1>3. /\ ThreadOK(r, DOMAIN file', Messages) /\ r.pc = "branchMeta" /\ r.was = th[t].was
      /\ r.text = text /\ r.path = p
  <2>1. ThreadOK(th[t], DOMAIN file', Messages)
    BY <1>0, <1>2, Grows
  <2> QED BY <1>2, <2>1, PcSet
<1> HIDE DEF r
<1>4. DOMAIN th' = Threads /\ th'[t] = r /\ \A u \in Threads \ {t} : th'[u] = th[u]
  BY <1>0, <1>1, Moved DEF TypeInv
<1>5. WriteOK(r, file')
  BY <1>2, <1>3 DEF WriteOK
<1>6. ThreadsOK' /\ LockInv'
  <2> HIDE DEF p, text, c
  <2> QED BY <1>0, <1>2, <1>3, <1>4, <1>5, TakeMove
<1>7. Files' /\ Sidecars' /\ Counts' /\ Runtimes'
  <2>1. Files /\ Sidecars /\ Counts /\ Runtimes
    BY <1>0 DEF TypeInv
  <2>2. Range(text) \subseteq Messages
    BY <1>0, RangeOfSeq
  <2> HIDE DEF p, text, c
  <2>3. Files'
    BY <1>0, <1>2, <2>1 DEF Files, IsText
  <2>4. Sidecars' /\ Counts'
    BY <1>0, <1>2, <2>1, <2>2 DEF Sidecars, Counts
  <2>5. Runtimes'
    BY <1>0, <1>2, <2>1 DEF Runtimes
  <2> QED BY <2>3, <2>4, <2>5
<1>8. StoreStep
  <2>1. Seen' = Seen
    BY <1>0, <1>3, <1>4, SeenKept
  <2>2. p # <<>> /\ Last(p) = text
    BY <1>0 DEF WriteOK
  <2> HIDE DEF c, p, text
  <2> QED BY <1>0, <2>1, <2>2, StorePut
<1> QED BY <1>6, <1>7, <1>8 DEF Inv, TypeInv

LEMMA BranchMetaStep ==
  ASSUME Inv, NEW t \in Threads, BranchMeta(t)
  PROVE  Inv' /\ StoreStep
<1> DEFINE c == t[1]
           p == th[t].path
           m == Merged([rev |-> 1, mark |-> NoMark], p)
           base == [path |-> p, text |-> th[t].text, rev |-> m.rev]
<1>0. /\ th[t].pc = "branchMeta" /\ TypeInv /\ p \in DOMAIN file /\ c \in Controllers
      /\ ThreadOK(th[t], DOMAIN file, Messages) /\ WriteOK(th[t], file)
      /\ UNCHANGED <<file, cur, left, next, saved, given>>
      /\ locked' = locked \ {p} /\ Messages' = Messages
      /\ meta' = Put(meta, p, m) /\ path' = [path EXCEPT ![c] = p]
      /\ slot' = WithPers(slot, c, th[t].s, base)
  BY Here DEF BranchMeta, Messages, WithPers
<1>1. m \in Meta
  <2>1. [rev |-> 1, mark |-> NoMark] \in Meta
    BY SMT DEF Meta, Mark, NoMark
  <2> QED BY <2>1, <1>0, MergedOK DEF TypeInv
<1>2. /\ DOMAIN th' = Threads /\ \A u \in Threads \ {t} : th'[u] = th[u]
      /\ ThreadOK(th'[t], DOMAIN file, Messages)
      /\ th'[t].pc \in Calm /\ th'[t].was \in {th[t].was, NoBase}
  <2>1. CASE th' = Return(t)
    BY <2>1, ReturnFacts
  <2>2. CASE th' = At(t, "read")
    BY <1>0, <2>2, ReadAgain
  <2> QED BY <2>1, <2>2 DEF BranchMeta
<1>3. Holder(th[t]) /\ th'[t].pc # "install"
  BY <1>0, <1>2 DEF Holder, Holding, Calm, Resting
<1>4. ThreadsOK' /\ LockInv'
  BY <1>0, <1>2, <1>3, ReleaseMove
<1>5. OnFile(<<base.path, base.text>>)
  BY <1>0 DEF WriteOK, Holding, OnFile
<1>6. SlotsOK(slot', Messages') /\ StoreStep
  <2> HIDE DEF base, m
  <2> QED BY <1>0, <1>2, <1>3, <1>5, BaselineMoves
<1> HIDE DEF base, m, c, p
<1>7. Files' /\ Sidecars' /\ Counts' /\ Runtimes'
  <2>1. Files /\ Sidecars /\ Counts /\ Runtimes
    BY <1>0 DEF TypeInv
  <2>2. Files' /\ Counts'
    BY <1>0, <2>1 DEF Files, Counts, IsText
  <2>3. Sidecars'
    BY <1>0, <1>1, MetaPut
  <2>4. Runtimes'
    BY <1>0, <1>6, <2>1 DEF Runtimes
  <2> QED BY <2>2, <2>3, <2>4
<1> QED BY <1>4, <1>6, <1>7 DEF Inv, TypeInv

-----------------------------------------------------------------------------
(* The controller: a log and the record of one thread change.              *)

LEMMA MoreMessages ==
  ASSUME next \in Nat \ {0}, next' \in Nat, next <= next'
  PROVE  Messages \subseteq Messages' /\ Seq(Messages) \subseteq Seq(Messages')
<1>1. Messages \subseteq Messages'
  <2>1. ASSUME NEW a \in Nat, NEW b \in Nat, a <= b
        PROVE  1 .. a - 1 \subseteq 1 .. b - 1
    BY <2>1, SMT
  <2>2. 1 .. next - 1 \subseteq 1 .. next' - 1
    BY <2>1
  <2> QED BY <2>2 DEF Messages
<1> QED BY <1>1, SeqMonotonic

\* What stays the same while messages may be said.
LEMMA RestGrows ==
  ASSUME TypeInv, UNCHANGED <<file, meta, locked, saved>>,
         left' \in Allowance, next' \in Nat, next <= next', given' \subseteq Messages'
  PROVE  Files' /\ Sidecars' /\ Counts'
<1>1. Files /\ Sidecars /\ Counts
  BY DEF TypeInv
<1>2. next \in Nat \ {0} /\ next' \in Nat \ {0}
  BY <1>1, SMT DEF Counts
<1>3. Messages \subseteq Messages' /\ Seq(Messages) \subseteq Seq(Messages')
  BY <1>2, MoreMessages
<1>4. Files'
  BY <1>1, <1>3 DEF Files, IsText
<1>5. Sidecars'
  BY <1>1 DEF Sidecars
<1>6. Counts'
  BY <1>1, <1>2, <1>3 DEF Counts
<1> QED BY <1>4, <1>5, <1>6

LEMMA ControllerMove ==
  ASSUME Inv, NEW c \in Controllers, NEW t \in ThreadsOf(c), NEW r, th' = [th EXCEPT ![t] = r],
         UNCHANGED <<file, meta, locked, cur, path, saved>>,
         left' \in Allowance, next' \in Nat, next <= next', given' \subseteq Messages',
         SlotsOK(slot', Messages'),
         \A d \in Controllers \ {c} : slot'[d] = slot[d],
         \A i \in Slots : slot'[c][i].pers = slot[c][i].pers,
         ThreadOK(r, DOMAIN file, Messages'), r.pc \in Calm, r.was = th[t].was
  PROVE  Inv' /\ StoreStep
<1>0. t \in Threads /\ t[1] = c
  BY DEF ThreadsOf, Threads, Turn
<1>1. /\ TypeInv /\ ThreadsOK /\ Counts /\ Runtimes /\ DOMAIN slot = Controllers
  BY DEF Inv, TypeInv, Runtimes, SlotsOK
<1>2. Messages \subseteq Messages'
  BY <1>1, MoreMessages DEF Counts
<1>3. DOMAIN th' = Threads /\ th'[t] = r /\ \A u \in Threads \ {t} : th'[u] = th[u]
  BY <1>0, <1>1, Moved
<1>4. WriteOK(r, file) /\ ~Holder(r) /\ r.pc # "install"
  BY DEF WriteOK, Holder, Holding, Calm, Resting
<1>5. ThreadsOK' /\ LockInv'
  BY <1>0, <1>2, <1>3, <1>4, QuietMove
<1>6. Files' /\ Sidecars' /\ Counts'
  BY <1>1, RestGrows
<1>7. Runtimes'
  BY <1>1 DEF Runtimes
<1>8. th'[t].was \in Baselines(t[1]) \cup {NoBase}
  BY <1>0, <1>3, OwnBaseline
<1>9. StoreStep
  BY <1>0, <1>1, <1>3, <1>4, <1>8, NothingLearned
<1> QED BY <1>5, <1>6, <1>7, <1>9 DEF Inv, TypeInv

\* SetLog changes the log of the current Session of c and no baseline.
LEMMA LogMove ==
  ASSUME Inv, NEW c \in Controllers, Messages \subseteq Messages',
         NEW text \in Seq(Messages'), SetLog(c, text)
  PROVE  /\ SlotsOK(slot', Messages')
         /\ \A d \in Controllers \ {c} : slot'[d] = slot[d]
         /\ \A i \in Slots : slot'[c][i].pers = slot[c][i].pers
<1>1. SlotsOK(slot, Messages')
  BY SlotsGrow DEF Inv, TypeInv, Runtimes
<1>2. slot' = WithLog(slot, c, cur[c], text)
  BY DEF SetLog, WithLog
<1> QED BY <1>1, <1>2, LogSet

LEMMA LogStays ==
  ASSUME Inv, slot' = slot, Messages \subseteq Messages', NEW c \in Controllers
  PROVE  /\ SlotsOK(slot', Messages')
         /\ \A d \in Controllers \ {c} : slot'[d] = slot[d]
         /\ \A i \in Slots : slot'[c][i].pers = slot[c][i].pers
BY SlotsGrow DEF Inv, TypeInv, Runtimes

LEMMA SayStep ==
  ASSUME Inv, NEW c \in Controllers, Prompt(c) \/ Reply(c)
  PROVE  Inv' /\ StoreStep
<1> DEFINE t == Turn(c)
           q == th[Turn(c)]
<1>1. PICK role \in Role, pc \in {"work", "replied"} :
        Say(c, role, pc) /\ q.pc \in {"prompt", "work"}
  BY DEF Prompt, Reply, Role
<1> DEFINE x == <<next, role>>
           text == Append(Log(c), x)
           r == WithSaid(q, pc, x)
<1>2. /\ t \in Threads /\ t \in ThreadsOf(c) /\ Log(c) \in Seq(Messages)
  BY OfController
<1>3. /\ left \in Allowance /\ next \in Nat \ {0} /\ given \subseteq Messages
  BY DEF Inv, TypeInv, Counts
<1>4. /\ next' = next + 1 /\ left.messages > 0 /\ Spend("messages") /\ SetLog(c, text)
      /\ th' = [th EXCEPT ![t] = r]
      /\ UNCHANGED <<file, meta, locked, cur, path, saved, given>>
  <2>1. th' = [th EXCEPT ![Turn(c)].pc = pc, ![Turn(c)].mine = @ \cup {x}]
    BY <1>1 DEF Say
  <2>2. th' = [th EXCEPT ![t] = r]
    BY <2>1, <1>2, Here, Zenon DEF WithSaid
  <2> QED BY <1>1, <2>2 DEF Say
<1>5. next' \in Nat /\ next <= next'
  BY <1>3, <1>4, SMT
<1>6. Messages \subseteq Messages' /\ Seq(Messages) \subseteq Seq(Messages')
  BY <1>3, <1>5, MoreMessages
<1>7. x \in Messages'
  <2>1. next \in 1 .. next' - 1
    BY <1>3, <1>4, SMT
  <2> QED BY <2>1 DEF Messages, Role
<1>8. left' \in Allowance
  BY <1>3, <1>4, SpendOK
<1>9. text \in Seq(Messages')
  BY <1>2, <1>6, <1>7, AppendProperties
<1>10. ThreadOK(r, DOMAIN file, Messages') /\ r.pc = pc /\ r.was = q.was
  <2>1. ThreadOK(q, DOMAIN file, Messages) /\ q.path \in DOMAIN file
    BY <1>1, <1>2, Here
  <2>2. ThreadOK(q, DOMAIN file, Messages')
    BY <2>1, <1>6, Grows
  <2> HIDE DEF q, x
  <2> QED BY <2>1, <2>2, <1>7, SaySet
<1>11. /\ SlotsOK(slot', Messages')
       /\ \A d \in Controllers \ {c} : slot'[d] = slot[d]
       /\ \A i \in Slots : slot'[c][i].pers = slot[c][i].pers
  <2> HIDE DEF text
  <2> QED BY <1>4, <1>6, <1>9, LogMove
<1>12. r.pc \in Calm /\ given' \subseteq Messages'
  BY <1>3, <1>4, <1>6, <1>10 DEF Calm
<1> HIDE DEF r, text, x
<1> QED BY <1>2, <1>4, <1>5, <1>8, <1>10, <1>11, <1>12, ControllerMove

LEMMA CancelTurnStep ==
  ASSUME Inv, NEW c \in Controllers, CancelTurn(c)
  PROVE  Inv' /\ StoreStep
<1> DEFINE t == Turn(c)
           q == th[Turn(c)]
           text == Stripped(Log(c), q.start)
           s == Saving(t, text, TRUE, "none", "clear")
           r == WithPc(q, "clear")
<1>1. /\ t \in Threads /\ t \in ThreadsOf(c) /\ Log(c) \in Seq(Messages) /\ Len(Log(c)) \in Nat
      /\ TypeInv
  BY OfController DEF Inv
<1>2. /\ left \in Allowance /\ next \in Nat \ {0} /\ given \subseteq Messages
  BY DEF Inv, TypeInv, Counts
<1>3. /\ left' \in Allowance /\ Messages' = Messages
      /\ UNCHANGED <<file, meta, locked, cur, path, next, saved>>
  BY <1>2, SpendOK DEF CancelTurn, Messages
<1>4. next' \in Nat /\ next <= next'
  BY <1>2, <1>3, SMT
<1>5. q.start \in Nat /\ q.mine \subseteq Messages
  BY <1>1, Here DEF ThreadOK
<1>6. CASE Len(Log(c)) <= q.start
  <2>1. th' = At(t, "clear") /\ slot' = slot /\ given' = given
    BY <1>6 DEF CancelTurn
  <2>2. th' = [th EXCEPT ![t] = r]
    BY <2>1, <1>1, Here, Zenon DEF At, WithPc
  <2>3. ThreadOK(r, DOMAIN file, Messages) /\ r.pc = "clear" /\ r.was = q.was
    <3>1. ThreadOK(q, DOMAIN file, Messages) /\ q.path \in DOMAIN file
      BY <1>1, Here DEF CancelTurn
    <3> HIDE DEF q
    <3> QED BY <3>1, PcSet
  <2>4. /\ SlotsOK(slot', Messages')
        /\ \A d \in Controllers \ {c} : slot'[d] = slot[d]
        /\ \A i \in Slots : slot'[c][i].pers = slot[c][i].pers
    BY <1>3, <2>1, LogStays
  <2>5. r.pc \in Calm
    BY <2>3 DEF Calm, Resting
  <2> HIDE DEF r
  <2> QED BY <1>1, <1>2, <1>3, <1>4, <2>1, <2>2, <2>3, <2>4, <2>5, ControllerMove
<1>7. CASE ~(Len(Log(c)) <= q.start)
  <2>1. /\ th' = [th EXCEPT ![t] = s] /\ SetLog(c, text)
        /\ given' = given \cup (q.mine \ Range(text))
    BY <1>7 DEF CancelTurn
  <2>2. text \in Seq(Messages)
    <3>1. q.start < Len(Log(c))
      BY <1>1, <1>5, <1>7, SMT
    <3> HIDE DEF q
    <3> QED BY <1>1, <1>5, <3>1, StrippedText
  <2>3. ThreadOK(s, DOMAIN file, Messages) /\ s.pc = "lock" /\ s.was = q.was
    <3>1. "clear" \in Resting
      BY DEF Resting
    <3> HIDE DEF text
    <3>2. SaveOK(s, t)
      BY <1>1, <2>2, <3>1, SavingSet
    <3> HIDE DEF s
    <3> QED BY <3>2 DEF SaveOK
  <2> HIDE DEF text, s
  <2>4. /\ SlotsOK(slot', Messages')
        /\ \A d \in Controllers \ {c} : slot'[d] = slot[d]
        /\ \A i \in Slots : slot'[c][i].pers = slot[c][i].pers
    BY <1>3, <2>1, <2>2, LogMove
  <2>5. s.pc \in Calm /\ given' \subseteq Messages'
    BY <1>2, <1>3, <1>5, <2>1, <2>3 DEF Calm
  <2> QED BY <1>1, <1>3, <1>4, <2>1, <2>3, <2>4, <2>5, ControllerMove
<1> QED BY <1>6, <1>7

LEMMA TickStep ==
  ASSUME Inv, NEW c \in Controllers, Tick(c)
  PROVE  Inv' /\ StoreStep
<1> DEFINE t == <<c, "auto">>
           s == Saving(t, Log(c), FALSE, "update", "idle")
<1>1. t \in Threads /\ t \in ThreadsOf(c) /\ Log(c) \in Seq(Messages) /\ TypeInv
  BY OfController DEF Inv
<1>2. /\ left \in Allowance /\ next \in Nat \ {0} /\ given \subseteq Messages
  BY DEF Inv, TypeInv, Counts
<1>3. /\ left' \in Allowance /\ Messages' = Messages
      /\ UNCHANGED <<file, meta, locked, slot, cur, path, next, saved, given>>
      /\ th' = [th EXCEPT ![t] = s]
  BY <1>2, SpendOK DEF Tick, Messages
<1>4. next' \in Nat /\ next <= next'
  BY <1>2, <1>3, SMT
<1>5. ThreadOK(s, DOMAIN file, Messages) /\ s.pc = "lock" /\ s.was = th[t].was
  <2>1. "idle" \in Resting
    BY DEF Resting
  <2>2. SaveOK(s, t)
    BY <1>1, <2>1, SavingSet
  <2> HIDE DEF s
  <2> QED BY <2>2 DEF SaveOK
<1>6. /\ SlotsOK(slot', Messages')
      /\ \A d \in Controllers \ {c} : slot'[d] = slot[d]
      /\ \A i \in Slots : slot'[c][i].pers = slot[c][i].pers
  BY <1>3, LogStays
<1>7. s.pc \in Calm
  BY <1>5 DEF Calm
<1> HIDE DEF s
<1> QED BY <1>1, <1>2, <1>3, <1>4, <1>5, <1>6, <1>7, ControllerMove

LEMMA RewindStep ==
  ASSUME Inv, NEW c \in Controllers, Rewind(c)
  PROVE  Inv' /\ StoreStep
<1> DEFINE t == Turn(c)
<1>1. /\ t \in Threads /\ t \in ThreadsOf(c) /\ Log(c) \in Seq(Messages) /\ Len(Log(c)) \in Nat
      /\ TypeInv
  BY OfController DEF Inv
<1>2. PICK k \in 1 .. Len(Log(c)) - 1 :
        /\ left.rewinds > 0 /\ Spend("rewinds")
        /\ SetLog(c, SubSeq(Log(c), 1, k)) /\ Dropped(c, SubSeq(Log(c), 1, k))
        /\ th' = [th EXCEPT ![t] = Saving(t, SubSeq(Log(c), 1, k), TRUE, "update", "idle")]
        /\ UNCHANGED <<file, meta, locked, cur, path, next, saved>>
  BY DEF Rewind
<1> DEFINE text == SubSeq(Log(c), 1, k)
           s == Saving(t, text, TRUE, "update", "idle")
<1>3. /\ left \in Allowance /\ next \in Nat \ {0} /\ given \subseteq Messages
  BY DEF Inv, TypeInv, Counts
<1>4. /\ left' \in Allowance /\ Messages' = Messages
  BY <1>2, <1>3, SpendOK DEF Messages
<1>5. next' \in Nat /\ next <= next'
  BY <1>2, <1>3, SMT
<1>6. text \in Seq(Messages)
  <2>1. k \in Nat /\ k <= Len(Log(c))
    BY <1>1, SMT
  <2> QED BY <1>1, <2>1, CutText
<1>7. SetLog(c, text) /\ th' = [th EXCEPT ![t] = s]
  BY <1>2
<1>8. given' \subseteq Messages'
  <2>1. Range(Log(c)) \subseteq Messages
    BY <1>1, RangeOfSeq
  <2> QED BY <1>2, <1>3, <1>4, <2>1 DEF Dropped
<1> HIDE DEF text
<1>9. ThreadOK(s, DOMAIN file, Messages) /\ s.pc = "lock" /\ s.was = th[t].was
  <2>1. "idle" \in Resting
    BY DEF Resting
  <2>2. SaveOK(s, t)
    BY <1>1, <1>6, <2>1, SavingSet
  <2> HIDE DEF s
  <2> QED BY <2>2 DEF SaveOK
<1>10. /\ SlotsOK(slot', Messages')
       /\ \A d \in Controllers \ {c} : slot'[d] = slot[d]
       /\ \A i \in Slots : slot'[c][i].pers = slot[c][i].pers
  BY <1>4, <1>6, <1>7, LogMove
<1>11. s.pc \in Calm
  BY <1>9 DEF Calm
<1> HIDE DEF s
<1> QED BY <1>1, <1>2, <1>4, <1>5, <1>7, <1>8, <1>9, <1>10, <1>11, ControllerMove

LEMMA RecoverStep ==
  ASSUME Inv, NEW c \in Controllers, Recover(c)
  PROVE  Inv' /\ StoreStep
<1> DEFINE t == Turn(c)
           mark == MetaOf(th[t].home).mark
           text == Stripped(Log(c), mark.start)
           s == Saving(t, text, TRUE, "none", "recovered")
<1>1. /\ t \in Threads /\ t \in ThreadsOf(c) /\ Log(c) \in Seq(Messages) /\ Len(Log(c)) \in Nat
      /\ TypeInv /\ th[t].pc = "resumed"
      /\ UNCHANGED <<file, meta, locked, cur, path, left, next, saved, given>>
      /\ Messages' = Messages
  BY OfController DEF Inv, Recover, Messages
<1>2. mark.start \in Nat
  BY <1>1, SidecarOK DEF TypeInv, Meta, Mark
<1>3. CASE mark.on /\ Len(Log(c)) > mark.start
  <2>1. SetLog(c, text) /\ th' = [th EXCEPT ![t] = s]
    BY <1>3 DEF Recover
  <2>2. text \in Seq(Messages)
    <3>1. mark.start < Len(Log(c))
      <4> HIDE DEF mark
      <4> QED BY <1>1, <1>2, <1>3, SMT
    <3> HIDE DEF mark
    <3> QED BY <1>1, <1>2, <3>1, StrippedText
  <2> HIDE DEF text
  <2>3. ThreadOK(s, DOMAIN file, Messages) /\ s.pc = "lock" /\ s.was = th[t].was
    <3>1. "recovered" \in Resting
      BY DEF Resting
    <3>2. SaveOK(s, t)
      BY <1>1, <2>2, <3>1, SavingSet
    <3> HIDE DEF s
    <3> QED BY <3>2 DEF SaveOK
  <2>4. /\ SlotsOK(slot', Messages')
        /\ \A d \in Controllers \ {c} : slot'[d] = slot[d]
        /\ \A i \in Slots : slot'[c][i].pers = slot[c][i].pers
    BY <1>1, <2>1, <2>2, LogMove
  <2>5. /\ left' \in Allowance /\ next' \in Nat /\ next <= next' /\ given' \subseteq Messages'
    <3>1. left \in Allowance /\ next \in Nat /\ given \subseteq Messages
      BY <1>1 DEF TypeInv, Counts
    <3> QED BY <1>1, <3>1, SMT
  <2>6. s.pc \in Calm
    BY <2>3 DEF Calm
  <2> HIDE DEF s, mark
  <2> QED BY <1>1, <2>1, <2>3, <2>4, <2>5, <2>6, ControllerMove
<1>4. CASE ~(mark.on /\ Len(Log(c)) > mark.start)
  <2>1. slot' = slot
    BY <1>4 DEF Recover
  <2>2. CASE th' = At(t, "unmark")
    BY <1>1, <2>1, <2>2, AtStep DEF Calm, Resting
  <2>3. CASE th' = [th EXCEPT ![t] = Idle]
    BY <1>1, <2>1, <2>3, IdleStep
  <2> QED BY <1>4, <2>2, <2>3 DEF Recover
<1> QED BY <1>3, <1>4

\* The process of c ends or begins: both its threads are new.
LEMMA BothMove ==
  ASSUME Inv, NEW c \in Controllers, file' = file, Messages' = Messages,
         DOMAIN th' = Threads, \A u \in Threads \ ThreadsOf(c) : th'[u] = th[u],
         \A t \in ThreadsOf(c) : ThreadOK(th'[t], DOMAIN file, Messages) /\ th'[t].pc \in Calm,
         \A u \in Threads \ ThreadsOf(c) : Holder(th[u]) => th[u].path \in locked'
  PROVE  ThreadsOK' /\ LockInv'
<1> DEFINE U == ThreadsOf(c)
<1>1. U \in SUBSET Threads
  BY DEF ThreadsOf, Threads, Turn
<1>2. \A t \in U : WriteOK(th'[t], file) /\ ~Holder(th'[t])
  BY DEF WriteOK, Holder, Holding, Calm, Resting
<1>3. \A t \in U : ThreadOK(th'[t], DOMAIN file', Messages') /\ WriteOK(th'[t], file')
  BY <1>2
<1>4. \A u \in Threads \ U : Holder(th[u]) =>
        th[u].path \in locked' /\ file'[th[u].path] = file[th[u].path]
  OBVIOUS
<1>5. \A v \in U : Holder(th'[v]) =>
        /\ th'[v].path \in locked'
        /\ \A u \in Threads \ {v} : Holder(th[u]) => th[u].path # th'[v].path
        /\ \A u \in U \ {v} : ~Holder(th'[u])
  BY <1>2
<1>6. Messages \subseteq Messages' /\ DOMAIN file \subseteq DOMAIN file'
  OBVIOUS
<1>7. \A u \in Threads \ U : th'[u] = th[u]
  OBVIOUS
<1> HIDE DEF U
<1> QED BY <1>1, <1>3, <1>4, <1>5, <1>6, <1>7, SomeMove

\* ... and know of no file but what a Session of c knew.
LEMMA BothForget ==
  ASSUME Inv, NEW c \in Controllers, file' = file,
         \A u \in Threads \ ThreadsOf(c) : th'[u] = th[u],
         \A t \in ThreadsOf(c) : th'[t].was = NoBase /\ th'[t].pc \in Calm,
         \A d \in Controllers \ {c} : slot'[d] = slot[d],
         \A i \in Slots : slot'[c][i].pers \in {NoBase, slot[c][i].pers}
  PROVE  StoreStep
<1>1. \A b \in Baselines(c)' : b # NoBase => b \in Baselines(c)
  BY DEF Baselines
<1>2. \A b \in Baselines(c) : b # NoBase => <<b.path, b.text>> \in Seen[c]
  BY SeenFacts, Zenon
<1>3. Loaded(c)' = {}
  BY DEF Loaded, Calm, Resting
<1>4. \A b \in Baselines(c)' : b # NoBase =>
        <<b.path, b.text>> \in Seen[c] \/ OnFile(<<b.path, b.text>>)
  BY <1>1, <1>2, Zenon
<1> QED BY <1>3, <1>4, Observes

LEMMA ExitStep ==
  ASSUME Inv, NEW c \in Controllers, Exit(c)
  PROVE  Inv' /\ StoreStep
<1> DEFINE turn == th[Turn(c)]
           lost == {th[t].path : t \in {u \in ThreadsOf(c) : Holds(u)}}
<1>1. /\ TypeInv /\ LockInv /\ Files /\ Counts /\ Runtimes /\ ThreadsOK
      /\ ThreadsOf(c) \subseteq Threads /\ Turn(c) \in Threads /\ Log(c) \in Seq(Messages)
  BY OfController DEF Inv, TypeInv
<1>2. /\ left.exits > 0 /\ Spend("exits")
      /\ given' = given \cup turn.mine \cup (Range(Log(c)) \ OnDisk)
      /\ locked' = locked \ lost
      /\ slot' = [slot EXCEPT ![c] = [i \in Slots |-> Blank]]
      /\ cur' = [cur EXCEPT ![c] = 1]
      /\ path' = [path EXCEPT ![c] = Main]
      /\ th' = [t \in Threads |-> IF t \in ThreadsOf(c) THEN Down ELSE th[t]]
      /\ UNCHANGED <<file, meta, next, saved>>
      /\ Messages' = Messages
  BY DEF Exit, Messages
<1>3. left' \in Allowance
  BY <1>1, <1>2, SpendOK DEF Counts
<1>4. /\ DOMAIN th' = Threads
      /\ \A u \in Threads \ ThreadsOf(c) : th'[u] = th[u]
      /\ \A t \in ThreadsOf(c) : th'[t] = Down
  BY <1>1, <1>2
<1>5. ThreadOK(Down, DOMAIN file, Messages) /\ Down.pc \in Calm /\ Down.was = NoBase
  BY <1>1, IdleOK DEF Files, Calm, Resting
<1>6. ASSUME NEW u \in Threads \ ThreadsOf(c), Holder(th[u])
      PROVE  th[u].path \in locked'
  <2>1. th[u].path \in locked
    BY <1>1, <1>6 DEF LockInv, LockHeld
  <2>2. \A t \in ThreadsOf(c) : Holds(t) => th[t].path # th[u].path
    BY <1>1, <1>6 DEF LockInv, LockAlone, Holds, Holder, Holding
  <2> QED BY <1>2, <2>1, <2>2
<1>7. ThreadsOK' /\ LockInv'
  BY <1>2, <1>4, <1>5, <1>6, BothMove
<1>8. given' \subseteq Messages
  <2>1. Range(Log(c)) \subseteq Messages
    BY <1>1, RangeOfSeq
  <2>2. turn.mine \subseteq Messages /\ given \subseteq Messages
    BY <1>1 DEF Counts, ThreadsOK, ThreadOK
  <2> QED BY <1>2, <2>1, <2>2
<1>9. Files' /\ Sidecars'
  BY <1>1, <1>2 DEF Files, Sidecars, IsText, TypeInv
<1>10. Counts'
  BY <1>1, <1>2, <1>3, <1>8 DEF Counts
<1>11. /\ \A d \in Controllers \ {c} : slot'[d] = slot[d]
       /\ slot'[c] = [i \in Slots |-> Blank] /\ DOMAIN slot' = Controllers
  BY <1>1, <1>2 DEF Runtimes, SlotsOK
<1>12. Runtimes'
  <2>1. SlotOK(Blank, Messages)
    BY EmptySeq DEF SlotOK, Blank
  <2>2. SlotsOK(slot', Messages)
    BY <1>1, <1>11, <2>1 DEF Runtimes, SlotsOK
  <2>3. 1 \in Slots /\ Main \in DOMAIN file
    BY <1>1, SMT DEF Slots, Files
  <2> QED BY <1>1, <1>2, <2>2, <2>3 DEF Runtimes
<1>13. StoreStep
  <2>1. \A i \in Slots : slot'[c][i].pers = NoBase
    BY <1>11 DEF Blank
  <2> QED BY <1>2, <1>4, <1>5, <1>11, <2>1, BothForget
<1> QED BY <1>7, <1>9, <1>10, <1>12, <1>13 DEF Inv, TypeInv

WithOpen(q, p) == [q EXCEPT !.pc = "load", !.path = p, !.home = p, !.then = "resumed"]

LEMMA OpenSet ==
  ASSUME NEW F, NEW M, NEW q, ThreadOK(q, F, M), F \subseteq Paths, NEW p \in F
  PROVE  /\ ThreadOK(WithOpen(q, p), F, M)
         /\ WithOpen(q, p).pc = "load"
         /\ WithOpen(q, p).was = q.was
<1> DEFINE r == WithOpen(q, p)
<1>0. DOMAIN q = Fields
  BY DEF ThreadOK
<1>1. /\ DOMAIN r = Fields /\ r.pc = "load" /\ r.was = q.was /\ r.text = q.text /\ r.path = p
      /\ r.home = p /\ r.base = q.base /\ r.start = q.start /\ r.m = q.m
      /\ r.mine = q.mine /\ r.then = "resumed"
  BY <1>0, SMT DEF Fields, WithOpen
<1> HIDE DEF r
<1>2. ThreadOK(r, F, M)
  BY <1>1, SMT DEF ThreadOK, Resting
<1> QED BY <1>1, <1>2 DEF r

LEMMA ResumeStep ==
  ASSUME Inv, NEW c \in Controllers, Resume(c)
  PROVE  Inv' /\ StoreStep
<1>0. PICK p \in DOMAIN file :
        /\ path' = [path EXCEPT ![c] = p]
        /\ th' = [th EXCEPT ![<<c, "auto">>] = Idle,
                            ![Turn(c)] = [Idle EXCEPT !.pc = "load", !.path = p, !.home = p, !.then = "resumed"]]
        /\ UNCHANGED <<file, meta, locked, slot, cur, left, next, saved, given>>
  BY Zenon DEF Resume
<1> DEFINE r == WithOpen(Idle, p)
<1>1. /\ TypeInv /\ LockInv /\ Files /\ Sidecars /\ Counts /\ Runtimes /\ ThreadsOK
      /\ ThreadsOf(c) \subseteq Threads /\ Turn(c) \in Threads /\ <<c, "auto">> \in Threads
      /\ Turn(c) # <<c, "auto">> /\ ThreadsOf(c) = {Turn(c), <<c, "auto">>}
      /\ Messages' = Messages
  BY <1>0, OfController DEF Inv, TypeInv, Messages
<1>2. th' = [th EXCEPT ![<<c, "auto">>] = Idle, ![Turn(c)] = r]
  BY <1>0, Zenon DEF WithOpen
<1>3. /\ ThreadOK(Idle, DOMAIN file, Messages) /\ Idle.pc \in Calm /\ Idle.was = NoBase
  BY <1>1, IdleOK DEF Files, Calm, Resting
<1>4. ThreadOK(r, DOMAIN file, Messages) /\ r.pc \in Calm /\ r.was = NoBase
  BY <1>1, <1>3, OpenSet DEF Files, Calm
<1> HIDE DEF r
<1>5. /\ DOMAIN th' = Threads /\ th'[<<c, "auto">>] = Idle /\ th'[Turn(c)] = r
      /\ \A u \in Threads \ ThreadsOf(c) : th'[u] = th[u]
  <2> DEFINE a == <<c, "auto">>
             b == Turn(c)
  <2>1. DOMAIN th = Threads /\ a \in Threads /\ b \in Threads /\ a # b /\ ThreadsOf(c) = {a, b}
    BY <1>1 DEF ThreadsOK
  <2>2. th' = [th EXCEPT ![a] = Idle, ![b] = r]
    BY <1>2
  <2> HIDE DEF a, b
  <2>3. DOMAIN th' = Threads /\ th'[a] = Idle /\ th'[b] = r /\ \A u \in Threads \ {a, b} : th'[u] = th[u]
    BY <2>1, <2>2
  <2> QED BY <2>1, <2>3 DEF a, b
<1>6. \A t \in ThreadsOf(c) :
        /\ ThreadOK(th'[t], DOMAIN file, Messages) /\ th'[t].pc \in Calm /\ th'[t].was = NoBase
  BY <1>1, <1>3, <1>4, <1>5
<1>7. ThreadsOK' /\ LockInv'
  <2>1. \A u \in Threads \ ThreadsOf(c) : Holder(th[u]) => th[u].path \in locked'
    BY <1>0, <1>1 DEF LockInv, LockHeld
  <2> QED BY <1>0, <1>1, <1>5, <1>6, <2>1, BothMove
<1>8. Files' /\ Sidecars' /\ Counts'
  BY <1>0, <1>1 DEF Files, Sidecars, Counts, IsText
<1>9. Runtimes'
  BY <1>0, <1>1 DEF Runtimes
<1>10. StoreStep
  BY <1>0, <1>5, <1>6, BothForget
<1> QED BY <1>7, <1>8, <1>9, <1>10 DEF Inv, TypeInv

-----------------------------------------------------------------------------
(* Every step.                                                             *)

LEMMA StepOK ==
  ASSUME Inv, [Next]_vars
  PROVE  Inv' /\ StoreStep
<1>1. ASSUME NEW t \in Threads, SaveStep(t)
      PROVE  Inv' /\ StoreStep
  <2>1. CASE Lock(t)
    BY <2>1, LockStep
  <2>2. CASE Write(t)
    BY <2>2, WriteStep
  <2>3. CASE Record(t)
    BY <2>3, RecordStep
  <2>4. CASE RecMerge(t)
    BY <2>4, RecMergeStep
  <2>5. CASE RecPut(t)
    BY <2>5, RecPutStep
  <2>6. CASE RecordFailed(t)
    BY <2>6, RecordFailedStep
  <2>7. CASE Persisted(t)
    BY <2>7, PersistedStep
  <2> QED BY <1>1, <2>1, <2>2, <2>3, <2>4, <2>5, <2>6, <2>7 DEF SaveStep
<1>2. ASSUME NEW t \in Threads, ConflictStep(t)
      PROVE  Inv' /\ StoreStep
  <2>1. CASE Load(t)
    BY <2>1, LoadStep
  <2>2. CASE Install(t)
    BY <2>2, InstallStep
  <2>3. CASE Branch(t)
    BY <2>3, BranchStep
  <2>4. CASE BranchFile(t)
    BY <2>4, BranchFileStep
  <2>5. CASE BranchMeta(t)
    BY <2>5, BranchMetaStep
  <2> QED BY <1>2, <2>1, <2>2, <2>3, <2>4, <2>5 DEF ConflictStep
<1>3. ASSUME NEW t \in Threads, MetaStep(t)
      PROVE  Inv' /\ StoreStep
  <2>1. CASE Read(t)
    BY <2>1, ReadStep
  <2>2. CASE Merge(t)
    BY <2>2, MergeStep
  <2>3. CASE Replace(t)
    BY <2>3, ReplaceStep
  <2> QED BY <1>3, <2>1, <2>2, <2>3 DEF MetaStep
<1>4. ASSUME NEW c \in Controllers, ControllerStep(c)
      PROVE  Inv' /\ StoreStep
  <2>1. CASE StartTurn(c)
    BY <2>1, StartTurnStep
  <2>2. CASE MarkTurn(c) \/ ClearMark(c) \/ Unmark(c)
    BY <2>2, MarkTurnStep
  <2>3. CASE Prompt(c) \/ Reply(c)
    BY <2>3, SayStep
  <2>4. CASE EndTurn(c)
    BY <2>4, EndTurnStep
  <2>5. CASE CancelTurn(c)
    BY <2>5, CancelTurnStep
  <2>6. CASE Flush(c)
    BY <2>6, FlushStep
  <2>7. CASE Tick(c)
    BY <2>7, TickStep
  <2>8. CASE Rewind(c)
    BY <2>8, RewindStep
  <2>9. CASE Exit(c)
    BY <2>9, ExitStep
  <2>10. CASE Resume(c)
    BY <2>10, ResumeStep
  <2>11. CASE Recover(c)
    BY <2>11, RecoverStep
  <2>12. CASE Recovered(c)
    BY <2>12, RecoveredStep
  <2> QED BY <1>4, <2>1, <2>2, <2>3, <2>4, <2>5, <2>6, <2>7, <2>8, <2>9, <2>10, <2>11, <2>12
          DEF ControllerStep
<1>5. CASE UNCHANGED vars
  <2>1. UNCHANGED <<file, meta, locked, slot, cur, path, th, left, next, saved, given>>
    BY <1>5 DEF vars
  <2>2. TypeInv /\ LockInv /\ ThreadsOK
    BY DEF Inv, TypeInv
  <2>3. Files' /\ Sidecars' /\ Counts' /\ Runtimes'
    BY <2>1, <2>2, RestSame
  <2>4. ThreadsOK'
    <3>1. Messages' = Messages
      BY <2>1 DEF Messages
    <3> QED BY <2>1, <2>2, <3>1 DEF ThreadsOK
  <2>5. LockInv'
    BY <2>1, <2>2 DEF LockInv, LockHeld, LockAlone, WritesOK
  <2>6. Seen' = Seen
    BY <2>1 DEF Seen, Baselines, Loaded
  <2> QED BY <2>1, <2>3, <2>4, <2>5, <2>6 DEF Inv, TypeInv, StoreStep, Store!vars
<1> QED BY <1>1, <1>2, <1>3, <1>4, <1>5 DEF Next

LEMMA InitOK ==
  ASSUME Init
  PROVE  Inv /\ Store!Init
<1>1. /\ file = [p \in {Main} |-> << <<1, "user">> >>]
      /\ meta = [p \in {Main} |-> [rev |-> 1, mark |-> NoMark]]
      /\ locked = {}
      /\ slot = [c \in Controllers |-> [i \in Slots |-> Blank]]
      /\ cur = [c \in Controllers |-> 1]
      /\ path = [c \in Controllers |-> Main]
      /\ th = [t \in Threads |-> Down]
      /\ left \in Scenarios /\ next = 2 /\ saved = { <<1, "user">> } /\ given = {}
  BY DEF Init
<1>2. /\ DOMAIN file = {Main} /\ file[Main] = << <<1, "user">> >>
      /\ DOMAIN meta = {Main} /\ meta[Main] = [rev |-> 1, mark |-> NoMark]
  BY <1>1
<1>3. Messages = {1} \X Role
  BY <1>1, SMT DEF Messages, Role
<1>4. <<1, "user">> \in Messages
  BY <1>3 DEF Role
<1>5. Main \in Paths
  BY EmptySeq DEF Main, Paths
<1>6. Files
  BY <1>2, <1>4, <1>5 DEF Files, IsText
<1>7. Sidecars
  <2>1. [rev |-> 1, mark |-> NoMark] \in Meta
    BY SMT DEF Meta, Mark, NoMark
  <2> QED BY <1>2, <2>1 DEF Sidecars
<1>8. Counts
  BY <1>1, <1>4, ScenarioFields, SMT DEF Counts
<1>9. Runtimes
  <2>1. SlotOK(Blank, Messages)
    BY EmptySeq DEF SlotOK, Blank
  <2>2. SlotsOK(slot, Messages)
    BY <1>1, <2>1 DEF SlotsOK
  <2>3. 1 \in Slots
    BY SMT DEF Slots
  <2> QED BY <1>1, <1>2, <2>2, <2>3 DEF Runtimes
<1>10. ThreadOK(Down, DOMAIN file, Messages) /\ Down.pc \in {"idle", "down"} /\ Down.was = NoBase
  BY <1>6, IdleOK DEF Files
<1>11. ThreadsOK
  BY <1>1, <1>10 DEF ThreadsOK
<1>12. WriteOK(Down, file) /\ ~Holder(Down) /\ Down.pc # "install"
  BY <1>10 DEF WriteOK, Holder, Holding
<1>13. LockInv
  BY <1>1, <1>12 DEF LockInv, LockHeld, LockAlone, WritesOK
<1>14. Store!Init
  <2>1. ASSUME NEW c \in Controllers
        PROVE  Seen[c] = {}
    <3>1. ThreadsOf(c) \subseteq Threads
      BY DEF ThreadsOf, Threads, Turn
    <3>2. Baselines(c) \subseteq {NoBase} /\ Loaded(c) = {}
      BY <1>1, <1>10, <1>12, <3>1 DEF Baselines, Loaded, Blank
    <3>3. Seen[c] = {<<b.path, b.text>> : b \in Baselines(c) \ {NoBase}}
                    \cup {<<th[t].path, th[t].text>> : t \in Loaded(c)}
      BY DEF Seen
    <3> QED BY <3>2, <3>3
  <2>2. Seen = [c \in Controllers |-> {}]
    <3>1. Seen = [c \in Controllers |-> Seen[c]]
      BY DEF Seen
    <3> QED BY <2>1, <3>1
  <2> QED BY <1>2, <2>2 DEF Store!Init
<1> QED BY <1>6, <1>7, <1>8, <1>9, <1>11, <1>13, <1>14 DEF Inv, TypeInv

LEMMA Invariance == Spec => []Inv
<1>1. Init => Inv
  BY InitOK
<1>2. Inv /\ [Next]_vars => Inv'
  BY StepOK
<1> QED BY <1>1, <1>2, PTL DEF Spec

-----------------------------------------------------------------------------
(* What is saved stays.  A thread saves no more than the log of its Session *)
(* holds, or the user has given up; a baseline is covered by the log in the *)
(* same way; and the turn, which alone rewrites, saves exactly the log of   *)
(* now.  So the text a rewrite replaces, a baseline, is covered by the text *)
(* that replaces it.  What a log holds and no file does is of a turn that   *)
(* is not over, or of the save at its end.                                  *)

SavingPlaces == {"lock", "write", "record", "recMerge", "recPut", "persisted", "branchFile", "branchMeta"}
Editing == {"read", "merge", "put"}
AutoPlaces == {"idle", "down"} \cup Editing \cup (SavingPlaces \ {"branchFile", "branchMeta"})

InTurn(r) == r.pc \in {"prepare", "prompt", "work", "replied"} \/ r.then = "prompt"

\* The log of a turn in r may hold what is neither saved nor given up.
Unsaved(r, log) ==
  \/ r.pc \in {"work", "replied", "lock", "write", "branch", "branchFile"}
  \/ (r.pc \in {"clear", "flush"} \/ r.then = "flush") /\ Len(log) > r.start

\* r is the turn of a runtime whose Session is n and whose log is log; kept are
\* the messages saved or given up.
TurnOK(r, n, log, kept) ==
  /\ r.pc \in SavingPlaces => r.s = n /\ r.text = log
  /\ r.then \in {"prompt", "flush"} => r.pc \in Editing
  /\ InTurn(r) => r.start <= Len(log) /\ \A i \in 1 .. Len(log) : i > r.start => log[i] \in r.mine
  /\ r.pc \in {"work", "replied"} => Len(log) > r.start
  /\ Unsaved(r, log) \/ Range(log) \subseteq kept

\* r is an autosave of a runtime with these Sessions.
AutoOK(r, sessions, gone) ==
  /\ r.pc \in AutoPlaces /\ r.rewrite = FALSE /\ r.then = "idle"
  /\ r.pc \in SavingPlaces => r.s \in Slots /\ Range(r.text) \subseteq Range(sessions[r.s].log) \cup gone

\* A transcript begins with a prompt.
Opened(text) == text # <<>> => IsUser(text[1])

TextOK(r, f, gone, kept) ==
  /\ Opened(r.text)
  /\ r.pc = "write" => Range(f[r.path]) \subseteq Range(r.text) \cup gone
  /\ r.pc = "install" => Range(r.text) \subseteq kept

BaseOK(x, gone) == Range(x.pers.text) \subseteq Range(x.log) \cup gone

Turns == \A c \in Controllers : TurnOK(th[Turn(c)], cur[c], Log(c), saved \cup given)
Autos == \A c \in Controllers : AutoOK(th[<<c, "auto">>], slot[c], given)
Texts == \A t \in Threads : TextOK(th[t], file, given, saved)
Bases == \A c \in Controllers : \A i \in Slots : BaseOK(slot[c][i], given)
Openings ==
  /\ \A p \in DOMAIN file : Opened(file[p])
  /\ \A c \in Controllers : Opened(Log(c))
DiskSaved == OnDisk \subseteq saved
Said == 1 .. next - 1 \subseteq {m[1] : m \in saved \cup given \cup UNION {Range(Log(c)) : c \in Controllers}}

Kept == /\ Turns /\ Autos /\ Texts /\ Bases /\ Openings
        /\ DiskSaved /\ SavedMessageSurvives /\ Said

LEMMA RangeIn ==
  ASSUME NEW x, NEW i \in DOMAIN x
  PROVE  x[i] \in Range(x)
BY DEF Range

\* The threads of U move, the others stay.
LEMMA KeptMove ==
  ASSUME Kept, NEW U \in SUBSET Threads,
         \A u \in Threads \ U : th'[u] = th[u],
         given \subseteq given', saved \subseteq saved',
         \A c \in Controllers : Turn(c) \notin U => cur'[c] = cur[c] /\ Log(c)' = Log(c),
         \A c \in Controllers : <<c, "auto">> \notin U /\ th[<<c, "auto">>].pc \in SavingPlaces =>
            Range(slot[c][th[<<c, "auto">>].s].log)
              \subseteq Range(slot'[c][th[<<c, "auto">>].s].log) \cup given',
         \A u \in Threads \ U : th[u].pc = "write" => file'[th[u].path] = file[th[u].path],
         \A c \in Controllers : Turn(c) \in U =>
            TurnOK(th'[Turn(c)], cur'[c], Log(c)', saved' \cup given'),
         \A c \in Controllers : <<c, "auto">> \in U => AutoOK(th'[<<c, "auto">>], slot'[c], given'),
         \A u \in U : TextOK(th'[u], file', given', saved'),
         Bases', Openings', DiskSaved', SavedMessageSurvives', Said'
  PROVE  Kept'
<1>1. Turns'
  <2>1. ASSUME NEW c \in Controllers, Turn(c) \notin U
        PROVE  TurnOK(th'[Turn(c)], cur'[c], Log(c)', saved' \cup given')
    <3>1. /\ th'[Turn(c)] = th[Turn(c)] /\ cur'[c] = cur[c] /\ Log(c)' = Log(c)
          /\ TurnOK(th[Turn(c)], cur[c], Log(c), saved \cup given)
      BY <2>1 DEF Kept, Turns, Turn, Threads
    <3>2. TurnOK(th[Turn(c)], cur[c], Log(c), saved' \cup given')
      BY <3>1 DEF TurnOK
    <3> QED BY <3>1, <3>2
  <2> QED BY <2>1 DEF Turns
<1>2. Autos'
  <2>1. ASSUME NEW c \in Controllers, <<c, "auto">> \notin U
        PROVE  AutoOK(th'[<<c, "auto">>], slot'[c], given')
    <3> DEFINE r == th[<<c, "auto">>]
    <3>1. th'[<<c, "auto">>] = r /\ AutoOK(r, slot[c], given)
      BY <2>1 DEF Kept, Autos, Threads
    <3>2. r.pc \in SavingPlaces => Range(slot[c][r.s].log) \subseteq Range(slot'[c][r.s].log) \cup given'
      BY <2>1
    <3> HIDE DEF r
    <3>3. AutoOK(r, slot'[c], given')
      BY <3>1, <3>2 DEF AutoOK
    <3> QED BY <3>1, <3>3
  <2> QED BY <2>1 DEF Autos
<1>3. Texts'
  <2>1. ASSUME NEW u \in Threads \ U
        PROVE  TextOK(th'[u], file', given', saved')
    <3>1. th'[u] = th[u] /\ TextOK(th[u], file, given, saved)
      BY DEF Kept, Texts
    <3> QED BY <3>1 DEF TextOK
  <2> QED BY <2>1 DEF Texts
<1> QED BY <1>1, <1>2, <1>3 DEF Kept

\* t, moved to r, while everything else stays as it is.
MoveOK(t, r) ==
  /\ TextOK(r, file, given, saved)
  /\ t[2] = "turn" => TurnOK(r, cur[t[1]], Log(t[1]), saved \cup given)
  /\ t[2] = "auto" => AutoOK(r, slot[t[1]], given)

LEMMA KeptHere ==
  ASSUME Kept, NEW t \in Threads
  PROVE  /\ MoveOK(t, th[t]) /\ t[1] \in Controllers /\ t[2] \in {"turn", "auto"}
         /\ t = <<t[1], t[2]>> /\ Turn(t[1]) \in Threads /\ <<t[1], "auto">> \in Threads
<1>1. PICK c \in Controllers, w \in {"turn", "auto"} : t = <<c, w>>
  BY DEF Threads
<1>2. Turn(c) \in Threads /\ <<c, "auto">> \in Threads
  BY DEF Turn, Threads
<1>3. /\ TextOK(th[t], file, given, saved)
      /\ TurnOK(th[Turn(c)], cur[c], Log(c), saved \cup given)
      /\ AutoOK(th[<<c, "auto">>], slot[c], given)
  BY DEF Kept, Texts, Turns, Autos
<1> QED BY <1>1, <1>2, <1>3 DEF MoveOK, Turn

LEMMA CalmKept ==
  ASSUME Inv, Kept, NEW t \in Threads, NEW r, th' = [th EXCEPT ![t] = r],
         UNCHANGED <<file, slot, cur, next, saved, given>>, MoveOK(t, r)
  PROVE  Kept'
<1>1. /\ DOMAIN th' = Threads /\ th'[t] = r /\ \A u \in Threads \ {t} : th'[u] = th[u]
  BY Here, Moved
<1>2. \A c \in Controllers : Log(c)' = Log(c)
  BY DEF Log
<1>3. Bases' /\ Openings' /\ DiskSaved' /\ SavedMessageSurvives' /\ Said'
  BY <1>2 DEF Kept, Bases, Openings, DiskSaved, SavedMessageSurvives, Said, OnDisk
<1> DEFINE U == {t}
<1>4. U \in SUBSET Threads /\ \A u \in Threads \ U : th'[u] = th[u]
  BY <1>1
<1>5. ASSUME NEW c \in Controllers, Turn(c) \in U
      PROVE  TurnOK(th'[Turn(c)], cur'[c], Log(c)', saved' \cup given')
  BY <1>1, <1>2, <1>5 DEF MoveOK, Turn
<1>6. ASSUME NEW c \in Controllers, <<c, "auto">> \in U
      PROVE  AutoOK(th'[<<c, "auto">>], slot'[c], given')
  BY <1>1, <1>6 DEF MoveOK
<1>7. \A u \in U : TextOK(th'[u], file', given', saved')
  BY <1>1 DEF MoveOK
<1> HIDE DEF U
<1> QED BY <1>2, <1>3, <1>4, <1>5, <1>6, <1>7, KeptMove

-----------------------------------------------------------------------------
(* Where a thread may go on.                                               *)

\* r is q at pc, as far as what is saved stays concerned.
Keeps(r, q, pc) ==
  /\ r.pc = pc /\ r.s = q.s /\ r.path = q.path /\ r.text = q.text
  /\ r.rewrite = q.rewrite /\ r.then = q.then /\ r.start = q.start /\ r.mine = q.mine

LEMMA Keeping ==
  ASSUME NEW q, DOMAIN q = Fields, NEW pc, NEW m, NEW base, NEW was
  PROVE  /\ Keeps(WithPc(q, pc), q, pc) /\ Keeps(WithMeta(q, pc, m), q, pc)
         /\ Keeps(WithLock(q, base, was), q, "write") /\ Keeps(WithRead(q), q, "read")
<1>1. Keeps(WithPc(q, pc), q, pc)
  BY SMT DEF Keeps, WithPc, Fields
<1>2. Keeps(WithMeta(q, pc, m), q, pc)
  BY SMT DEF Keeps, WithMeta, Fields
<1>3. Keeps(WithLock(q, base, was), q, "write")
  BY SMT DEF Keeps, WithLock, Fields
<1>4. Keeps(WithRead(q), q, "read")
  BY SMT DEF Keeps, WithRead, Fields
<1> QED BY <1>1, <1>2, <1>3, <1>4

\* From one place of a save, or of an edit of the sidecar, to the next.
Goes(from, to) ==
  \/ from = "record" /\ to = "recMerge"
  \/ from = "recMerge" /\ to = "recPut"
  \/ from = "recPut" /\ to = "persisted"
  \/ from = "branchFile" /\ to = "branchMeta"
  \/ from \in {"persisted", "branchMeta"} /\ to = "read"
  \/ from = "read" /\ to = "merge"
  \/ from = "merge" /\ to = "put"

LEMMA GoesOn ==
  ASSUME NEW q, NEW r, NEW pc, Keeps(r, q, pc), Goes(q.pc, pc),
         NEW n, NEW log, NEW kept, NEW sessions, NEW gone, NEW f
  PROVE  /\ TurnOK(q, n, log, kept) /\ (q.pc = "branchFile" => Range(log) \subseteq kept) => TurnOK(r, n, log, kept)
         /\ AutoOK(q, sessions, gone) => AutoOK(r, sessions, gone)
         /\ TextOK(q, f, gone, kept) => TextOK(r, f, gone, kept)
<1> USE DEF Keeps, Goes
<1>1. ASSUME TurnOK(q, n, log, kept), q.pc = "branchFile" => Range(log) \subseteq kept
      PROVE  TurnOK(r, n, log, kept)
  <2>1. r.pc \in SavingPlaces => r.s = n /\ r.text = log
    BY <1>1 DEF TurnOK, SavingPlaces
  <2>2. r.then \in {"prompt", "flush"} => r.pc \in Editing
    BY <1>1 DEF TurnOK, Editing
  <2>3. InTurn(r) => InTurn(q)
    BY DEF InTurn
  <2>4. r.pc \notin {"work", "replied"}
    OBVIOUS
  <2>5. Unsaved(r, log) \/ Range(log) \subseteq kept
    BY <1>1 DEF TurnOK, Unsaved
  <2> QED BY <1>1, <2>1, <2>2, <2>3, <2>4, <2>5 DEF TurnOK
<1>2. ASSUME AutoOK(q, sessions, gone)
      PROVE  AutoOK(r, sessions, gone)
  BY <1>2 DEF AutoOK, AutoPlaces, SavingPlaces, Editing
<1>3. ASSUME TextOK(q, f, gone, kept)
      PROVE  TextOK(r, f, gone, kept)
  BY <1>3 DEF TextOK
<1> QED BY <1>1, <1>2, <1>3

\* Return, field by field.
LEMMA ReturnedIs ==
  ASSUME NEW t, DOMAIN th[t] = Fields
  PROVE  /\ Returned(t).pc = th[t].then /\ Returned(t).then = "idle" /\ Returned(t).rewrite = FALSE
         /\ Returned(t).text = <<>>
         /\ th[t].then # "idle" => Returned(t).start = th[t].start /\ Returned(t).mine = th[t].mine
<1> DEFINE q == th[t]
           r == Returned(t)
<1>1. CASE q.then = "idle"
  <2>1. r = Idle
    BY <1>1 DEF Returned
  <2> HIDE DEF r
  <2>2. r.pc = "idle" /\ r.then = "idle" /\ r.rewrite = FALSE /\ r.text = <<>>
    BY <2>1, SMT DEF Idle
  <2> QED BY <1>1, <2>2 DEF r
<1>2. CASE q.then # "idle"
  <2>1. r = [q EXCEPT !.pc = q.then, !.job = "none", !.s = 0, !.path = Main, !.text = <<>>,
                      !.base = 0, !.m = NoMeta, !.then = "idle", !.rewrite = FALSE, !.was = NoBase]
    BY <1>2 DEF Returned
  <2> DEFINE h == [q EXCEPT !.pc = q.then, !.job = "none", !.s = 0, !.path = Main, !.text = <<>>]
  <2>2. r = [h EXCEPT !.base = 0, !.m = NoMeta, !.then = "idle", !.rewrite = FALSE, !.was = NoBase]
    BY <2>1
  <2>3. DOMAIN h = Fields /\ h.pc = q.then /\ h.text = <<>> /\ h.start = q.start /\ h.mine = q.mine
    <3> HIDE DEF q
    <3> QED BY SMT DEF Fields, q
  <2> HIDE DEF h, r, q
  <2>4. /\ r.pc = h.pc /\ r.text = h.text /\ r.start = h.start /\ r.mine = h.mine
        /\ r.then = "idle" /\ r.rewrite = FALSE
    BY <2>2, <2>3, SMT DEF Fields
  <2> QED BY <2>3, <2>4 DEF r, q
<1> QED BY <1>1, <1>2

LEMMA TurnReturns ==
  ASSUME NEW t, DOMAIN th[t] = Fields, th[t].then \in Resting,
         th[t].pc \in {"recPut", "persisted", "install", "branchMeta", "read", "put"},
         NEW n, NEW log, NEW kept, TurnOK(th[t], n, log, kept)
  PROVE  TurnOK(Returned(t), n, log, kept)
<1> DEFINE q == th[t]
           r == Returned(t)
<1>1. /\ r.pc = q.then /\ r.then = "idle"
      /\ q.then # "idle" => r.start = q.start /\ r.mine = q.mine
  BY ReturnedIs
<1>2. /\ q.then \in Resting /\ TurnOK(q, n, log, kept)
      /\ q.pc \in {"recPut", "persisted", "install", "branchMeta", "read", "put"}
  OBVIOUS
<1> HIDE DEF q, r
<1>3. r.pc \notin SavingPlaces /\ r.pc \notin {"work", "replied", "prepare"}
  BY <1>1, <1>2 DEF Resting, SavingPlaces
<1>4. r.then \notin {"prompt", "flush"}
  BY <1>1
<1>5. InTurn(r) => InTurn(q) /\ r.start = q.start /\ r.mine = q.mine
  BY <1>1, <1>3 DEF InTurn
<1>6. Unsaved(r, log) \/ Range(log) \subseteq kept
  BY <1>1, <1>2 DEF Unsaved, TurnOK
<1>7. TurnOK(r, n, log, kept)
  BY <1>2, <1>3, <1>4, <1>5, <1>6 DEF TurnOK
<1> QED BY <1>7 DEF r

LEMMA OtherReturns ==
  ASSUME NEW t, DOMAIN th[t] = Fields, th[t].then \in Resting, NEW sessions, NEW gone, NEW f, NEW kept
  PROVE  /\ TextOK(Returned(t), f, gone, kept)
         /\ AutoOK(th[t], sessions, gone) => AutoOK(Returned(t), sessions, gone)
<1> DEFINE q == th[t]
           r == Returned(t)
<1>1. r.pc = q.then /\ r.then = "idle" /\ r.rewrite = FALSE /\ r.text = <<>> /\ q.then \in Resting
  BY ReturnedIs
<1> HIDE DEF q, r
<1>2. TextOK(r, f, gone, kept)
  BY <1>1 DEF TextOK, Opened, Resting
<1>3. AutoOK(q, sessions, gone) => AutoOK(r, sessions, gone)
  BY <1>1 DEF AutoOK, AutoPlaces, SavingPlaces, Editing
<1> QED BY <1>2, <1>3 DEF q, r

\* Steps that move one thread and touch no file, log or baseline.
LEMMA GoesKept ==
  ASSUME Inv, Kept, NEW t \in Threads, NEW r, NEW pc, th' = [th EXCEPT ![t] = r],
         UNCHANGED <<file, slot, cur, next, saved, given>>,
         Keeps(r, th[t], pc), Goes(th[t].pc, pc), th[t].pc # "branchFile"
  PROVE  Kept'
<1>1. MoveOK(t, th[t]) /\ t[2] \in {"turn", "auto"}
  BY KeptHere
<1>2. MoveOK(t, r)
  <2> DEFINE q == th[t]
             n == cur[t[1]]
             log == Log(t[1])
             sessions == slot[t[1]]
             kept == saved \cup given
  <2>1. /\ TurnOK(q, n, log, kept) /\ (q.pc = "branchFile" => Range(log) \subseteq kept) => TurnOK(r, n, log, kept)
        /\ AutoOK(q, sessions, given) => AutoOK(r, sessions, given)
        /\ TextOK(q, file, given, saved) => TextOK(r, file, given, saved)
    <3> HIDE DEF q, n, log, sessions, kept
    <3> QED BY GoesOn DEF q
  <2>2. q.pc # "branchFile"
    OBVIOUS
  <2> HIDE DEF q, n, log, sessions, kept
  <2> QED BY <1>1, <2>1, <2>2 DEF MoveOK, q, n, log, sessions, kept
<1> QED BY <1>2, CalmKept

LEMMA ReturnKept ==
  ASSUME Inv, Kept, NEW t \in Threads, th' = Return(t),
         UNCHANGED <<file, slot, cur, next, saved, given>>,
         th[t].pc \in {"recPut", "read", "put"}
  PROVE  Kept'
<1>1. MoveOK(t, th[t])
  BY KeptHere
<1>2. th' = [th EXCEPT ![t] = Returned(t)]
  BY Here, ReturnSet
<1>3. DOMAIN th[t] = Fields /\ th[t].then \in Resting
  BY Here DEF ThreadOK
<1>4. TurnOK(th[t], cur[t[1]], Log(t[1]), saved \cup given)
        => TurnOK(Returned(t), cur[t[1]], Log(t[1]), saved \cup given)
  BY <1>3, TurnReturns
<1>5. /\ TextOK(Returned(t), file, given, saved)
      /\ AutoOK(th[t], slot[t[1]], given) => AutoOK(Returned(t), slot[t[1]], given)
  BY <1>3, OtherReturns
<1>6. MoveOK(t, Returned(t))
  BY <1>1, <1>4, <1>5 DEF MoveOK
<1> QED BY <1>2, <1>6, CalmKept

LEMMA EditsKept ==
  ASSUME Inv, Kept, NEW t \in Threads,
         \/ Record(t) \/ RecMerge(t) \/ RecPut(t) \/ RecordFailed(t) \/ Read(t) \/ Merge(t) \/ Replace(t)
  PROVE  Kept'
<1>1. /\ UNCHANGED <<file, slot, cur, next, saved, given>> /\ DOMAIN th[t] = Fields /\ DOMAIN th = Threads
  BY Here DEF Record, RecMerge, RecPut, RecordFailed, Read, Merge, Replace
<1>2. ASSUME NEW m, NEW pc, th' = [th EXCEPT ![t].pc = pc, ![t].m = m],
             Goes(th[t].pc, pc), th[t].pc # "branchFile"
      PROVE  Kept'
  <2>1. th' = [th EXCEPT ![t] = WithMeta(th[t], pc, m)]
    BY <1>1, <1>2, Zenon DEF WithMeta
  <2>2. Keeps(WithMeta(th[t], pc, m), th[t], pc)
    BY <1>1, Keeping
  <2> QED BY <1>1, <1>2, <2>1, <2>2, GoesKept
<1>3. CASE Record(t)
  <2>1. th[t].pc = "record" /\ Goes("record", "recMerge")
    BY <1>3 DEF Record, Goes
  <2>2. PICK m : th' = [th EXCEPT ![t].pc = "recMerge", ![t].m = m]
    BY <1>3, Zenon DEF Record
  <2> QED BY <1>2, <2>1, <2>2
<1>4. CASE RecMerge(t)
  <2>1. th[t].pc = "recMerge" /\ Goes("recMerge", "recPut")
    BY <1>4 DEF RecMerge, Goes
  <2> QED BY <1>2, <1>4, <2>1 DEF RecMerge
<1>5. CASE Merge(t)
  <2>1. th[t].pc = "merge" /\ Goes("merge", "put")
    BY <1>5 DEF Merge, Goes
  <2> QED BY <1>2, <1>5, <2>1 DEF Merge
<1>6. CASE RecPut(t)
  <2>1. th' = [th EXCEPT ![t] = WithPc(th[t], "persisted")]
    BY <1>1, <1>6, Zenon DEF RecPut, At, WithPc
  <2>2. Keeps(WithPc(th[t], "persisted"), th[t], "persisted")
    BY <1>1, Keeping
  <2>3. th[t].pc = "recPut" /\ Goes("recPut", "persisted")
    BY <1>6 DEF RecPut, Goes
  <2> QED BY <1>1, <2>1, <2>2, <2>3, GoesKept
<1>7. CASE RecordFailed(t)
  BY <1>1, <1>7, ReturnKept DEF RecordFailed
<1>8. CASE Replace(t)
  BY <1>1, <1>8, ReturnKept DEF Replace
<1>9. CASE Read(t)
  <2>1. CASE th' = Return(t)
    BY <1>1, <1>9, <2>1, ReturnKept DEF Read
  <2>2. CASE th' = [th EXCEPT ![t].pc = "merge", ![t].m = Edited(t, MetaOf(th[t].path))]
    BY <1>2, <1>9, <2>2 DEF Read, Goes
  <2> QED BY <1>9, <2>1, <2>2 DEF Read
<1> QED BY <1>3, <1>4, <1>5, <1>6, <1>7, <1>8, <1>9

\* r is a save by t of text, about to take its lock.
SavesText(r, t, text, rewrite, then) ==
  /\ r.pc = "lock" /\ r.s = cur[t[1]] /\ r.path = path[t[1]] /\ r.text = text
  /\ r.rewrite = rewrite /\ r.then = then

LEMMA SavingIs ==
  ASSUME Inv, NEW t \in Threads, NEW text, NEW rewrite, NEW job, NEW then
  PROVE  /\ SavesText(Saving(t, text, rewrite, job, then), t, text, rewrite, then)
         /\ SavesText(Saved(t, text, rewrite, job, then), t, text, rewrite, then)
<1> DEFINE q == th[t]
           s == Saving(t, text, rewrite, job, then)
           d == Saved(t, text, rewrite, job, then)
<1>1. DOMAIN q = Fields
  BY Here
<1>2. s = [q EXCEPT !.pc = "lock", !.s = cur[t[1]], !.path = path[t[1]], !.text = text,
                    !.rewrite = rewrite, !.job = job, !.then = then]
  BY DEF Saving
<1>3. d = [s EXCEPT !.mine = {}]
  BY DEF Saved
<1> HIDE DEF q, s, d
<1>4. /\ DOMAIN s = Fields /\ s.pc = "lock" /\ s.s = cur[t[1]] /\ s.path = path[t[1]] /\ s.text = text
      /\ s.rewrite = rewrite /\ s.then = then
  BY <1>1, <1>2, SMT DEF Fields
<1>5. /\ d.pc = s.pc /\ d.s = s.s /\ d.path = s.path /\ d.text = s.text
      /\ d.rewrite = s.rewrite /\ d.then = s.then
  BY <1>3, <1>4, SMT DEF Fields
<1>6. SavesText(s, t, text, rewrite, then) /\ SavesText(d, t, text, rewrite, then)
  BY <1>4, <1>5 DEF SavesText
<1> QED BY <1>6 DEF s, d

LEMMA SavingOK ==
  ASSUME NEW r, r.pc = "lock", r.then \notin {"prompt", "flush"}, NEW text, r.text = text,
         NEW n, r.s = n, NEW kept, NEW sessions, NEW gone, NEW f
  PROVE  /\ TurnOK(r, n, text, kept)
         /\ /\ n \in Slots /\ r.rewrite = FALSE /\ r.then = "idle"
            /\ Range(text) \subseteq Range(sessions[n].log) \cup gone
            => AutoOK(r, sessions, gone)
         /\ Opened(text) => TextOK(r, f, gone, kept)
<1>1. TurnOK(r, n, text, kept)
  BY DEF TurnOK, InTurn, Unsaved, SavingPlaces, Editing
<1>2. /\ n \in Slots /\ r.rewrite = FALSE /\ r.then = "idle"
      /\ Range(text) \subseteq Range(sessions[n].log) \cup gone
      => AutoOK(r, sessions, gone)
  BY DEF AutoOK, AutoPlaces, SavingPlaces
<1>3. Opened(text) => TextOK(r, f, gone, kept)
  BY DEF TextOK
<1> QED BY <1>1, <1>2, <1>3

-----------------------------------------------------------------------------
(* The controller, between its saves.                                      *)

LEMMA TurnMoveOK ==
  ASSUME NEW c \in Controllers, NEW r,
         TextOK(r, file, given, saved), TurnOK(r, cur[c], Log(c), saved \cup given)
  PROVE  MoveOK(Turn(c), r)
BY DEF MoveOK, Turn

LEMMA AutoMoveOK ==
  ASSUME NEW c \in Controllers, NEW r,
         TextOK(r, file, given, saved), AutoOK(r, slot[c], given)
  PROVE  MoveOK(<<c, "auto">>, r)
BY DEF MoveOK

LEMMA TurnHere ==
  ASSUME Inv, Kept, NEW c \in Controllers
  PROVE  /\ TurnOK(th[Turn(c)], cur[c], Log(c), saved \cup given) /\ Opened(Log(c))
         /\ TextOK(th[Turn(c)], file, given, saved)
         /\ DOMAIN th[Turn(c)] = Fields /\ DOMAIN th = Threads /\ Turn(c) \in Threads
         /\ Len(Log(c)) \in Nat /\ Log(c) \in Seq(Messages) /\ cur[c] \in Slots
<1>1. Turn(c) \in Threads /\ Len(Log(c)) \in Nat /\ Log(c) \in Seq(Messages) /\ cur[c] \in Slots
  BY OfController
<1> QED BY <1>1, Here DEF Kept, Turns, Texts, Openings

LEMMA StartTurnKept ==
  ASSUME Inv, Kept, NEW c \in Controllers, StartTurn(c)
  PROVE  Kept'
<1> DEFINE q == th[Turn(c)]
           log == Log(c)
           kept == saved \cup given
           r == WithStart(q, Len(log))
<1>1. /\ TurnOK(q, cur[c], log, kept) /\ TextOK(q, file, given, saved) /\ q.pc = "idle"
      /\ DOMAIN q = Fields /\ Turn(c) \in Threads /\ Len(log) \in Nat
  BY TurnHere DEF StartTurn
<1>2. th' = [th EXCEPT ![Turn(c)] = r]
  BY TurnHere, Zenon DEF StartTurn, WithStart
<1>3. r.pc = "prepare" /\ r.text = q.text /\ r.then = q.then /\ r.start = Len(log) /\ r.mine = q.mine
  <2> HIDE DEF q, log
  <2> QED BY <1>1, SMT DEF WithStart, Fields
<1> HIDE DEF q, log, kept, r
<1>4. TextOK(r, file, given, saved)
  BY <1>1, <1>3 DEF TextOK
<1>5. TurnOK(r, cur[c], log, kept)
  <2>1. r.then \notin {"prompt", "flush"}
    BY <1>1, <1>3 DEF TurnOK, Editing
  <2>2. Range(log) \subseteq kept
    BY <1>1, <1>3, <2>1 DEF TurnOK, Unsaved
  <2>3. r.start <= Len(log) /\ \A i \in 1 .. Len(log) : ~(i > r.start)
    BY <1>1, <1>3
  <2> QED BY <1>3, <2>1, <2>2, <2>3 DEF TurnOK, SavingPlaces
<1>6. MoveOK(Turn(c), r)
  BY <1>4, <1>5, TurnMoveOK DEF log, kept
<1> QED BY <1>1, <1>2, <1>6, CalmKept DEF StartTurn

LEMMA EditKept ==
  ASSUME Inv, Kept, NEW c \in Controllers, MarkTurn(c) \/ ClearMark(c) \/ Unmark(c)
  PROVE  Kept'
<1> DEFINE q == th[Turn(c)]
           log == Log(c)
           kept == saved \cup given
<1>1. /\ TurnOK(q, cur[c], log, kept) /\ TextOK(q, file, given, saved)
      /\ DOMAIN q = Fields /\ DOMAIN th = Threads /\ Turn(c) \in Threads
      /\ UNCHANGED <<file, slot, cur, next, saved, given>>
  BY TurnHere DEF MarkTurn, ClearMark, Unmark
<1>2. PICK job, p, then :
        /\ th' = [th EXCEPT ![Turn(c)].pc = "read", ![Turn(c)].job = job,
                            ![Turn(c)].path = p, ![Turn(c)].then = then]
        /\ \/ q.pc = "prepare" /\ then = "prompt"
           \/ q.pc = "clear" /\ then = "flush"
           \/ q.pc = "unmark" /\ then = "idle"
  <2>1. CASE MarkTurn(c)
    BY <2>1, Zenon DEF MarkTurn
  <2>2. CASE ClearMark(c)
    BY <2>2, Zenon DEF ClearMark
  <2>3. CASE Unmark(c)
    BY <2>3, Zenon DEF Unmark
  <2> QED BY <2>1, <2>2, <2>3, Zenon
<1> DEFINE r == WithEdit(q, job, p, then)
<1>3. th' = [th EXCEPT ![Turn(c)] = r]
  BY <1>1, <1>2, Zenon DEF WithEdit
<1>4. r.pc = "read" /\ r.text = q.text /\ r.then = then /\ r.start = q.start /\ r.mine = q.mine
  <2> HIDE DEF q
  <2> QED BY <1>1, SMT DEF WithEdit, Fields
<1>5. \/ q.pc = "prepare" /\ then = "prompt"
      \/ q.pc = "clear" /\ then = "flush"
      \/ q.pc = "unmark" /\ then = "idle"
  BY <1>2
<1> HIDE DEF q, log, kept, r
<1>6. TextOK(r, file, given, saved)
  BY <1>1, <1>4 DEF TextOK
<1>7. TurnOK(r, cur[c], log, kept)
  <2>1. q.then \notin {"prompt", "flush"}
    BY <1>1, <1>5 DEF TurnOK, Editing
  <2>2. Unsaved(r, log) \/ Range(log) \subseteq kept
    BY <1>1, <1>4, <1>5, <2>1 DEF TurnOK, Unsaved
  <2>3. InTurn(r) => InTurn(q)
    BY <1>4, <1>5 DEF InTurn
  <2> QED BY <1>1, <1>4, <2>2, <2>3 DEF TurnOK, SavingPlaces, Editing
<1>8. MoveOK(Turn(c), r)
  BY <1>6, <1>7, TurnMoveOK DEF log, kept
<1> QED BY <1>1, <1>3, <1>8, CalmKept

\* The turn is over, and what it has said is not saved; or a resume is.
LEMMA OverKept ==
  ASSUME Inv, Kept, NEW c \in Controllers, NEW pc, th' = At(Turn(c), pc),
         UNCHANGED <<file, slot, cur, next, saved, given>>,
         \/ th[Turn(c)].pc \in {"work", "replied"} /\ pc = "clear"
         \/ th[Turn(c)].pc \in {"resumed", "recovered"} /\ pc = "unmark"
  PROVE  Kept'
<1> DEFINE q == th[Turn(c)]
           log == Log(c)
           kept == saved \cup given
           r == WithPc(q, pc)
<1>1. /\ TurnOK(q, cur[c], log, kept) /\ TextOK(q, file, given, saved)
      /\ DOMAIN q = Fields /\ DOMAIN th = Threads /\ Turn(c) \in Threads
  BY TurnHere
<1>2. th' = [th EXCEPT ![Turn(c)] = r]
  BY <1>1, Zenon DEF At, WithPc
<1>3. r.pc = pc /\ r.text = q.text /\ r.then = q.then /\ r.start = q.start /\ r.mine = q.mine
  <2> HIDE DEF q
  <2> QED BY <1>1, Keeping DEF Keeps
<1>4. \/ q.pc \in {"work", "replied"} /\ pc = "clear"
      \/ q.pc \in {"resumed", "recovered"} /\ pc = "unmark"
  OBVIOUS
<1> HIDE DEF q, log, kept, r
<1>5. TextOK(r, file, given, saved)
  BY <1>1, <1>3, <1>4 DEF TextOK
<1>6. TurnOK(r, cur[c], log, kept)
  <2>1. r.then \notin {"prompt", "flush"}
    BY <1>1, <1>3, <1>4 DEF TurnOK, Editing
  <2>2. Unsaved(r, log) \/ Range(log) \subseteq kept
    BY <1>1, <1>3, <1>4, <2>1 DEF TurnOK, Unsaved
  <2> QED BY <1>3, <1>4, <2>1, <2>2 DEF TurnOK, SavingPlaces, InTurn
<1>7. MoveOK(Turn(c), r)
  BY <1>5, <1>6, TurnMoveOK DEF log, kept
<1> QED BY <1>1, <1>2, <1>7, CalmKept

LEMMA IdleKept ==
  ASSUME Inv, Kept, NEW c \in Controllers, th' = [th EXCEPT ![Turn(c)] = Idle],
         UNCHANGED <<file, slot, cur, next, saved, given>>,
         Range(Log(c)) \subseteq saved \cup given
  PROVE  Kept'
<1>1. Idle.pc = "idle" /\ Idle.text = <<>> /\ Idle.then = "idle"
  BY SMT DEF Idle
<1>2. TextOK(Idle, file, given, saved)
  BY <1>1 DEF TextOK, Opened
<1>3. TurnOK(Idle, cur[c], Log(c), saved \cup given)
  BY <1>1 DEF TurnOK, SavingPlaces, InTurn
<1>4. MoveOK(Turn(c), Idle)
  BY <1>2, <1>3, TurnMoveOK
<1> QED BY <1>4, CalmKept, TurnHere

\* The turn saves its log.
LEMMA SavesKept ==
  ASSUME Inv, Kept, NEW c \in Controllers, NEW rewrite, NEW job, NEW then \in {"idle", "unmark"},
         \/ th' = [th EXCEPT ![Turn(c)] = Saving(Turn(c), Log(c), rewrite, job, then)]
         \/ th' = [th EXCEPT ![Turn(c)] = Saved(Turn(c), Log(c), rewrite, job, then)],
         UNCHANGED <<file, slot, cur, next, saved, given>>
  PROVE  Kept'
<1>1. PICK r : th' = [th EXCEPT ![Turn(c)] = r] /\ SavesText(r, Turn(c), Log(c), rewrite, then)
  BY SavingIs, TurnHere
<1>2. Turn(c) \in Threads /\ Opened(Log(c)) /\ Turn(c)[1] = c
  BY TurnHere DEF Turn
<1>3. r.pc = "lock" /\ r.s = cur[c] /\ r.text = Log(c) /\ r.then = then
  BY <1>1, <1>2 DEF SavesText
<1>4. TurnOK(r, cur[c], Log(c), saved \cup given) /\ TextOK(r, file, given, saved)
  <2>1. r.then \notin {"prompt", "flush"}
    BY <1>3
  <2>2. TurnOK(r, cur[c], Log(c), saved \cup given)
    BY <1>3, <2>1, SavingOK
  <2>3. TextOK(r, file, given, saved)
    BY <1>2, <1>3 DEF TextOK
  <2> QED BY <2>2, <2>3
<1>5. MoveOK(Turn(c), r)
  BY <1>4, TurnMoveOK
<1> QED BY <1>1, <1>2, <1>5, CalmKept

LEMMA FlushKept ==
  ASSUME Inv, Kept, NEW c \in Controllers, Flush(c)
  PROVE  Kept'
<1>0. UNCHANGED <<file, slot, cur, next, saved, given>>
  BY DEF Flush
<1>1. CASE Len(Log(c)) <= th[Turn(c)].start
  <2>1. th' = [th EXCEPT ![Turn(c)] = Idle] /\ th[Turn(c)].pc = "flush"
    BY <1>1 DEF Flush
  <2>2. th[Turn(c)].start \in Nat /\ Len(Log(c)) \in Nat /\ TurnOK(th[Turn(c)], cur[c], Log(c), saved \cup given)
    BY TurnHere, Here DEF ThreadOK
  <2>3. ~(Len(Log(c)) > th[Turn(c)].start)
    BY <1>1, <2>2
  <2>4. Range(Log(c)) \subseteq saved \cup given
    BY <2>1, <2>2, <2>3 DEF TurnOK, Unsaved
  <2> QED BY <1>0, <2>1, <2>4, IdleKept
<1>2. CASE th' = [th EXCEPT ![Turn(c)] = Saved(Turn(c), Log(c), FALSE, "update", "idle")]
  BY <1>0, <1>2, SavesKept
<1> QED BY <1>1, <1>2 DEF Flush, Saved

LEMMA RecoveredKept ==
  ASSUME Inv, Kept, NEW c \in Controllers, Recovered(c)
  PROVE  Kept'
<1>0. UNCHANGED <<file, slot, cur, next, saved, given>> /\ th[Turn(c)].pc = "recovered"
  BY DEF Recovered
<1>1. CASE th' = At(Turn(c), "unmark")
  BY <1>0, <1>1, OverKept
<1>2. CASE th' = [th EXCEPT ![Turn(c)] = Saving(Turn(c), Log(c), TRUE, "update", "unmark")]
  BY <1>0, <1>2, SavesKept
<1> QED BY <1>1, <1>2 DEF Recovered

LEMMA TickKept ==
  ASSUME Inv, Kept, NEW c \in Controllers, Tick(c)
  PROVE  Kept'
<1> DEFINE t == <<c, "auto">>
           r == Saving(t, Log(c), FALSE, "update", "idle")
<1>1. t \in Threads /\ Opened(Log(c)) /\ t[1] = c /\ cur[c] \in Slots
  BY TurnHere, OfController
<1>2. r.pc = "lock" /\ r.s = cur[c] /\ r.text = Log(c) /\ r.then = "idle" /\ r.rewrite = FALSE
  <2>1. SavesText(r, t, Log(c), FALSE, "idle")
    <3> HIDE DEF t
    <3> QED BY <1>1, SavingIs
  <2> HIDE DEF r, t
  <2> QED BY <1>1, <2>1 DEF SavesText
<1>3. th' = [th EXCEPT ![t] = r] /\ UNCHANGED <<file, slot, cur, next, saved, given>>
  BY DEF Tick
<1> HIDE DEF r, t
<1>4. TextOK(r, file, given, saved)
  BY <1>1, <1>2 DEF TextOK
<1>5. AutoOK(r, slot[c], given)
  <2>1. Range(Log(c)) \subseteq Range(slot[c][cur[c]].log) \cup given
    BY DEF Log
  <2> QED BY <1>1, <1>2, <2>1 DEF AutoOK, AutoPlaces, SavingPlaces
<1>6. MoveOK(t, r)
  BY <1>4, <1>5, AutoMoveOK DEF t
<1> QED BY <1>1, <1>3, <1>6, CalmKept

-----------------------------------------------------------------------------
(* The check under the lock, and the conflict.                             *)

LEMMA PrefixRange ==
  ASSUME NEW M, NEW x \in Seq(M), NEW y \in Seq(M), IsPrefix(x, y)
  PROVE  Range(x) \subseteq Range(y)
<1>1. /\ Len(x) \in Nat /\ Len(y) \in Nat /\ DOMAIN x = 1 .. Len(x) /\ DOMAIN y = 1 .. Len(y)
      /\ Len(x) <= Len(y) /\ SubSeq(x, 1, Len(x)) = SubSeq(y, 1, Len(x))
  BY LenProperties DEF IsPrefix
<1>2. ASSUME NEW i \in 1 .. Len(x)
      PROVE  x[i] = y[i] /\ i \in DOMAIN y
  <2>1. /\ SubSeq(x, 1, Len(x))[i] = x[i] /\ SubSeq(y, 1, Len(x))[i] = y[i]
    BY <1>1, SubSeqProperties
  <2> QED BY <1>1, <2>1
<1> QED BY <1>1, <1>2 DEF Range

\* What the check found of the file.
LEMMA VerdictMeans ==
  ASSUME NEW t \in Threads, th[t].path \in DOMAIN file
  PROVE  /\ Verdict(t) = "ok" =>
              \/ IsPrefix(file[th[t].path], th[t].text)
              \/ th[t].rewrite # FALSE /\ slot[t[1]][th[t].s].pers.text = file[th[t].path]
         /\ Verdict(t) = "stale" => IsPrefix(th[t].text, file[th[t].path])
<1> DEFINE p == th[t].path
           new == th[t].text
           pers == slot[t[1]][th[t].s].pers
           rev == MetaOf(p).rev
           own == th[t].rewrite /\ pers = [path |-> p, text |-> file[p], rev |-> rev]
<1>1. Verdict(t) = IF IsPrefix(file[p], new)
                   THEN IF pers.path = p /\ pers.rev # rev /\ file[p] # new THEN "diverged" ELSE "ok"
                   ELSE IF own THEN "ok" ELSE IF IsPrefix(new, file[p]) THEN "stale" ELSE "diverged"
  BY Zenon DEF Verdict
<1>2. own => th[t].rewrite # FALSE /\ pers.text = file[p]
  <2>1. own => pers.text = file[p]
    OBVIOUS
  <2>2. own => th[t].rewrite # FALSE
    BY Zenon
  <2> QED BY <2>1, <2>2
<1> HIDE DEF own
<1>3. Verdict(t) = "ok" => IsPrefix(file[p], new) \/ own
  BY <1>1
<1>4. Verdict(t) = "stale" => IsPrefix(new, file[p])
  BY <1>1
<1> QED BY <1>2, <1>3, <1>4

LEMMA OnFiles ==
  ASSUME NEW p \in DOMAIN file
  PROVE  Range(file[p]) \subseteq OnDisk
BY DEF OnDisk

LEMMA LockKept ==
  ASSUME Inv, Kept, NEW t \in Threads, Lock(t), AutosaveIsCurrent'
  PROVE  Kept'
<1> DEFINE q == th[t]
           c == t[1]
           p == th[t].path
           log == Log(c)
           kept == saved \cup given
<1>1. /\ q.pc = "lock" /\ p \in DOMAIN file /\ DOMAIN q = Fields /\ DOMAIN th = Threads
      /\ q.text \in Seq(Messages) /\ file[p] \in Seq(Messages) /\ q.s \in Slots /\ c \in Controllers
      /\ UNCHANGED <<file, slot, cur, next, saved, given>>
  BY Here DEF Lock, ThreadOK
<1>2. /\ TextOK(q, file, given, saved) /\ t[2] \in {"turn", "auto"} /\ t = <<t[1], t[2]>>
      /\ t[2] = "turn" => TurnOK(q, cur[c], log, kept)
      /\ t[2] = "auto" => AutoOK(q, slot[c], given)
  BY KeptHere DEF MoveOK
<1>3. CASE Verdict(t) = "ok"
  <2> DEFINE r == WithLock(q, MetaOf(p).rev, slot[c][q.s].pers)
  <2>1. th' = [th EXCEPT ![t] = r]
    <3>1. th' = Locked(t)
      BY <1>3 DEF Lock
    <3> QED BY <1>1, <3>1, Zenon DEF Locked, WithLock
  <2>2. Keeps(r, q, "write")
    <3> HIDE DEF q
    <3> QED BY <1>1, Keeping
  <2>3. Range(file[p]) \subseteq Range(q.text) \cup given
    <3>1. CASE IsPrefix(file[p], q.text)
      <4>1. Range(file[p]) \subseteq Range(q.text)
        BY <1>1, <3>1, PrefixRange
      <4> QED BY <4>1
    <3>2. CASE q.rewrite # FALSE /\ slot[c][q.s].pers.text = file[p]
      <4>1. t[2] = "turn"
        BY <1>2, <3>2 DEF AutoOK
      <4>2. q.s = cur[c] /\ q.text = log
        BY <1>1, <1>2, <4>1 DEF TurnOK, SavingPlaces
      <4>3. BaseOK(slot[c][q.s], given)
        BY <1>1 DEF Kept, Bases
      <4>4. slot[c][q.s].log = q.text
        BY <4>2 DEF Log
      <4> QED BY <3>2, <4>3, <4>4 DEF BaseOK
    <3> QED BY <1>1, <1>3, <3>1, <3>2, VerdictMeans
  <2> HIDE DEF r, q, p, c, log, kept
  <2>4. TextOK(r, file, given, saved)
    BY <1>2, <2>2, <2>3 DEF TextOK, Keeps, p, q
  <2>5. t[2] = "turn" => TurnOK(r, cur[c], log, kept)
    <3>1. ASSUME TurnOK(q, cur[c], log, kept)
          PROVE  TurnOK(r, cur[c], log, kept)
      BY <1>1, <2>2, <3>1 DEF TurnOK, Keeps, SavingPlaces, Editing, InTurn, Unsaved
    <3> QED BY <1>2, <3>1
  <2>6. t[2] = "auto" => AutoOK(r, slot[c], given)
    <3>1. ASSUME AutoOK(q, slot[c], given)
          PROVE  AutoOK(r, slot[c], given)
      BY <1>1, <2>2, <3>1 DEF AutoOK, Keeps, SavingPlaces, AutoPlaces
    <3> QED BY <1>2, <3>1
  <2>7. MoveOK(t, r)
    BY <2>4, <2>5, <2>6 DEF MoveOK, c, log, kept
  <2> QED BY <1>1, <2>1, <2>7, CalmKept
<1>4. ASSUME NEW pc \in {"load", "branch"}, th' = At(t, pc),
             pc = "load" => Verdict(t) = "stale"
      PROVE  Kept'
  <2> DEFINE r == WithPc(q, pc)
  <2>1. th' = [th EXCEPT ![t] = r]
    BY <1>1, <1>4, Zenon DEF At, WithPc
  <2>2. Keeps(r, q, pc)
    <3> HIDE DEF q
    <3> QED BY <1>1, Keeping
  <2>3. t[2] = "turn"
    <3>1. ASSUME t[2] = "auto"
          PROVE  FALSE
      <4>1. th'[t] = r /\ th'[t].pc = pc
        BY <1>1, <2>1, <2>2 DEF Keeps
      <4>2. th'[<<c, "auto">>].pc \notin {"load", "branch"}
        BY <1>1 DEF AutosaveIsCurrent
      <4> QED BY <1>2, <3>1, <4>1, <4>2
    <3> QED BY <1>2, <3>1
  <2>4. q.text = log
    BY <1>1, <1>2, <2>3 DEF TurnOK, SavingPlaces
  <2>5. pc = "load" => Range(log) \subseteq kept
    <3>1. ASSUME pc = "load"
          PROVE  Range(log) \subseteq kept
      <4>1. IsPrefix(q.text, file[p])
        BY <1>1, <1>4, <3>1, VerdictMeans
      <4>2. Range(q.text) \subseteq Range(file[p])
        BY <1>1, <4>1, PrefixRange
      <4>3. Range(file[p]) \subseteq OnDisk /\ OnDisk \subseteq saved
        BY <1>1, OnFiles DEF Kept, DiskSaved
      <4> QED BY <2>4, <4>2, <4>3
    <3> QED BY <3>1
  <2> HIDE DEF r, q, p, c, log, kept
  <2>6. TextOK(r, file, given, saved)
    BY <1>2, <1>4, <2>2 DEF TextOK, Keeps
  <2>7. TurnOK(r, cur[c], log, kept)
    <3>1. TurnOK(q, cur[c], log, kept)
      BY <1>2, <2>3
    <3>2. r.then \notin {"prompt", "flush"}
      BY <1>1, <2>2, <3>1 DEF TurnOK, Keeps, Editing
    <3>3. Unsaved(r, log) \/ Range(log) \subseteq kept
      BY <1>4, <2>2, <2>5 DEF Unsaved, Keeps
    <3> QED BY <1>4, <2>2, <3>2, <3>3 DEF TurnOK, Keeps, SavingPlaces, InTurn
  <2>8. MoveOK(t, r)
    BY <2>3, <2>6, <2>7 DEF MoveOK, c, log, kept
  <2> QED BY <1>1, <2>1, <2>8, CalmKept
<1>5. Verdict(t) \in {"ok", "stale", "diverged"}
  BY <1>1, VerdictFacts
<1>6. CASE Verdict(t) = "stale"
  BY <1>4, <1>6 DEF Lock
<1>7. CASE Verdict(t) = "diverged"
  BY <1>4, <1>7 DEF Lock
<1> QED BY <1>3, <1>5, <1>6, <1>7

LEMMA LoadKept ==
  ASSUME Inv, Kept, NEW t \in Threads, Load(t)
  PROVE  Kept'
<1> DEFINE q == th[t]
           p == th[t].path
           c == t[1]
           log == Log(c)
           kept == saved \cup given
           r == WithText(q, file[p])
<1>1. /\ q.pc = "load" /\ p \in DOMAIN file /\ DOMAIN q = Fields /\ DOMAIN th = Threads
      /\ UNCHANGED <<file, slot, cur, next, saved, given>>
  BY Here DEF Load
<1>2. /\ t[2] \in {"turn", "auto"}
      /\ t[2] = "turn" => TurnOK(q, cur[c], log, kept)
      /\ t[2] = "auto" => AutoOK(q, slot[c], given)
  BY KeptHere DEF MoveOK
<1>3. t[2] = "turn" /\ TurnOK(q, cur[c], log, kept)
  BY <1>1, <1>2 DEF AutoOK, AutoPlaces, SavingPlaces, Editing
<1>4. th' = [th EXCEPT ![t] = r]
  BY <1>1, Zenon DEF Load, WithText
<1>5. /\ r.pc = "install" /\ r.text = file[p] /\ r.then = q.then
      /\ r.start = q.start /\ r.mine = q.mine
  <2> HIDE DEF q
  <2> QED BY <1>1, SMT DEF WithText, Fields
<1>6. Range(file[p]) \subseteq saved /\ Opened(file[p])
  BY <1>1, OnFiles DEF Kept, DiskSaved, Openings
<1> HIDE DEF r, q, p, c, log, kept
<1>7. TextOK(r, file, given, saved)
  BY <1>5, <1>6 DEF TextOK
<1>8. TurnOK(r, cur[c], log, kept)
  <2>1. r.then \notin {"prompt", "flush"}
    BY <1>1, <1>3, <1>5 DEF TurnOK, Editing
  <2>2. Range(log) \subseteq kept
    BY <1>1, <1>3, <1>5, <2>1 DEF TurnOK, Unsaved
  <2> QED BY <1>5, <2>1, <2>2 DEF TurnOK, SavingPlaces, InTurn
<1>9. MoveOK(t, r)
  BY <1>3, <1>7, <1>8 DEF MoveOK, c, log, kept
<1> QED BY <1>1, <1>4, <1>9, CalmKept

LEMMA BranchKept ==
  ASSUME Inv, Kept, NEW t \in Threads, Branch(t)
  PROVE  Kept'
<1> DEFINE q == th[t]
           p == th[t].path
           c == t[1]
           log == Log(c)
           kept == saved \cup given
           needless == \/ \A i \in DOMAIN log : ~IsUser(log[i])
                       \/ p \in DOMAIN file /\ IsPrefix(log, file[p])
           rp == Append(p, log)
<1>1. /\ q.pc = "branch" /\ p \in DOMAIN file /\ DOMAIN q = Fields /\ DOMAIN th = Threads
      /\ c \in Controllers /\ file[p] \in Seq(Messages)
      /\ UNCHANGED <<file, slot, cur, next, saved, given>>
  BY Here DEF Branch
<1>2. /\ t[2] \in {"turn", "auto"} /\ TextOK(q, file, given, saved)
      /\ t[2] = "turn" => TurnOK(q, cur[c], log, kept)
      /\ t[2] = "auto" => AutoOK(q, slot[c], given)
  BY KeptHere DEF MoveOK
<1>3. t[2] = "turn" /\ TurnOK(q, cur[c], log, kept)
  BY <1>1, <1>2 DEF AutoOK, AutoPlaces, SavingPlaces, Editing
<1>4. log \in Seq(Messages) /\ Opened(log)
  BY <1>1, TurnHere
<1>5. q.then \notin {"prompt", "flush"}
  BY <1>1, <1>3 DEF TurnOK, Editing
<1>6. CASE needless
  <2> DEFINE r == WithPc(q, "load")
  <2>1. th' = [th EXCEPT ![t] = r]
    <3>1. th' = At(t, "load")
      BY <1>6, Zenon DEF Branch
    <3> QED BY <1>1, <3>1, Zenon DEF At, WithPc
  <2>2. Keeps(r, q, "load")
    <3> HIDE DEF q
    <3> QED BY <1>1, Keeping
  <2>3. Range(log) \subseteq kept
    <3>1. CASE \A i \in DOMAIN log : ~IsUser(log[i])
      <4>1. log = <<>>
        <5>1. log # <<>> => 1 \in DOMAIN log
          <6> HIDE DEF log
          <6> QED BY <1>4, EmptySeq, LenProperties
        <5> HIDE DEF log
        <5> QED BY <1>4, <3>1, <5>1 DEF Opened
      <4>2. DOMAIN log = {}
        <5> HIDE DEF log
        <5> QED BY <4>1
      <4> QED BY <4>2 DEF Range
    <3>2. CASE IsPrefix(log, file[p])
      <4>1. Range(log) \subseteq Range(file[p])
        BY <1>1, <1>4, <3>2, PrefixRange
      <4>2. Range(file[p]) \subseteq OnDisk /\ OnDisk \subseteq saved
        BY <1>1, OnFiles DEF Kept, DiskSaved
      <4> QED BY <4>1, <4>2
    <3> QED BY <1>6, <3>1, <3>2
  <2> HIDE DEF r, q, p, c, log, kept, needless, rp
  <2>4. TextOK(r, file, given, saved)
    BY <1>2, <2>2 DEF TextOK, Keeps
  <2>5. TurnOK(r, cur[c], log, kept)
    BY <1>5, <2>2, <2>3 DEF TurnOK, Keeps, SavingPlaces, InTurn
  <2>6. MoveOK(t, r)
    BY <1>3, <2>4, <2>5 DEF MoveOK, c, log, kept
  <2> QED BY <1>1, <2>1, <2>6, CalmKept
<1>7. CASE ~needless
  <2> DEFINE r == WithBranch(q, cur[c], log, rp)
  <2>1. th' = [th EXCEPT ![t] = r]
    <3>1. th' = [th EXCEPT ![t].pc = "branchFile", ![t].s = cur[c], ![t].text = log, ![t].path = rp]
      BY <1>7, Zenon DEF Branch
    <3> QED BY <1>1, <3>1, Zenon DEF WithBranch
  <2>2. r.pc = "branchFile" /\ r.s = cur[c] /\ r.text = log /\ r.then = q.then
    <3> HIDE DEF q, c, log, rp
    <3> QED BY <1>1, SMT DEF WithBranch, Fields
  <2> HIDE DEF r, q, p, c, log, kept, needless, rp
  <2>3. TextOK(r, file, given, saved)
    BY <1>4, <2>2 DEF TextOK
  <2>4. TurnOK(r, cur[c], log, kept)
    BY <1>5, <2>2 DEF TurnOK, InTurn, Unsaved
  <2>5. MoveOK(t, r)
    BY <1>3, <2>3, <2>4 DEF MoveOK, c, log, kept
  <2> QED BY <1>1, <2>1, <2>5, CalmKept
<1> QED BY <1>6, <1>7

-----------------------------------------------------------------------------
(* What is written.                                                        *)

\* The text that replaces a file covers it.
LEMMA FilePut ==
  ASSUME Kept, NEW p, NEW text, file' = Put(file, p, text), saved' = saved \cup Range(text),
         UNCHANGED <<slot, cur, next, given>>, Opened(text),
         p \in DOMAIN file => Range(file[p]) \subseteq Range(text) \cup given
  PROVE  Bases' /\ Openings' /\ DiskSaved' /\ SavedMessageSurvives' /\ Said'
<1>1. /\ DOMAIN file' = DOMAIN file \cup {p} /\ file'[p] = text
      /\ \A x \in DOMAIN file : x # p => file'[x] = file[x]
  BY DEF Put
<1>2. \A c \in Controllers : Log(c)' = Log(c)
  BY DEF Log
<1>3. Bases' /\ Openings'
  BY <1>1, <1>2 DEF Kept, Bases, Openings
<1>4. Said'
  BY <1>2 DEF Kept, Said
<1>5. OnDisk' = UNION {Range(file'[x]) : x \in DOMAIN file'}
  BY DEF OnDisk
<1>6. OnDisk \subseteq OnDisk' \cup given
  <2>1. ASSUME NEW m \in OnDisk
        PROVE  m \in OnDisk' \cup given
    <3>1. PICK x \in DOMAIN file : m \in Range(file[x])
      BY DEF OnDisk
    <3>2. CASE x = p
      BY <1>1, <1>5, <3>1, <3>2
    <3>3. CASE x # p
      BY <1>1, <1>5, <3>1, <3>3
    <3> QED BY <3>2, <3>3
  <2> QED BY <2>1
<1>7. Range(text) \subseteq OnDisk'
  BY <1>1, <1>5
<1>8. SavedMessageSurvives'
  BY <1>6, <1>7 DEF Kept, SavedMessageSurvives
<1>9. DiskSaved'
  <2>1. ASSUME NEW m \in OnDisk'
        PROVE  m \in saved'
    <3>1. PICK x \in DOMAIN file' : m \in Range(file'[x])
      BY <1>5
    <3>2. CASE x = p
      BY <1>1, <3>1, <3>2
    <3>3. CASE x # p
      <4>1. x \in DOMAIN file /\ m \in Range(file[x])
        BY <1>1, <3>1, <3>3
      <4> QED BY <4>1, OnFiles DEF Kept, DiskSaved
    <3> QED BY <3>2, <3>3
  <2> QED BY <2>1 DEF DiskSaved
<1> QED BY <1>3, <1>4, <1>8, <1>9

LEMMA PutKept ==
  ASSUME Inv, Kept, NEW t \in Threads, NEW pc, th' = At(t, pc),
         \/ th[t].pc = "write" /\ pc = "record"
         \/ th[t].pc = "branchFile" /\ pc = "branchMeta",
         file' = Put(file, th[t].path, th[t].text), saved' = saved \cup Range(th[t].text),
         UNCHANGED <<slot, cur, next, given>>,
         th[t].path \in DOMAIN file => Range(file[th[t].path]) \subseteq Range(th[t].text) \cup given,
         \A u \in Threads \ {t} : th[u].pc = "write" => th[u].path # th[t].path
  PROVE  Kept'
<1> DEFINE q == th[t]
           c == t[1]
           log == Log(c)
           kept == saved \cup given
           after == saved' \cup given'
           r == WithPc(q, pc)
           U == {t}
<1>1. /\ DOMAIN q = Fields /\ DOMAIN th = Threads /\ ThreadsOK /\ c \in Controllers
      /\ \A u \in Threads : th[u].pc # "branchFile" => th[u].path \in DOMAIN file
  BY Here
<1>2. /\ TextOK(q, file, given, saved) /\ t[2] \in {"turn", "auto"} /\ t = <<t[1], t[2]>>
      /\ t[2] = "turn" => TurnOK(q, cur[c], log, kept)
      /\ t[2] = "auto" => AutoOK(q, slot[c], given)
  BY KeptHere DEF MoveOK
<1>3. th' = [th EXCEPT ![t] = r]
  BY <1>1, Zenon DEF At, WithPc
<1>4. Keeps(r, q, pc)
  <2> HIDE DEF q
  <2> QED BY <1>1, Keeping
<1>5. DOMAIN th' = Threads /\ th'[t] = r /\ \A u \in Threads \ {t} : th'[u] = th[u]
  BY <1>1, <1>3, Moved
<1>6. Bases' /\ Openings' /\ DiskSaved' /\ SavedMessageSurvives' /\ Said'
  <2>1. Opened(th[t].text)
    BY <1>2 DEF TextOK
  <2> QED BY <2>1, FilePut
<1>7. \A d \in Controllers : cur'[d] = cur[d] /\ Log(d)' = Log(d) /\ slot'[d] = slot[d]
  BY DEF Log
<1>8. \A u \in Threads \ U : th[u].pc = "write" => file'[th[u].path] = file[th[u].path]
  <2>1. \A x \in DOMAIN file : x # th[t].path => file'[x] = file[x]
    BY DEF Put
  <2>2. \A u \in Threads \ U : th[u].pc = "write" => th[u].path \in DOMAIN file /\ th[u].path # th[t].path
    BY <1>1
  <2> QED BY <2>1, <2>2
<1>9. Range(q.text) \subseteq after /\ kept \subseteq after
  OBVIOUS
<1>10. \/ q.pc = "write" /\ pc = "record"
       \/ q.pc = "branchFile" /\ pc = "branchMeta"
  OBVIOUS
<1> HIDE DEF q, log, kept, after, r
<1>11. TextOK(r, file', given', saved')
  BY <1>2, <1>4, <1>10 DEF TextOK, Keeps
<1>12. ASSUME TurnOK(q, cur[c], log, kept)
       PROVE  TurnOK(r, cur[c], log, after)
  <2>1. q.s = cur[c] /\ q.text = log /\ q.then \notin {"prompt", "flush"}
    BY <1>10, <1>12 DEF TurnOK, SavingPlaces, Editing
  <2>2. Range(log) \subseteq after
    BY <1>9, <2>1
  <2> QED BY <1>4, <1>10, <2>1, <2>2 DEF TurnOK, Keeps, InTurn
<1>13. ASSUME AutoOK(q, slot[c], given)
       PROVE  AutoOK(r, slot[c], given)
  BY <1>4, <1>10, <1>13 DEF AutoOK, Keeps, AutoPlaces, SavingPlaces, Editing
<1>14. ASSUME NEW d \in Controllers, Turn(d) \in U
       PROVE  TurnOK(th'[Turn(d)], cur'[d], Log(d)', saved' \cup given')
  <2>1. d = c /\ t[2] = "turn" /\ th'[Turn(d)] = r
    BY <1>5, <1>14 DEF Turn
  <2>2. TurnOK(r, cur[c], log, after)
    BY <1>2, <1>12, <2>1
  <2>3. cur'[c] = cur[c] /\ Log(c)' = log
    BY <1>1, <1>7 DEF log
  <2> HIDE DEF c
  <2> QED BY <2>1, <2>2, <2>3 DEF after
<1>15. ASSUME NEW d \in Controllers, <<d, "auto">> \in U
       PROVE  AutoOK(th'[<<d, "auto">>], slot'[d], given')
  <2>1. d = c /\ t[2] = "auto" /\ th'[<<d, "auto">>] = r
    BY <1>5, <1>15
  <2>2. AutoOK(r, slot[c], given)
    BY <1>2, <1>13, <2>1
  <2> QED BY <1>1, <1>7, <2>1, <2>2
<1>16. /\ U \in SUBSET Threads /\ \A u \in Threads \ U : th'[u] = th[u]
       /\ \A u \in U : TextOK(th'[u], file', given', saved')
  BY <1>5, <1>11
<1> HIDE DEF U, c
<1> QED BY <1>6, <1>7, <1>8, <1>14, <1>15, <1>16, KeptMove

LEMMA WriteKept ==
  ASSUME Inv, Kept, NEW t \in Threads, Write(t)
  PROVE  Kept'
<1>1. /\ th[t].pc = "write" /\ th' = At(t, "record")
      /\ file' = Put(file, th[t].path, th[t].text) /\ saved' = saved \cup Range(th[t].text)
      /\ UNCHANGED <<slot, cur, next, given>>
  BY DEF Write
<1>2. Range(file[th[t].path]) \subseteq Range(th[t].text) \cup given
  BY <1>1, KeptHere DEF MoveOK, TextOK
<1>3. \A u \in Threads \ {t} : th[u].pc = "write" => th[u].path # th[t].path
  BY <1>1 DEF Inv, LockInv, LockAlone, Holder, Holding
<1> QED BY <1>1, <1>2, <1>3, PutKept

LEMMA BranchFileKept ==
  ASSUME Inv, Kept, NEW t \in Threads, BranchFile(t), RecoveryFileIsUnused
  PROVE  Kept'
<1>1. /\ th[t].pc = "branchFile" /\ th' = At(t, "branchMeta") /\ th[t].path \notin locked
      /\ file' = Put(file, th[t].path, th[t].text) /\ saved' = saved \cup Range(th[t].text)
      /\ UNCHANGED <<slot, cur, next, given>>
  BY DEF BranchFile
<1>2. th[t].path \in DOMAIN file => Range(file[th[t].path]) \subseteq Range(th[t].text) \cup given
  BY <1>1 DEF RecoveryFileIsUnused
<1>3. \A u \in Threads \ {t} : th[u].pc = "write" => th[u].path # th[t].path
  BY <1>1 DEF Inv, LockInv, LockHeld, Holder, Holding
<1> QED BY <1>1, <1>2, <1>3, PutKept

LEMMA PersLogs ==
  ASSUME NEW f, NEW M, SlotsOK(f, M), NEW c \in Controllers, NEW i, NEW base
  PROVE  \A d \in Controllers : \A j \in Slots :
           /\ WithPers(f, c, i, base)[d][j].log = f[d][j].log
           /\ WithPers(f, c, i, base)[d][j].pers = IF d = c /\ j = i THEN base ELSE f[d][j].pers
<1> DEFINE g == WithPers(f, c, i, base)
           x == [f[c][i] EXCEPT !.pers = base]
<1>1. /\ DOMAIN f = Controllers
      /\ \A d \in Controllers : DOMAIN f[d] = Slots /\ \A j \in Slots : DOMAIN f[d][j] = {"log", "pers"}
  BY DEF SlotsOK, SlotOK
<1>2. g = [d \in Controllers |-> IF d = c THEN [f[c] EXCEPT ![i] = x] ELSE f[d]]
  BY <1>1, Zenon DEF WithPers
<1>3. g[c] = [f[c] EXCEPT ![i] = x] /\ \A d \in Controllers \ {c} : g[d] = f[d]
  BY <1>2
<1> HIDE DEF g
<1>4. \A j \in Slots : g[c][j] = IF j = i THEN x ELSE f[c][j]
  BY <1>1, <1>3
<1>5. i \in Slots => x.log = f[c][i].log /\ x.pers = base
  BY <1>1, SMT
<1> HIDE DEF x
<1>6. \A d \in Controllers : \A j \in Slots :
        /\ g[d][j].log = f[d][j].log
        /\ g[d][j].pers = IF d = c /\ j = i THEN base ELSE f[d][j].pers
  BY <1>3, <1>4, <1>5
<1> QED BY <1>6 DEF g

\* A save makes its text the baseline of its Session.
LEMMA PersKept ==
  ASSUME Inv, Kept, NEW t \in Threads, NEW r, th' = [th EXCEPT ![t] = r], MoveOK(t, r),
         NEW i, NEW base, slot' = WithPers(slot, t[1], i, base),
         i \in Slots => Range(base.text) \subseteq Range(slot[t[1]][i].log) \cup given,
         UNCHANGED <<file, cur, next, saved, given>>
  PROVE  Kept'
<1> DEFINE c == t[1]
           U == {t}
<1>1. /\ ThreadsOK /\ c \in Controllers /\ SlotsOK(slot, Messages) /\ \A d \in Controllers : cur[d] \in Slots
      /\ t = <<t[1], t[2]>>
  BY Here, KeptHere DEF TypeInv, Runtimes
<1>2. DOMAIN th' = Threads /\ th'[t] = r /\ \A u \in Threads \ {t} : th'[u] = th[u]
  BY <1>1, Moved
<1>3. \A d \in Controllers : \A j \in Slots :
        /\ slot'[d][j].log = slot[d][j].log
        /\ slot'[d][j].pers = IF d = c /\ j = i THEN base ELSE slot[d][j].pers
  <2> HIDE DEF c
  <2> QED BY <1>1, PersLogs DEF c
<1>4. \A d \in Controllers : cur'[d] = cur[d] /\ Log(d)' = Log(d)
  BY <1>1, <1>3 DEF Log
<1>5. Bases'
  <2>1. ASSUME NEW d \in Controllers, NEW j \in Slots
        PROVE  BaseOK(slot'[d][j], given')
    <3>1. BaseOK(slot[d][j], given)
      BY DEF Kept, Bases
    <3>2. CASE d = c /\ j = i
      BY <1>3, <3>2 DEF BaseOK
    <3>3. CASE ~(d = c /\ j = i)
      BY <1>3, <3>1, <3>3 DEF BaseOK
    <3> QED BY <3>2, <3>3
  <2> QED BY <2>1 DEF Bases
<1>6. Openings' /\ DiskSaved' /\ SavedMessageSurvives' /\ Said'
  BY <1>4 DEF Kept, Openings, DiskSaved, SavedMessageSurvives, Said, OnDisk
<1>7. ASSUME NEW d \in Controllers, Turn(d) \in U
      PROVE  TurnOK(th'[Turn(d)], cur'[d], Log(d)', saved' \cup given')
  BY <1>2, <1>4, <1>7 DEF MoveOK, Turn
<1>8. ASSUME NEW d \in Controllers, <<d, "auto">> \in U
      PROVE  AutoOK(th'[<<d, "auto">>], slot'[d], given')
  <2>1. th'[<<d, "auto">>] = r /\ AutoOK(r, slot[d], given)
    BY <1>2, <1>8 DEF MoveOK
  <2>2. AutoOK(r, slot'[d], given)
    BY <1>3, <2>1 DEF AutoOK
  <2> QED BY <2>1, <2>2
<1>9. \A d \in Controllers : th[<<d, "auto">>].pc \in SavingPlaces =>
        Range(slot[d][th[<<d, "auto">>].s].log) \subseteq Range(slot'[d][th[<<d, "auto">>].s].log) \cup given'
  <2>1. ASSUME NEW d \in Controllers, th[<<d, "auto">>].pc \in SavingPlaces
        PROVE  th[<<d, "auto">>].s \in Slots
    BY <2>1 DEF Kept, Autos, AutoOK
  <2> QED BY <1>3, <2>1
<1>10. /\ U \in SUBSET Threads /\ \A u \in Threads \ U : th'[u] = th[u]
       /\ \A u \in U : TextOK(th'[u], file', given', saved')
  BY <1>2 DEF MoveOK
<1> HIDE DEF U, c
<1> QED BY <1>4, <1>5, <1>6, <1>7, <1>8, <1>9, <1>10, KeptMove

LEMMA MarkedKept ==
  ASSUME Inv, Kept, NEW t \in Threads, Persisted(t) \/ BranchMeta(t)
  PROVE  Kept'
<1> DEFINE q == th[t]
           c == t[1]
           log == Log(c)
           kept == saved \cup given
           sessions == slot[c]
<1>1. /\ q.pc \in {"persisted", "branchMeta"} /\ DOMAIN q = Fields /\ DOMAIN th = Threads
      /\ q.then \in Resting /\ c \in Controllers
      /\ UNCHANGED <<file, cur, next, saved, given>>
  BY Here DEF Persisted, BranchMeta, ThreadOK
<1>2. PICK base : slot' = WithPers(slot, c, q.s, base) /\ base.text = q.text
  <2>1. CASE Persisted(t)
    <3> DEFINE b == [path |-> q.path, text |-> q.text, rev |-> MetaOf(q.path).rev]
    <3>1. slot' = WithPers(slot, c, q.s, b)
      BY <2>1 DEF Persisted, WithPers
    <3> QED BY <3>1
  <2>2. CASE BranchMeta(t)
    <3> DEFINE b == [path |-> q.path, text |-> q.text, rev |-> Merged([rev |-> 1, mark |-> NoMark], q.path).rev]
    <3>1. slot' = WithPers(slot, c, q.s, b)
      BY <2>2 DEF BranchMeta, WithPers
    <3> QED BY <3>1
  <2> QED BY <2>1, <2>2
<1>3. /\ t[2] \in {"turn", "auto"} /\ TextOK(q, file, given, saved)
      /\ t[2] = "turn" => TurnOK(q, cur[c], log, kept)
      /\ t[2] = "auto" => AutoOK(q, slot[c], given)
  BY KeptHere DEF MoveOK
<1>4. q.s \in Slots => Range(q.text) \subseteq Range(slot[c][q.s].log) \cup given
  <2>1. CASE t[2] = "turn"
    BY <1>1, <1>3, <2>1 DEF TurnOK, SavingPlaces, Log
  <2>2. CASE t[2] = "auto"
    BY <1>1, <1>3, <2>2 DEF AutoOK, SavingPlaces
  <2> QED BY <1>3, <2>1, <2>2
<1>5. PICK r : th' = [th EXCEPT ![t] = r] /\ (r = Returned(t) \/ Keeps(r, q, "read"))
  <2>1. CASE th' = Return(t)
    BY <2>1, Here, ReturnSet
  <2>2. CASE th' = [th EXCEPT ![t].pc = "read", ![t].was = NoBase]
    <3>1. th' = [th EXCEPT ![t] = WithRead(q)]
      BY <1>1, <2>2, Zenon DEF WithRead
    <3> HIDE DEF q
    <3>2. Keeps(WithRead(q), q, "read")
      BY <1>1, Keeping
    <3> QED BY <3>1, <3>2
  <2>3. CASE th' = At(t, "read")
    <3>1. th' = [th EXCEPT ![t] = WithPc(q, "read")]
      BY <1>1, <2>3, Zenon DEF At, WithPc
    <3> HIDE DEF q
    <3>2. Keeps(WithPc(q, "read"), q, "read")
      BY <1>1, Keeping
    <3> QED BY <3>1, <3>2
  <2> QED BY <2>1, <2>2, <2>3 DEF Persisted, BranchMeta
<1>6. MoveOK(t, r)
  <2>1. CASE r = Returned(t)
    <3>1. TurnOK(q, cur[c], log, kept) => TurnOK(Returned(t), cur[c], log, kept)
      <4> HIDE DEF c, log, kept
      <4> QED BY <1>1, TurnReturns
    <3>2. /\ TextOK(Returned(t), file, given, saved)
          /\ AutoOK(q, slot[c], given) => AutoOK(Returned(t), slot[c], given)
      <4> HIDE DEF c
      <4> QED BY <1>1, OtherReturns
    <3> QED BY <1>3, <2>1, <3>1, <3>2 DEF MoveOK
  <2>2. CASE Keeps(r, q, "read")
    <3> HIDE DEF q, c, log, kept, sessions
    <3>1. Goes(q.pc, "read") /\ q.pc # "branchFile"
      BY <1>1 DEF Goes
    <3>2. /\ TurnOK(q, cur[c], log, kept) /\ (q.pc = "branchFile" => Range(log) \subseteq kept)
             => TurnOK(r, cur[c], log, kept)
          /\ AutoOK(q, sessions, given) => AutoOK(r, sessions, given)
          /\ TextOK(q, file, given, saved) => TextOK(r, file, given, saved)
      BY <2>2, <3>1, GoesOn
    <3> QED BY <1>3, <3>1, <3>2 DEF MoveOK, c, log, kept, sessions
  <2> QED BY <1>5, <2>1, <2>2
<1> HIDE DEF log, kept, sessions
<1>7. /\ th' = [th EXCEPT ![t] = r] /\ slot' = WithPers(slot, c, q.s, base)
      /\ q.s \in Slots => Range(base.text) \subseteq Range(slot[c][q.s].log) \cup given
  BY <1>2, <1>4, <1>5
<1> QED BY <1>1, <1>6, <1>7, PersKept

-----------------------------------------------------------------------------
(* A runtime goes on with another Session, or with another log.            *)

LEMMA FreeSlotFree ==
  ASSUME NEW c
  PROVE  \A t \in ThreadsOf(c) : th[t].s # FreeSlot(c)
<1> DEFINE x == cur[c]
           y == th[<<c, "turn">>].s
           z == th[<<c, "auto">>].s
<1>1. \E i \in 1 .. 4 : i # x /\ i # y /\ i # z
  <2> HIDE DEF x, y, z
  <2>1. 1 \in 1 .. 4 /\ 2 \in 1 .. 4 /\ 3 \in 1 .. 4 /\ 4 \in 1 .. 4
    BY SMT
  <2> QED BY <2>1, SMT
<1>2. \E i \in Slots : i # cur[c] /\ \A t \in ThreadsOf(c) : th[t].s # i
  BY <1>1 DEF Slots, ThreadsOf, Turn
<1> QED BY <1>2 DEF FreeSlot

\* The turn has read the text it goes on with.
LEMMA InstalledTurn ==
  ASSUME NEW q, NEW r, q.pc = "install", r.pc \in Resting \cup {"read"},
         r.pc = q.then \/ (r.pc = "read" /\ r.then = q.then),
         r.then \in {q.then, "idle"},
         NEW n, NEW log, NEW kept, TurnOK(q, n, log, kept),
         NEW i, NEW text, Range(text) \subseteq kept
  PROVE  TurnOK(r, i, text, kept) /\ Range(log) \subseteq kept
<1>1. q.then \notin {"prompt", "flush"}
  BY DEF TurnOK, Editing
<1>2. Range(log) \subseteq kept
  BY <1>1 DEF TurnOK, Unsaved
<1>3. TurnOK(r, i, text, kept)
  BY <1>1 DEF TurnOK, SavingPlaces, InTurn, Resting
<1> QED BY <1>2, <1>3

LEMMA InstallKept ==
  ASSUME Inv, Kept, NEW t \in Threads, Install(t)
  PROVE  Kept'
<1> DEFINE q == th[t]
           c == t[1]
           n == FreeSlot(c)
           text == th[t].text
           log == Log(c)
           kept == saved \cup given
           base == [path |-> th[t].path, text |-> text, rev |-> MetaOf(th[t].path).rev]
           x == [log |-> text, pers |-> base]
           U == {t}
<1>1. /\ q.pc = "install" /\ DOMAIN q = Fields /\ DOMAIN th = Threads /\ ThreadsOK
      /\ q.then \in Resting /\ c \in Controllers /\ n \in Slots /\ SlotsOK(slot, Messages)
      /\ cur \in [Controllers -> Slots]
      /\ UNCHANGED <<file, next, saved, given>>
      /\ slot' = WithSession(slot, c, n, x) /\ cur' = [cur EXCEPT ![c] = n]
  BY Here, FreeSlotOK DEF Install, Installed, WithSession, ThreadOK, TypeInv, Runtimes
<1>2. /\ t[2] \in {"turn", "auto"} /\ TextOK(q, file, given, saved) /\ t = <<t[1], t[2]>>
      /\ t[2] = "turn" => TurnOK(q, cur[c], log, kept)
      /\ t[2] = "auto" => AutoOK(q, slot[c], given)
  BY KeptHere DEF MoveOK
<1>3. t[2] = "turn" /\ TurnOK(q, cur[c], log, kept)
  BY <1>1, <1>2 DEF AutoOK, AutoPlaces, SavingPlaces, Editing
<1>4. Opened(text) /\ Range(text) \subseteq saved
  BY <1>1, <1>2 DEF TextOK
<1>5. PICK r : /\ th' = [th EXCEPT ![t] = r] /\ TextOK(r, file, given, saved)
               /\ r.pc \in Resting \cup {"read"} /\ (r.pc = q.then \/ (r.pc = "read" /\ r.then = q.then))
               /\ r.then \in {q.then, "idle"}
  <2>1. CASE th' = Return(t)
    <3>1. th' = [th EXCEPT ![t] = Returned(t)]
      BY <2>1, Here, ReturnSet
    <3>2. TextOK(Returned(t), file, given, saved)
      BY <1>1, OtherReturns
    <3>3. Returned(t).pc = q.then /\ Returned(t).then = "idle"
      BY <1>1, ReturnedIs
    <3>4. /\ Returned(t).pc \in Resting \cup {"read"}
          /\ (Returned(t).pc = q.then \/ (Returned(t).pc = "read" /\ Returned(t).then = q.then))
          /\ Returned(t).then \in {q.then, "idle"}
      BY <1>1, <3>3
    <3> QED BY <3>1, <3>2, <3>4, Zenon
  <2>2. CASE th' = At(t, "read")
    <3>1. th' = [th EXCEPT ![t] = WithPc(q, "read")]
      BY <1>1, <2>2, Zenon DEF At, WithPc
    <3> HIDE DEF q
    <3>2. Keeps(WithPc(q, "read"), q, "read")
      BY <1>1, Keeping
    <3>3. TextOK(WithPc(q, "read"), file, given, saved)
      BY <1>2, <3>2 DEF TextOK, Keeps
    <3> QED BY <3>1, <3>2, <3>3 DEF Keeps
  <2> QED BY <2>1, <2>2 DEF Install
<1>6. TurnOK(r, n, text, kept) /\ Range(log) \subseteq kept
  <2>1. Range(text) \subseteq kept
    BY <1>4
  <2> HIDE DEF q, n, text, log, kept
  <2> QED BY <1>1, <1>3, <1>5, <2>1, InstalledTurn
<1>7. DOMAIN th' = Threads /\ th'[t] = r /\ \A u \in Threads \ {t} : th'[u] = th[u]
  BY <1>1, <1>5, Moved
<1>8. /\ \A d \in Controllers \ {c} : slot'[d] = slot[d] /\ cur'[d] = cur[d]
      /\ cur'[c] = n /\ \A j \in Slots : slot'[c][j] = IF j = n THEN x ELSE slot[c][j]
  <2>1. /\ DOMAIN slot = Controllers /\ DOMAIN slot[c] = Slots
    BY <1>1 DEF SlotsOK
  <2>2. slot' = [slot EXCEPT ![c][n] = x]
    BY <1>1 DEF WithSession
  <2> HIDE DEF x, n, c
  <2>3. slot' = [d \in Controllers |-> IF d = c THEN [slot[c] EXCEPT ![n] = x] ELSE slot[d]]
    BY <2>1, <2>2, Zenon
  <2>4. slot'[c] = [slot[c] EXCEPT ![n] = x] /\ \A d \in Controllers \ {c} : slot'[d] = slot[d]
    BY <1>1, <2>3
  <2>5. \A j \in Slots : slot'[c][j] = IF j = n THEN x ELSE slot[c][j]
    BY <2>1, <2>4
  <2>6. cur'[c] = n /\ \A d \in Controllers \ {c} : cur'[d] = cur[d]
    BY <1>1
  <2> QED BY <2>4, <2>5, <2>6
<1>9. x.log = text /\ x.pers.text = text
  OBVIOUS
<1>10. n # th[<<c, "auto">>].s
  BY FreeSlotFree DEF ThreadsOf
<1> HIDE DEF q, n, x, base, text, kept
<1>11. Log(c)' = text /\ \A d \in Controllers \ {c} : Log(d)' = Log(d)
  BY <1>1, <1>8, <1>9 DEF Log
<1>12. Bases'
  <2>1. ASSUME NEW d \in Controllers, NEW j \in Slots
        PROVE  BaseOK(slot'[d][j], given')
    <3>1. BaseOK(slot[d][j], given)
      BY DEF Kept, Bases
    <3>2. CASE d = c /\ j = n
      BY <1>8, <1>9, <3>2 DEF BaseOK
    <3>3. CASE ~(d = c /\ j = n)
      BY <1>1, <1>8, <3>1, <3>3
    <3> QED BY <3>2, <3>3
  <2> QED BY <2>1 DEF Bases
<1>13. Openings' /\ DiskSaved' /\ SavedMessageSurvives'
  <2>1. Openings'
    BY <1>1, <1>4, <1>11 DEF Kept, Openings
  <2> QED BY <1>1, <2>1 DEF Kept, DiskSaved, SavedMessageSurvives, OnDisk
<1>14. Said'
  <2> DEFINE all == saved \cup given \cup UNION {Range(Log(d)) : d \in Controllers}
             new == saved' \cup given' \cup UNION {Range(Log(d)') : d \in Controllers}
  <2>1. ASSUME NEW m \in all
        PROVE  m \in new
    <3>1. CASE m \in saved \cup given
      BY <1>1, <3>1
    <3>2. ASSUME NEW d \in Controllers, m \in Range(Log(d))
          PROVE  m \in new
      <4>1. CASE d = c
        BY <1>1, <1>6, <3>2, <4>1 DEF kept
      <4>2. CASE d # c
        BY <1>11, <3>2, <4>2
      <4> QED BY <4>1, <4>2
    <3> QED BY <2>1, <3>1, <3>2
  <2>2. 1 .. next - 1 \subseteq {m[1] : m \in all}
    BY DEF Kept, Said
  <2>3. next' = next
    BY <1>1
  <2>4. 1 .. next' - 1 \subseteq {m[1] : m \in new}
    <3> HIDE DEF all, new
    <3> QED BY <2>1, <2>2, <2>3
  <2> QED BY <2>4 DEF Said
<1>15. ASSUME NEW d \in Controllers, Turn(d) \in U
       PROVE  TurnOK(th'[Turn(d)], cur'[d], Log(d)', saved' \cup given')
  <2>1. d = c /\ th'[Turn(d)] = r
    BY <1>7, <1>15 DEF Turn
  <2>2. cur'[c] = n /\ Log(c)' = text /\ saved' \cup given' = kept
    BY <1>1, <1>8, <1>11 DEF kept
  <2> HIDE DEF c
  <2> QED BY <1>6, <2>1, <2>2
<1>16. \A d \in Controllers : <<d, "auto">> \notin U
  BY <1>3
<1>17. \A d \in Controllers : th[<<d, "auto">>].pc \in SavingPlaces =>
        Range(slot[d][th[<<d, "auto">>].s].log) \subseteq Range(slot'[d][th[<<d, "auto">>].s].log) \cup given'
  <2>1. ASSUME NEW d \in Controllers, th[<<d, "auto">>].pc \in SavingPlaces
        PROVE  th[<<d, "auto">>].s \in Slots
    BY <2>1 DEF Kept, Autos, AutoOK
  <2> QED BY <1>8, <1>10, <2>1
<1>18. \A d \in Controllers : Turn(d) \notin U => cur'[d] = cur[d] /\ Log(d)' = Log(d)
  <2>1. Turn(c) \in U
    BY <1>2, <1>3 DEF Turn
  <2> QED BY <1>8, <1>11, <2>1
<1>19. /\ U \in SUBSET Threads /\ \A u \in Threads \ U : th'[u] = th[u]
       /\ \A u \in U : TextOK(th'[u], file', given', saved')
  BY <1>1, <1>5, <1>7
<1>20. /\ given \subseteq given' /\ saved \subseteq saved'
       /\ \A u \in Threads \ U : th[u].pc = "write" => file'[th[u].path] = file[th[u].path]
  BY <1>1
<1> HIDE DEF U, c
<1> QED BY <1>12, <1>13, <1>14, <1>15, <1>16, <1>17, <1>18, <1>19, <1>20, KeptMove

LEMMA LogLogs ==
  ASSUME NEW f, NEW M, SlotsOK(f, M), NEW c \in Controllers, NEW i, NEW text
  PROVE  \A d \in Controllers : \A j \in Slots :
           /\ WithLog(f, c, i, text)[d][j].pers = f[d][j].pers
           /\ WithLog(f, c, i, text)[d][j].log = IF d = c /\ j = i THEN text ELSE f[d][j].log
<1> DEFINE g == WithLog(f, c, i, text)
           x == [f[c][i] EXCEPT !.log = text]
<1>1. /\ DOMAIN f = Controllers
      /\ \A d \in Controllers : DOMAIN f[d] = Slots /\ \A j \in Slots : DOMAIN f[d][j] = {"log", "pers"}
  BY DEF SlotsOK, SlotOK
<1>2. g = [d \in Controllers |-> IF d = c THEN [f[c] EXCEPT ![i] = x] ELSE f[d]]
  BY <1>1, Zenon DEF WithLog
<1>3. g[c] = [f[c] EXCEPT ![i] = x] /\ \A d \in Controllers \ {c} : g[d] = f[d]
  BY <1>2
<1> HIDE DEF g
<1>4. \A j \in Slots : g[c][j] = IF j = i THEN x ELSE f[c][j]
  BY <1>1, <1>3
<1>5. i \in Slots => x.pers = f[c][i].pers /\ x.log = text
  BY <1>1, SMT
<1> HIDE DEF x
<1>6. \A d \in Controllers : \A j \in Slots :
        /\ g[d][j].pers = f[d][j].pers
        /\ g[d][j].log = IF d = c /\ j = i THEN text ELSE f[d][j].log
  BY <1>3, <1>4, <1>5
<1> QED BY <1>6 DEF g

\* The log of a runtime changes; what it loses the user has given up.
LEMMA LogKept ==
  ASSUME Inv, Kept, NEW c \in Controllers, NEW text, SetLog(c, text), NEW r,
         th' = [th EXCEPT ![Turn(c)] = r],
         UNCHANGED <<file, cur, saved>>, given \subseteq given',
         Opened(text), Range(Log(c)) \subseteq Range(text) \cup given',
         TurnOK(r, cur[c], text, saved \cup given'), TextOK(r, file, given', saved),
         \A i \in 1 .. next' - 1 : i \in 1 .. next - 1 \/ \E m \in Range(text) : i = m[1]
  PROVE  Kept'
<1> DEFINE t == Turn(c)
           U == {t}
           n == cur[c]
           log == Log(c)
<1>1. /\ ThreadsOK /\ SlotsOK(slot, Messages) /\ \A d \in Controllers : cur[d] \in Slots
      /\ t \in Threads /\ t # <<c, "auto">> /\ \A d \in Controllers : Turn(d) = t => d = c
  BY TurnHere, OfController DEF Inv, TypeInv, Runtimes, Turn
<1>2. DOMAIN th' = Threads /\ th'[t] = r /\ \A u \in Threads \ {t} : th'[u] = th[u]
  <2>1. th' = [th EXCEPT ![t] = r]
    OBVIOUS
  <2> HIDE DEF t
  <2> QED BY <1>1, <2>1, Moved
<1>3. \A d \in Controllers : \A j \in Slots :
        /\ slot'[d][j].pers = slot[d][j].pers
        /\ slot'[d][j].log = IF d = c /\ j = n THEN text ELSE slot[d][j].log
  <2>1. slot' = WithLog(slot, c, n, text)
    BY DEF SetLog, WithLog
  <2> HIDE DEF n
  <2> QED BY <1>1, <2>1, LogLogs
<1>4. Log(c)' = text /\ \A d \in Controllers \ {c} : Log(d)' = Log(d)
  BY <1>1, <1>3 DEF Log
<1>5. slot[c][n].log = log
  BY DEF Log
<1> HIDE DEF n, log
<1>6. Range(log) \subseteq Range(text) \cup given'
  BY DEF log
<1>7. Bases'
  <2>1. ASSUME NEW d \in Controllers, NEW j \in Slots
        PROVE  BaseOK(slot'[d][j], given')
    <3>1. BaseOK(slot[d][j], given)
      BY DEF Kept, Bases
    <3>2. CASE d = c /\ j = n
      BY <1>3, <1>5, <1>6, <3>1, <3>2 DEF BaseOK
    <3>3. CASE ~(d = c /\ j = n)
      BY <1>3, <3>1, <3>3 DEF BaseOK
    <3> QED BY <3>2, <3>3
  <2> QED BY <2>1 DEF Bases
<1>8. Openings' /\ DiskSaved' /\ SavedMessageSurvives'
  <2>1. Openings'
    BY <1>4 DEF Kept, Openings
  <2> QED BY <2>1 DEF Kept, DiskSaved, SavedMessageSurvives, OnDisk
<1>9. Said'
  <2> DEFINE all == saved \cup given \cup UNION {Range(Log(d)) : d \in Controllers}
             new == saved' \cup given' \cup UNION {Range(Log(d)') : d \in Controllers}
  <2>1. ASSUME NEW m \in all
        PROVE  m \in new
    <3>1. CASE m \in saved \cup given
      BY <3>1
    <3>2. ASSUME NEW d \in Controllers, m \in Range(Log(d))
          PROVE  m \in new
      <4>1. CASE d = c
        BY <1>4, <3>2, <4>1
      <4>2. CASE d # c
        BY <1>4, <3>2, <4>2
      <4> QED BY <4>1, <4>2
    <3> QED BY <2>1, <3>1, <3>2
  <2>2. 1 .. next - 1 \subseteq {m[1] : m \in all}
    BY DEF Kept, Said
  <2>3. \A m \in Range(text) : m \in new
    BY <1>4
  <2>4. \A i \in 1 .. next' - 1 : i \in 1 .. next - 1 \/ \E m \in Range(text) : i = m[1]
    OBVIOUS
  <2>5. 1 .. next' - 1 \subseteq {m[1] : m \in new}
    <3> HIDE DEF all, new
    <3> QED BY <2>1, <2>2, <2>3, <2>4
  <2> QED BY <2>5 DEF Said
<1>10. ASSUME NEW d \in Controllers, Turn(d) \in U
       PROVE  TurnOK(th'[Turn(d)], cur'[d], Log(d)', saved' \cup given')
  <2>1. d = c /\ th'[Turn(d)] = r
    BY <1>1, <1>2, <1>10
  <2>2. cur'[c] = cur[c] /\ Log(c)' = text /\ saved' \cup given' = saved \cup given'
    BY <1>4
  <2> QED BY <2>1, <2>2
<1>11. \A d \in Controllers : <<d, "auto">> \notin U
  BY DEF Turn
<1>12. \A d \in Controllers : th[<<d, "auto">>].pc \in SavingPlaces =>
        Range(slot[d][th[<<d, "auto">>].s].log) \subseteq Range(slot'[d][th[<<d, "auto">>].s].log) \cup given'
  <2>1. ASSUME NEW d \in Controllers, th[<<d, "auto">>].pc \in SavingPlaces
        PROVE  th[<<d, "auto">>].s \in Slots
    BY <2>1 DEF Kept, Autos, AutoOK
  <2>2. ASSUME NEW d \in Controllers, NEW j \in Slots
        PROVE  Range(slot[d][j].log) \subseteq Range(slot'[d][j].log) \cup given'
    <3>1. CASE d = c /\ j = n
      BY <1>3, <1>5, <1>6, <3>1
    <3>2. CASE ~(d = c /\ j = n)
      BY <1>3, <3>2
    <3> QED BY <3>1, <3>2
  <2> QED BY <2>1, <2>2
<1>13. \A d \in Controllers : Turn(d) \notin U => cur'[d] = cur[d] /\ Log(d)' = Log(d)
  BY <1>4
<1>14. /\ U \in SUBSET Threads /\ \A u \in Threads \ U : th'[u] = th[u]
       /\ \A u \in U : TextOK(th'[u], file', given', saved')
  BY <1>1, <1>2
<1>15. \A u \in Threads \ U : th[u].pc = "write" => file'[th[u].path] = file[th[u].path]
  OBVIOUS
<1> HIDE DEF U
<1> QED BY <1>7, <1>8, <1>9, <1>10, <1>11, <1>12, <1>13, <1>14, <1>15, KeptMove

\* A message is appended by the turn.
SaysOn(r, q, x) ==
  /\ q.pc \in {"prompt", "work"} /\ r.pc \in {"work", "replied"} /\ r.then = q.then
  /\ r.start = q.start /\ r.mine = q.mine \cup {x} /\ q.start \in Nat
Longer(text, log, x) ==
  /\ Len(log) \in Nat /\ Len(text) = Len(log) + 1 /\ text[Len(log) + 1] = x
  /\ \A i \in 1 .. Len(log) : text[i] = log[i]

LEMMA SaidTurn ==
  ASSUME NEW q, NEW r, NEW x, SaysOn(r, q, x), NEW log, NEW text, Longer(text, log, x),
         NEW n, NEW kept, NEW more, TurnOK(q, n, log, kept)
  PROVE  TurnOK(r, n, text, more)
<1> USE DEF SaysOn, Longer
<1>1. InTurn(q) /\ q.then \notin {"prompt", "flush"}
  BY DEF InTurn, TurnOK, Editing
<1>2. r.start <= Len(log) /\ \A i \in 1 .. Len(log) : i > r.start => log[i] \in r.mine
  BY <1>1 DEF TurnOK
<1>3. r.start <= Len(text) /\ Len(text) > r.start
  BY <1>2
<1>4. ASSUME NEW i \in 1 .. Len(text), i > r.start
      PROVE  text[i] \in r.mine
  <2>1. CASE i = Len(log) + 1
    BY <2>1
  <2>2. CASE i # Len(log) + 1
    <3>1. i \in 1 .. Len(log)
      BY <2>2
    <3> QED BY <1>2, <1>4, <3>1
  <2> QED BY <2>1, <2>2
<1> QED BY <1>1, <1>3, <1>4 DEF TurnOK, Unsaved, SavingPlaces

LEMMA SayKept ==
  ASSUME Inv, Kept, NEW c \in Controllers, Prompt(c) \/ Reply(c)
  PROVE  Kept'
<1> DEFINE q == th[Turn(c)]
           log == Log(c)
           kept == saved \cup given
<1>1. /\ TurnOK(q, cur[c], log, kept) /\ TextOK(q, file, given, saved) /\ Opened(log)
      /\ DOMAIN q = Fields /\ DOMAIN th = Threads /\ Turn(c) \in Threads
      /\ Len(log) \in Nat /\ log \in Seq(Messages) /\ q.start \in Nat /\ next \in Nat \ {0}
  BY TurnHere, Here DEF ThreadOK, TypeInv, Counts
<1>2. PICK role \in Role, pc \in {"work", "replied"} :
        /\ Say(c, role, pc) /\ q.pc \in {"prompt", "work"}
        /\ role = "user" \/ q.pc = "work"
  BY DEF Prompt, Reply, Role
<1> DEFINE x == <<next, role>>
           text == Append(log, x)
           r == WithSaid(q, pc, x)
<1>3. /\ th' = [th EXCEPT ![Turn(c)] = r] /\ SetLog(c, text) /\ next' = next + 1
      /\ UNCHANGED <<file, cur, saved, given>>
  <2>1. th' = [th EXCEPT ![Turn(c)].pc = pc, ![Turn(c)].mine = @ \cup {x}]
    BY <1>2 DEF Say
  <2>2. th' = [th EXCEPT ![Turn(c)] = r]
    BY <1>1, <2>1, Zenon DEF WithSaid
  <2> QED BY <1>2, <2>2 DEF Say
<1>4. r.pc = pc /\ r.text = q.text /\ r.then = q.then /\ r.start = q.start /\ r.mine = q.mine \cup {x}
  <2> HIDE DEF q, x
  <2> QED BY <1>1, SMT DEF WithSaid, Fields
<1>5. /\ Len(text) = Len(log) + 1 /\ text[Len(log) + 1] = x
      /\ \A i \in 1 .. Len(log) : text[i] = log[i]
      /\ DOMAIN log = 1 .. Len(log) /\ DOMAIN text = 1 .. Len(log) + 1
  <2>1. log \in Seq(Messages \cup {x}) /\ x \in Messages \cup {x}
    BY <1>1, SeqMonotonic
  <2> HIDE DEF x, log
  <2> QED BY <1>1, <2>1, AppendProperties, LenProperties
<1>6. IsUser(x) \/ q.pc = "work"
  BY <1>2 DEF IsUser
<1>7. x[1] = next
  OBVIOUS
<1> HIDE DEF q, log, kept, x, text, r
<1>8. TurnOK(r, cur[c], text, saved \cup given')
  <2>1. SaysOn(r, q, x) /\ Longer(text, log, x) /\ TurnOK(q, cur[c], log, kept)
    BY <1>1, <1>2, <1>4, <1>5 DEF SaysOn, Longer
  <2> QED BY <2>1, SaidTurn
<1>9. Opened(text)
  <2>1. CASE Len(log) = 0
    <3>1. q.pc # "work"
      BY <1>1, <2>1 DEF TurnOK
    <3>2. text[1] = x
      BY <1>5, <2>1
    <3> QED BY <1>6, <3>1, <3>2 DEF Opened
  <2>2. CASE Len(log) # 0
    <3>1. log # <<>> /\ text[1] = log[1]
      BY <1>1, <1>5, <2>2, EmptySeq
    <3> QED BY <1>1, <3>1 DEF Opened
  <2> QED BY <2>1, <2>2
<1>10. Range(log) \subseteq Range(text)
  <2>1. ASSUME NEW i \in 1 .. Len(log)
        PROVE  log[i] \in Range(text)
    <3>1. log[i] = text[i] /\ i \in DOMAIN text
      BY <1>1, <1>5
    <3> QED BY <3>1, RangeIn
  <2> QED BY <1>5, <2>1 DEF Range
<1>11. TextOK(r, file, given', saved)
  BY <1>1, <1>2, <1>4 DEF TextOK
<1>12. \A i \in 1 .. next' - 1 : i \in 1 .. next - 1 \/ \E m \in Range(text) : i = m[1]
  <2>1. x \in Range(text)
    <3>1. Len(log) + 1 \in DOMAIN text
      BY <1>1, <1>5
    <3> QED BY <1>5, <3>1, RangeIn
  <2>2. \A i \in 1 .. next' - 1 : i \in 1 .. next - 1 \/ i = next
    BY <1>1, <1>3
  <2> QED BY <1>7, <2>1, <2>2
<1>13. given \subseteq given' /\ Range(Log(c)) \subseteq Range(text) \cup given'
  BY <1>3, <1>10 DEF log
<1> QED BY <1>3, <1>8, <1>9, <1>11, <1>12, <1>13, LogKept

-----------------------------------------------------------------------------
(* A turn is cut, or taken back.                                           *)

LEMMA CutKeeps ==
  ASSUME NEW M, NEW text \in Seq(M), NEW k \in Nat, k <= Len(text)
  PROVE  /\ Len(SubSeq(text, 1, k)) = k /\ DOMAIN SubSeq(text, 1, k) = 1 .. k
         /\ \A i \in 1 .. k : SubSeq(text, 1, k)[i] = text[i]
<1>1. \A i \in 1 .. k : text[i] \in M
  BY ElementOfSeq, LenProperties, SMT
<1>2. /\ SubSeq(text, 1, k) \in Seq(M) /\ Len(SubSeq(text, 1, k)) = k
      /\ \A i \in 1 .. k : SubSeq(text, 1, k)[i] = text[i]
  BY <1>1, SubSeqProperties
<1> QED BY <1>2, LenProperties

LEMMA OneText ==
  ASSUME NEW x
  PROVE  << x >> \in Seq({x})
OBVIOUS

\* What precedes the turn stays, and so does a prompt at the beginning.
LEMMA StrippedKeeps ==
  ASSUME NEW M, NEW text \in Seq(M), NEW k \in Nat, k < Len(text), Opened(text)
  PROVE  /\ \A i \in 1 .. k : text[i] \in Range(Stripped(text, k))
         /\ Opened(Stripped(text, k))
<1> DEFINE prompts == {i \in k + 1 .. Len(text) : IsUser(text[i])}
           least == CHOOSE i \in prompts : \A j \in prompts : i <= j
           rest == IF prompts = {} THEN <<>> ELSE << text[least] >>
           cut == SubSeq(text, 1, k)
           all == cut \o rest
<1>1. Len(text) \in Nat
  BY LenProperties
<1>2. cut \in Seq(M) /\ Len(cut) = k /\ \A i \in 1 .. k : cut[i] = text[i]
  <2>1. k <= Len(text)
    BY <1>1
  <2> QED BY <2>1, CutText, CutKeeps
<1>4. prompts # {} => IsUser(text[least])
  <2>1. ASSUME prompts # {}
        PROVE  \E i \in prompts : \A j \in prompts : i <= j
    <3>1. prompts \in SUBSET Nat
      BY <1>1, SMT
    <3> HIDE DEF prompts
    <3> QED BY <2>1, <3>1, LeastNumber
  <2>2. prompts # {} => least \in prompts
    <3> HIDE DEF prompts
    <3> QED BY <2>1
  <2> HIDE DEF least
  <2> QED BY <2>2
<1>5. rest = <<>> \/ (Len(rest) = 1 /\ IsUser(rest[1]))
  <2>1. CASE prompts = {}
    BY <2>1
  <2>2. CASE prompts # {}
    <3>1. rest = << text[least] >>
      BY <2>2
    <3> HIDE DEF rest, least, prompts
    <3>2. Len(rest) = 1 /\ rest[1] = text[least]
      BY <3>1
    <3> QED BY <1>4, <2>2, <3>2
  <2> QED BY <2>1, <2>2
<1>6. \E N : cut \in Seq(N) /\ rest \in Seq(N)
  <2>1. rest \in Seq({text[least]})
    <3>1. CASE prompts = {}
      BY <3>1, EmptySeq
    <3>2. CASE prompts # {}
      <4>1. rest = << text[least] >>
        BY <3>2
      <4> HIDE DEF rest, least, prompts
      <4> QED BY <4>1, OneText
    <3> QED BY <3>1, <3>2
  <2> DEFINE N == M \cup {text[least]}
  <2>2. cut \in Seq(N) /\ rest \in Seq(N)
    <3> HIDE DEF cut, rest, least
    <3> QED BY <1>2, <2>1, SeqMonotonic
  <2> QED BY <2>2
<1> HIDE DEF cut, rest, all
<1>7. PICK N : cut \in Seq(N) /\ rest \in Seq(N)
  BY <1>6
<1>8. /\ Len(rest) \in Nat /\ all \in Seq(N) /\ Len(all) = k + Len(rest) /\ DOMAIN all = 1 .. k + Len(rest)
      /\ \A i \in 1 .. k + Len(rest) : all[i] = IF i <= k THEN cut[i] ELSE rest[i - k]
  <2>1. Len(rest) \in Nat
    BY <1>7, LenProperties
  <2>2. /\ all \in Seq(N) /\ Len(all) = Len(cut) + Len(rest)
        /\ \A i \in 1 .. Len(cut) + Len(rest) : all[i] = IF i <= Len(cut) THEN cut[i] ELSE rest[i - Len(cut)]
    BY <1>7, ConcatProperties DEF all
  <2>3. DOMAIN all = 1 .. Len(all)
    BY <2>2, LenProperties
  <2> QED BY <1>2, <2>1, <2>2, <2>3
<1>9. \A i \in 1 .. k : i \in DOMAIN all /\ all[i] = text[i]
  BY <1>2, <1>8
<1>10. \A i \in 1 .. k : text[i] \in Range(all)
  BY <1>9, RangeIn
<1>11. Opened(all)
  <2>1. CASE k = 0
    <3>1. CASE rest = <<>>
      <4>1. Len(rest) = 0
        BY <3>1
      <4>2. all = <<>>
        BY <1>8, <2>1, <4>1, EmptySeq
      <4> QED BY <4>2 DEF Opened
    <3>2. CASE Len(rest) = 1 /\ IsUser(rest[1])
      <4>1. all[1] = rest[1]
        BY <1>8, <2>1, <3>2
      <4> QED BY <3>2, <4>1 DEF Opened
    <3> QED BY <1>5, <3>1, <3>2
  <2>2. CASE k # 0
    <3>1. all[1] = text[1] /\ text # <<>>
      BY <1>1, <1>9, <2>2, EmptySeq
    <3> QED BY <3>1 DEF Opened
  <2> QED BY <2>1, <2>2
<1>12. Stripped(text, k) = all
  BY DEF Stripped, all, cut, rest
<1> QED BY <1>10, <1>11, <1>12

\* The turn gives up messages and saves the log without them.
LEMMA TakeBackKept ==
  ASSUME Inv, Kept, NEW c \in Controllers, NEW text, SetLog(c, text), Opened(text),
         NEW job, NEW then \in {"idle", "clear", "recovered"},
         th' = [th EXCEPT ![Turn(c)] = Saving(Turn(c), text, TRUE, job, then)],
         UNCHANGED <<file, cur, next, saved>>, given \subseteq given',
         Range(Log(c)) \subseteq Range(text) \cup given'
  PROVE  Kept'
<1> DEFINE r == Saving(Turn(c), text, TRUE, job, then)
<1>1. SavesText(r, Turn(c), text, TRUE, then) /\ th' = [th EXCEPT ![Turn(c)] = r]
  BY SavingIs, TurnHere
<1> HIDE DEF r
<1>2. r.pc = "lock" /\ r.s = cur[c] /\ r.text = text /\ r.then = then
  BY <1>1 DEF SavesText, Turn
<1>3. TurnOK(r, cur[c], text, saved \cup given')
  <2>1. r.then \notin {"prompt", "flush"}
    BY <1>2
  <2> QED BY <1>2, <2>1 DEF TurnOK, InTurn, Unsaved
<1>4. TextOK(r, file, given', saved)
  BY <1>2 DEF TextOK
<1>5. \A i \in 1 .. next' - 1 : i \in 1 .. next - 1
  OBVIOUS
<1> QED BY <1>1, <1>3, <1>4, <1>5, LogKept

LEMMA CancelTurnKept ==
  ASSUME Inv, Kept, NEW c \in Controllers, CancelTurn(c)
  PROVE  Kept'
<1> DEFINE q == th[Turn(c)]
           log == Log(c)
           text == Stripped(log, q.start)
<1>1. /\ TurnOK(q, cur[c], log, saved \cup given) /\ Opened(log) /\ Len(log) \in Nat
      /\ log \in Seq(Messages) /\ q.start \in Nat /\ q.pc \in {"work", "replied"}
      /\ UNCHANGED <<file, cur, next, saved>>
  BY TurnHere, Here DEF ThreadOK, CancelTurn
<1>2. Len(log) > q.start /\ \A i \in 1 .. Len(log) : i > q.start => log[i] \in q.mine
  BY <1>1 DEF TurnOK, InTurn
<1>3. ~(Len(log) <= q.start)
  <2> HIDE DEF log, q
  <2> QED BY <1>1, <1>2
<1>4. /\ SetLog(c, text) /\ given' = given \cup (q.mine \ Range(text))
      /\ th' = [th EXCEPT ![Turn(c)] = Saving(Turn(c), text, TRUE, "none", "clear")]
  BY <1>3 DEF CancelTurn
<1>5. (\A i \in 1 .. q.start : log[i] \in Range(text)) /\ Opened(text)
  <2> HIDE DEF log, q
  <2>1. q.start < Len(log)
    BY <1>1, <1>2
  <2> QED BY <1>1, <2>1, StrippedKeeps
<1>6. Range(log) \subseteq Range(text) \cup given'
  <2>0. DOMAIN log = 1 .. Len(log)
    BY <1>1, LenProperties
  <2>1. ASSUME NEW i \in 1 .. Len(log)
        PROVE  log[i] \in Range(text) \cup given'
    <3>1. CASE i > q.start
      BY <1>2, <1>4, <3>1
    <3>2. CASE ~(i > q.start)
      <4>1. i \in 1 .. q.start
        <5> HIDE DEF log, q
        <5> QED BY <1>1, <3>2
      <4> QED BY <1>5, <4>1
    <3> QED BY <3>1, <3>2
  <2> HIDE DEF log, text
  <2> QED BY <2>0, <2>1 DEF Range
<1>7. given \subseteq given'
  BY <1>4
<1> HIDE DEF text
<1> QED BY <1>1, <1>4, <1>5, <1>6, <1>7, TakeBackKept

LEMMA RewindKept ==
  ASSUME Inv, Kept, NEW c \in Controllers, Rewind(c)
  PROVE  Kept'
<1> DEFINE log == Log(c)
<1>1. Opened(log) /\ Len(log) \in Nat /\ log \in Seq(Messages)
  BY TurnHere
<1>2. PICK k \in 1 .. Len(log) - 1 :
        /\ SetLog(c, SubSeq(log, 1, k)) /\ Dropped(c, SubSeq(log, 1, k))
        /\ th' = [th EXCEPT ![Turn(c)] = Saving(Turn(c), SubSeq(log, 1, k), TRUE, "update", "idle")]
        /\ UNCHANGED <<file, cur, next, saved>>
  BY DEF Rewind
<1> DEFINE text == SubSeq(log, 1, k)
<1>3. Opened(text)
  <2> HIDE DEF log
  <2>1. k \in Nat /\ k <= Len(log) /\ 1 \in 1 .. k
    BY <1>1
  <2>2. text[1] = log[1] /\ Len(log) # 0
    BY <1>1, <2>1, CutKeeps
  <2>3. log # <<>>
    BY <2>2
  <2> HIDE DEF text
  <2> QED BY <1>1, <2>2, <2>3 DEF Opened
<1>4. given \subseteq given' /\ Range(log) \subseteq Range(text) \cup given'
  BY <1>2 DEF Dropped
<1> QED BY <1>2, <1>3, <1>4, TakeBackKept

LEMMA RecoverKept ==
  ASSUME Inv, Kept, NEW c \in Controllers, Recover(c), ResumeIsGenuine
  PROVE  Kept'
<1> DEFINE q == th[Turn(c)]
           log == Log(c)
           mark == MetaOf(q.home).mark
           text == Stripped(log, mark.start)
<1>1. /\ TurnOK(q, cur[c], log, saved \cup given) /\ Opened(log) /\ Len(log) \in Nat
      /\ log \in Seq(Messages) /\ q.pc = "resumed" /\ mark.start \in Nat
      /\ UNCHANGED <<file, cur, next, saved, given>>
  BY TurnHere, Here, SidecarOK DEF Recover, Meta, Mark
<1>2. CASE mark.on /\ Len(log) > mark.start
  <2>1. SetLog(c, text) /\ th' = [th EXCEPT ![Turn(c)] = Saving(Turn(c), text, TRUE, "none", "recovered")]
    BY <1>2 DEF Recover
  <2>2. Opened(text)
    <3> HIDE DEF log, mark
    <3>1. mark.start < Len(log)
      BY <1>1, <1>2
    <3> QED BY <1>1, <3>1, StrippedKeeps
  <2>3. Range(log) \ Range(text) \subseteq given
    BY <1>1, <1>2 DEF ResumeIsGenuine
  <2>4. given \subseteq given' /\ Range(log) \subseteq Range(text) \cup given'
    BY <1>1, <2>3
  <2> HIDE DEF text
  <2> QED BY <1>1, <2>1, <2>2, <2>4, TakeBackKept
<1>3. CASE ~(mark.on /\ Len(log) > mark.start)
  <2>1. slot' = slot
    BY <1>3 DEF Recover
  <2>2. CASE th' = At(Turn(c), "unmark")
    BY <1>1, <2>1, <2>2, OverKept
  <2>3. CASE th' = [th EXCEPT ![Turn(c)] = Idle]
    <3>1. Range(log) \subseteq saved \cup given
      BY <1>1 DEF TurnOK, Unsaved, Editing
    <3> QED BY <1>1, <2>1, <2>3, <3>1, IdleKept
  <2> QED BY <1>3, <2>2, <2>3 DEF Recover
<1> QED BY <1>2, <1>3

-----------------------------------------------------------------------------
(* A runtime ends, or begins.                                              *)

LEMMA EmptyRange == Range(<<>>) = {}
BY DEF Range

LEMMA OneRuntime ==
  ASSUME NEW c \in Controllers
  PROVE  /\ ThreadsOf(c) \in SUBSET Threads /\ Turn(c) \in ThreadsOf(c) /\ <<c, "auto">> \in ThreadsOf(c)
         /\ Turn(c) # <<c, "auto">> /\ ThreadsOf(c) = {Turn(c), <<c, "auto">>}
         /\ \A d \in Controllers : Turn(d) \in ThreadsOf(c) \/ <<d, "auto">> \in ThreadsOf(c) => d = c
BY DEF ThreadsOf, Turn, Threads

\* What a log holds is saved or given up when its runtime begins or ends.
LEMMA ExitKept ==
  ASSUME Inv, Kept, NEW c \in Controllers, Exit(c)
  PROVE  Kept'
<1> DEFINE U == ThreadsOf(c)
           log == Log(c)
<1>1. /\ given' = given \cup th[Turn(c)].mine \cup (Range(log) \ OnDisk)
      /\ slot' = [slot EXCEPT ![c] = [i \in Slots |-> Blank]]
      /\ cur' = [cur EXCEPT ![c] = 1]
      /\ th' = [t \in Threads |-> IF t \in U THEN Down ELSE th[t]]
      /\ UNCHANGED <<file, next, saved>>
  BY DEF Exit
<1>2. SlotsOK(slot, Messages) /\ cur \in [Controllers -> Slots] /\ 1 \in Slots
  BY SMT DEF Inv, TypeInv, Runtimes, Slots
<1>3. /\ \A d \in Controllers \ {c} : slot'[d] = slot[d] /\ cur'[d] = cur[d] /\ Log(d)' = Log(d)
      /\ cur'[c] = 1 /\ Log(c)' = <<>>
      /\ \A i \in Slots : slot'[c][i].log = <<>> /\ slot'[c][i].pers.text = <<>>
  <2>1. /\ \A d \in Controllers \ {c} : slot'[d] = slot[d]
        /\ slot'[c] = [i \in Slots |-> Blank]
    BY <1>1, <1>2 DEF SlotsOK
  <2>2. cur'[c] = 1 /\ \A d \in Controllers \ {c} : cur'[d] = cur[d]
    BY <1>1, <1>2
  <2>3. Blank.log = <<>> /\ Blank.pers.text = <<>>
    BY SMT DEF Blank, NoBase
  <2>4. \A i \in Slots : slot'[c][i] = Blank
    BY <2>1
  <2>5. Log(c)' = <<>>
    BY <1>2, <2>2, <2>3, <2>4 DEF Log
  <2>6. \A d \in Controllers \ {c} : Log(d)' = Log(d)
    BY <2>1, <2>2 DEF Log
  <2> QED BY <2>1, <2>2, <2>3, <2>4, <2>5, <2>6
<1>4. /\ U \in SUBSET Threads /\ Turn(c) \in U /\ <<c, "auto">> \in U
      /\ \A d \in Controllers : Turn(d) \in U \/ <<d, "auto">> \in U => d = c
  BY OneRuntime
<1>5. (\A u \in Threads \ U : th'[u] = th[u]) /\ \A u \in U : th'[u] = Down
  BY <1>1, <1>4
<1>6. Down.pc = "down" /\ Down.text = <<>> /\ Down.then = "idle" /\ Down.rewrite = FALSE
  BY SMT DEF Down, Idle
<1>7. given \subseteq given' /\ saved \subseteq saved' /\ Range(log) \subseteq saved \cup given'
  BY <1>1 DEF Kept, DiskSaved
<1> HIDE DEF U
<1>8. \A i \in Controllers : Turn(i) \in U => TurnOK(th'[Turn(i)], cur'[i], Log(i)', saved' \cup given')
  <2>1. TurnOK(Down, 1, <<>>, saved' \cup given')
    BY <1>6, EmptyRange DEF TurnOK, SavingPlaces, InTurn
  <2> QED BY <1>3, <1>4, <1>5, <2>1
<1>9. \A i \in Controllers : <<i, "auto">> \in U => AutoOK(th'[<<i, "auto">>], slot'[i], given')
  <2>1. AutoOK(Down, slot'[c], given')
    BY <1>6 DEF AutoOK, AutoPlaces, SavingPlaces
  <2> QED BY <1>4, <1>5, <2>1
<1>10. \A u \in U : TextOK(th'[u], file', given', saved')
  <2>1. TextOK(Down, file', given', saved')
    BY <1>6 DEF TextOK, Opened
  <2> QED BY <1>5, <2>1
<1>11. Bases'
  <2>1. ASSUME NEW d \in Controllers, NEW j \in Slots
        PROVE  BaseOK(slot'[d][j], given')
    <3>1. CASE d = c
      BY <1>3, <3>1, EmptyRange DEF BaseOK
    <3>2. CASE d # c
      BY <1>3, <1>7, <3>2 DEF Kept, Bases, BaseOK
    <3> QED BY <3>1, <3>2
  <2> QED BY <2>1 DEF Bases
<1>12. Openings'
  <2>1. \A d \in Controllers : Opened(Log(d)')
    BY <1>3 DEF Kept, Openings, Opened
  <2> QED BY <1>1, <2>1 DEF Kept, Openings
<1>13. DiskSaved' /\ SavedMessageSurvives'
  BY <1>1, <1>7 DEF Kept, DiskSaved, SavedMessageSurvives, OnDisk
<1>14. Said'
  <2> DEFINE all == saved \cup given \cup UNION {Range(Log(d)) : d \in Controllers}
             new == saved' \cup given' \cup UNION {Range(Log(d)') : d \in Controllers}
  <2>1. ASSUME NEW m \in all
        PROVE  m \in new
    <3>1. CASE m \in saved \cup given
      BY <1>7, <3>1
    <3>2. ASSUME NEW d \in Controllers, m \in Range(Log(d))
          PROVE  m \in new
      <4>1. CASE d = c
        BY <1>1, <1>7, <3>2, <4>1
      <4>2. CASE d # c
        BY <1>3, <3>2, <4>2
      <4> QED BY <4>1, <4>2
    <3> QED BY <2>1, <3>1, <3>2
  <2>2. 1 .. next - 1 \subseteq {m[1] : m \in all}
    BY DEF Kept, Said
  <2>3. next' = next
    BY <1>1
  <2>4. 1 .. next' - 1 \subseteq {m[1] : m \in new}
    <3> HIDE DEF all, new
    <3> QED BY <2>1, <2>2, <2>3
  <2> QED BY <2>4 DEF Said
<1>15. \A d \in Controllers : Turn(d) \notin U => cur'[d] = cur[d] /\ Log(d)' = Log(d)
  BY <1>3, <1>4
<1>16. \A d \in Controllers : <<d, "auto">> \notin U /\ th[<<d, "auto">>].pc \in SavingPlaces =>
         Range(slot[d][th[<<d, "auto">>].s].log) \subseteq Range(slot'[d][th[<<d, "auto">>].s].log) \cup given'
  BY <1>3, <1>4
<1>17. \A u \in Threads \ U : th[u].pc = "write" => file'[th[u].path] = file[th[u].path]
  BY <1>1
<1> QED BY <1>4, <1>5, <1>7, <1>8, <1>9, <1>10, <1>11, <1>12, <1>13, <1>14, <1>15, <1>16, <1>17, KeptMove

LEMMA ResumeKept ==
  ASSUME Inv, Kept, NEW c \in Controllers, Resume(c)
  PROVE  Kept'
<1> DEFINE U == ThreadsOf(c)
           a == <<c, "auto">>
           b == Turn(c)
<1>1. PICK p \in DOMAIN file :
        /\ th' = [th EXCEPT ![a] = Idle,
                            ![b] = [Idle EXCEPT !.pc = "load", !.path = p, !.home = p, !.then = "resumed"]]
        /\ UNCHANGED <<file, slot, cur, next, saved, given>> /\ th[b].pc = "down"
  BY Zenon DEF Resume
<1> DEFINE r == WithOpen(Idle, p)
<1>2. th' = [th EXCEPT ![a] = Idle, ![b] = r]
  BY <1>1, Zenon DEF WithOpen
<1>3. /\ r.pc = "load" /\ r.text = <<>> /\ r.then = "resumed"
      /\ Idle.pc = "idle" /\ Idle.text = <<>> /\ Idle.then = "idle" /\ Idle.rewrite = FALSE
  BY SMT DEF Idle, WithOpen
<1> HIDE DEF r
<1>4. /\ U \in SUBSET Threads /\ b \in U /\ a \in U /\ a # b /\ U = {b, a} /\ DOMAIN th = Threads
      /\ \A d \in Controllers : Turn(d) \in U \/ <<d, "auto">> \in U => d = c
  BY OneRuntime, Here
<1>5. /\ th'[a] = Idle /\ th'[b] = r /\ \A u \in Threads \ U : th'[u] = th[u]
  <2>1. a \in Threads /\ b \in Threads
    BY <1>4
  <2> HIDE DEF U, a, b
  <2> QED BY <1>2, <1>4, <2>1
<1>6. UNCHANGED <<file, slot, cur, next, saved, given>> /\ \A d \in Controllers : Log(d)' = Log(d)
  BY <1>1 DEF Log
<1>7. Range(Log(c)) \subseteq saved \cup given
  <2>1. TurnOK(th[b], cur[c], Log(c), saved \cup given)
    BY TurnHere
  <2>2. th[b].then \notin {"prompt", "flush"}
    BY <1>1, <2>1 DEF TurnOK, Editing
  <2> QED BY <1>1, <2>1, <2>2 DEF TurnOK, Unsaved
<1>8. \A d \in Controllers : Turn(d) \in U => TurnOK(th'[Turn(d)], cur'[d], Log(d)', saved' \cup given')
  <2>1. TurnOK(r, cur[c], Log(c), saved \cup given)
    BY <1>3, <1>7 DEF TurnOK, SavingPlaces, InTurn
  <2>2. /\ th'[Turn(c)] = r /\ cur'[c] = cur[c] /\ Log(c)' = Log(c)
        /\ saved' \cup given' = saved \cup given
    BY <1>5, <1>6
  <2>3. TurnOK(th'[Turn(c)], cur'[c], Log(c)', saved' \cup given')
    BY <2>1, <2>2
  <2> HIDE DEF U
  <2> QED BY <1>4, <2>3
<1>9. \A d \in Controllers : <<d, "auto">> \in U => AutoOK(th'[<<d, "auto">>], slot'[d], given')
  <2>1. AutoOK(Idle, slot'[c], given')
    BY <1>3 DEF AutoOK, AutoPlaces, SavingPlaces
  <2>2. AutoOK(th'[<<c, "auto">>], slot'[c], given')
    BY <1>5, <2>1
  <2> HIDE DEF U
  <2> QED BY <1>4, <2>2
<1>10. \A u \in U : TextOK(th'[u], file', given', saved')
  <2>1. TextOK(Idle, file', given', saved') /\ TextOK(r, file', given', saved')
    BY <1>3 DEF TextOK, Opened
  <2> HIDE DEF U, a, b
  <2> QED BY <1>4, <1>5, <2>1
<1>11. Bases' /\ Openings' /\ DiskSaved' /\ SavedMessageSurvives' /\ Said'
  BY <1>6 DEF Kept, Bases, Openings, DiskSaved, SavedMessageSurvives, Said, OnDisk
<1>12. /\ given \subseteq given' /\ saved \subseteq saved'
       /\ \A d \in Controllers : Turn(d) \notin U => cur'[d] = cur[d] /\ Log(d)' = Log(d)
       /\ \A d \in Controllers : <<d, "auto">> \notin U /\ th[<<d, "auto">>].pc \in SavingPlaces =>
            Range(slot[d][th[<<d, "auto">>].s].log) \subseteq Range(slot'[d][th[<<d, "auto">>].s].log) \cup given'
       /\ \A u \in Threads \ U : th[u].pc = "write" => file'[th[u].path] = file[th[u].path]
  BY <1>6
<1> HIDE DEF U, a, b
<1> QED BY <1>4, <1>5, <1>8, <1>9, <1>10, <1>11, <1>12, KeptMove

-----------------------------------------------------------------------------
(* Every step.                                                             *)

LEMMA InitKept ==
  ASSUME Init
  PROVE  Kept
<1>1. /\ DOMAIN file = {Main} /\ file[Main] = << <<1, "user">> >>
      /\ slot = [c \in Controllers |-> [i \in Slots |-> Blank]]
      /\ cur = [c \in Controllers |-> 1]
      /\ th = [t \in Threads |-> Down] /\ next = 2 /\ saved = { <<1, "user">> } /\ given = {}
  BY DEF Init
<1>2. Down.pc = "down" /\ Down.text = <<>> /\ Down.then = "idle" /\ Down.rewrite = FALSE
  BY SMT DEF Down, Idle
<1>3. Blank.log = <<>> /\ Blank.pers.text = <<>> /\ 1 \in Slots
  BY SMT DEF Blank, NoBase, Slots
<1>4. \A c \in Controllers : Log(c) = <<>> /\ cur[c] = 1 /\ \A i \in Slots : slot[c][i] = Blank
  BY <1>1, <1>3 DEF Log
<1>5. \A t \in Threads : th[t] = Down
  BY <1>1
<1>6. \A c \in Controllers : Turn(c) \in Threads /\ <<c, "auto">> \in Threads
  BY DEF Turn, Threads
<1>7. Turns
  <2>1. TurnOK(Down, 1, <<>>, saved \cup given)
    BY <1>2, EmptyRange DEF TurnOK, SavingPlaces, InTurn
  <2> QED BY <1>4, <1>5, <1>6, <2>1 DEF Turns
<1>8. Autos
  <2>1. \A c \in Controllers : AutoOK(Down, slot[c], given)
    BY <1>2 DEF AutoOK, AutoPlaces, SavingPlaces
  <2> QED BY <1>5, <1>6, <2>1 DEF Autos
<1>9. Texts
  <2>1. TextOK(Down, file, given, saved)
    BY <1>2 DEF TextOK, Opened
  <2> QED BY <1>5, <2>1 DEF Texts
<1>10. Bases
  BY <1>3, <1>4, EmptyRange DEF Bases, BaseOK
<1>11. OnDisk = { <<1, "user">> }
  <2>1. Range(<< <<1, "user">> >>) = { <<1, "user">> }
    BY DEF Range
  <2> QED BY <1>1, <2>1 DEF OnDisk
<1>12. Openings
  <2>1. Opened(<< <<1, "user">> >>) /\ Opened(<<>>)
    BY DEF Opened, IsUser
  <2> QED BY <1>1, <1>4, <2>1 DEF Openings
<1>13. DiskSaved /\ SavedMessageSurvives
  BY <1>1, <1>11 DEF DiskSaved, SavedMessageSurvives
<1>14. Said
  <2>1. 1 .. next - 1 = {1}
    BY <1>1, SMT
  <2>2. <<1, "user">>[1] = 1 /\ <<1, "user">> \in saved
    BY <1>1
  <2> QED BY <2>1, <2>2 DEF Said
<1> QED BY <1>7, <1>8, <1>9, <1>10, <1>12, <1>13, <1>14 DEF Kept

LEMMA StepKept ==
  ASSUME Inv, Kept, NotDivergent, NotDivergent', [Next]_vars
  PROVE  Kept'
<1>0. ResumeIsGenuine /\ RecoveryFileIsUnused /\ AutosaveIsCurrent'
  BY DEF NotDivergent
<1>1. ASSUME NEW t \in Threads, SaveStep(t)
      PROVE  Kept'
  <2>1. CASE Lock(t)
    BY <1>0, <2>1, LockKept
  <2>2. CASE Write(t)
    BY <2>2, WriteKept
  <2>3. CASE Record(t) \/ RecMerge(t) \/ RecPut(t) \/ RecordFailed(t)
    BY <2>3, EditsKept
  <2>4. CASE Persisted(t)
    BY <2>4, MarkedKept
  <2> QED BY <1>1, <2>1, <2>2, <2>3, <2>4 DEF SaveStep
<1>2. ASSUME NEW t \in Threads, ConflictStep(t)
      PROVE  Kept'
  <2>1. CASE Load(t)
    BY <2>1, LoadKept
  <2>2. CASE Install(t)
    BY <2>2, InstallKept
  <2>3. CASE Branch(t)
    BY <2>3, BranchKept
  <2>4. CASE BranchFile(t)
    BY <1>0, <2>4, BranchFileKept
  <2>5. CASE BranchMeta(t)
    BY <2>5, MarkedKept
  <2> QED BY <1>2, <2>1, <2>2, <2>3, <2>4, <2>5 DEF ConflictStep
<1>3. ASSUME NEW t \in Threads, MetaStep(t)
      PROVE  Kept'
  BY <1>3, EditsKept DEF MetaStep
<1>4. ASSUME NEW c \in Controllers, ControllerStep(c)
      PROVE  Kept'
  <2>1. CASE StartTurn(c)
    BY <2>1, StartTurnKept
  <2>2. CASE MarkTurn(c) \/ ClearMark(c) \/ Unmark(c)
    BY <2>2, EditKept
  <2>3. CASE Prompt(c) \/ Reply(c)
    BY <2>3, SayKept
  <2>4. CASE EndTurn(c)
    BY <2>4, OverKept DEF EndTurn
  <2>5. CASE CancelTurn(c)
    BY <2>5, CancelTurnKept
  <2>6. CASE Flush(c)
    BY <2>6, FlushKept
  <2>7. CASE Tick(c)
    BY <2>7, TickKept
  <2>8. CASE Rewind(c)
    BY <2>8, RewindKept
  <2>9. CASE Exit(c)
    BY <2>9, ExitKept
  <2>10. CASE Resume(c)
    BY <2>10, ResumeKept
  <2>11. CASE Recover(c)
    BY <1>0, <2>11, RecoverKept
  <2>12. CASE Recovered(c)
    BY <2>12, RecoveredKept
  <2> QED BY <1>4, <2>1, <2>2, <2>3, <2>4, <2>5, <2>6, <2>7, <2>8, <2>9, <2>10, <2>11, <2>12
          DEF ControllerStep
<1>5. CASE UNCHANGED vars
  <2>1. UNCHANGED <<file, slot, cur, th, next, saved, given>> /\ \A c \in Controllers : Log(c)' = Log(c)
    BY <1>5 DEF vars, Log
  <2>2. Turns' /\ Autos' /\ Texts'
    BY <2>1 DEF Kept, Turns, Autos, Texts
  <2>3. Bases' /\ Openings' /\ DiskSaved' /\ SavedMessageSurvives' /\ Said'
    BY <2>1 DEF Kept, Bases, Openings, DiskSaved, SavedMessageSurvives, Said, OnDisk
  <2> QED BY <2>2, <2>3 DEF Kept
<1> QED BY <1>1, <1>2, <1>3, <1>4, <1>5 DEF Next

LEMMA KeptAlways == Spec /\ []NotDivergent => []Kept
<1>1. Init => Kept
  BY InitKept
<1>2. Inv /\ Kept /\ NotDivergent /\ NotDivergent' /\ [Next]_vars => Kept'
  BY StepKept
<1> QED BY <1>1, <1>2, Invariance, PTL DEF Spec

\* A log that a runtime at rest holds is saved, or given up.
LEMMA KeptSaid ==
  ASSUME Inv, Kept
  PROVE  NothingSaidIsLost
<1> DEFINE busy == {c \in Controllers : th[Turn(c)].pc \notin {"idle", "down"}}
           kept == OnDisk \cup given \cup UNION {Range(Log(c)) : c \in busy}
           all == saved \cup given \cup UNION {Range(Log(c)) : c \in Controllers}
<1>1. saved \cup given \subseteq kept
  BY DEF Kept, SavedMessageSurvives
<1>2. ASSUME NEW c \in Controllers
      PROVE  Range(Log(c)) \subseteq kept
  <2>1. CASE c \in busy
    BY <2>1
  <2>2. CASE c \notin busy
    <3>1. th[Turn(c)].pc \in {"idle", "down"} /\ TurnOK(th[Turn(c)], cur[c], Log(c), saved \cup given)
      BY <2>2, TurnHere
    <3>2. th[Turn(c)].then \notin {"prompt", "flush"}
      BY <3>1 DEF TurnOK, Editing
    <3>3. Range(Log(c)) \subseteq saved \cup given
      BY <3>1, <3>2 DEF TurnOK, Unsaved
    <3> QED BY <1>1, <3>3
  <2> QED BY <2>1, <2>2
<1>3. \A m \in all : m \in kept
  <2> HIDE DEF kept
  <2> QED BY <1>1, <1>2
<1>4. 1 .. next - 1 \subseteq {m[1] : m \in all}
  BY DEF Kept, Said
<1>5. 1 .. next - 1 \subseteq {m[1] : m \in kept}
  <2> HIDE DEF all, kept
  <2> QED BY <1>3, <1>4
<1> QED BY <1>5 DEF NothingSaidIsLost

-----------------------------------------------------------------------------
(* The theorems.                                                           *)

LEMMA InvTypes ==
  ASSUME Inv
  PROVE  TypeOK
<1>1. /\ Files /\ Sidecars /\ Counts /\ Runtimes
  BY DEF Inv, TypeInv
<1>2. \A p \in DOMAIN meta : meta[p].rev \in Nat /\ meta[p].mark.on \in BOOLEAN
  BY <1>1 DEF Sidecars, Meta, Mark
<1>3. \A c \in Controllers : cur[c] \in Slots /\ IsText(Log(c)) /\ path[c] \in DOMAIN file
  BY OfController DEF IsText
<1>4. {left.messages, left.rewinds, left.cancels, left.exits, left.ticks} \subseteq Nat
  BY <1>1 DEF Counts, Allowance
<1> QED BY <1>1, <1>2, <1>3, <1>4 DEF TypeOK, Files, Sidecars, Counts

\* Whatever the runtimes do, every transcript, log and sidecar is well formed,
\* a sidecar and a lock belong to a transcript that is there, and a runtime
\* saves to a path that has one (Session.save, save.go:130-250).
THEOREM TypeCorrect == Spec => []TypeOK
<1>1. Inv => TypeOK
  BY InvTypes
<1> QED BY <1>1, Invariance, PTL

\* The saves of any number of runtimes implement TranscriptStore: what the
\* check found under the lock still holds when the file is replaced, so a
\* transcript is only ever extended, replaced by a runtime that has seen it,
\* created, or put back on the recovery path named by it.
THEOREM SavesReplaceOnlyWhatTheySaw == Spec => SavesOwnWhatTheyReplace
<1>1. Init => Store!Init
  BY InitOK
<1>2. Inv /\ [Next]_vars => [Store!Next]_(Store!vars)
  BY StepOK DEF StoreStep
<1> QED BY <1>1, <1>2, Invariance, PTL DEF Spec, SavesOwnWhatTheyReplace, Store!Spec

\* As long as the three cases of NotDivergent stay away, a message that reached
\* a file stays in one until the user gives it up, whichever runtime saves,
\* adopts, rewinds, branches or exits at whatever step: a save that replaces a
\* text replaces one its own log still covers ("cannot hide a newer transcript
\* already on disk", save.go:117).
THEOREM SavedMessagesSurvive == Spec /\ []NotDivergent => []SavedMessageSurvives
<1>1. Kept => SavedMessageSurvives
  BY DEF Kept
<1> QED BY <1>1, KeptAlways, PTL

\* And what a turn has said is, when the runtime is at rest again or has ended,
\* in a file, or given up (snapshotActivityIfChanged, controller.go:2909-2916).
THEOREM NothingIsLost == Spec /\ []NotDivergent => []NothingSaidIsLost
<1>1. Inv /\ Kept => NothingSaidIsLost
  BY KeptSaid
<1> QED BY <1>1, KeptAlways, Invariance, PTL
=============================================================================
