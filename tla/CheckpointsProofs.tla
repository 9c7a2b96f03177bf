-------------------------- MODULE CheckpointsProofs --------------------------
(***************************************************************************)
(* Checkpoints and rewind for any workspace, log and number of turns.      *)
(* Type correctness holds without compactions, whose fold is a recursive   *)
(* selection.  That a rewind restores the workspace of the turn's start    *)
(* holds for a session that is alone with its turns (Undisturbed): the     *)
(* README shows how each of the rest breaks it.  Where no rewind leaves    *)
(* the system prompt only, conversations are cut at the turn as well, and  *)
(* the session keeps its file.                                             *)
(***************************************************************************)
EXTENDS Checkpoints, SequenceTheorems, FiniteSetTheorems, TLAPS

-----------------------------------------------------------------------------
(* Types.                                                                  *)

IsLog(l) == l \in Seq(Message) /\ Len(l) <= MaxLog

CkptOK(r, n) ==
  /\ DOMAIN r = {"index", "epoch", "files"}
  /\ r.index \in 0 .. MaxLog
  /\ r.epoch \in 1 .. n
  /\ DOMAIN r.files \subseteq Paths
  /\ \A p \in DOMAIN r.files : r.files[p] \in Content
StoreOK(d, n) == DOMAIN d \subseteq 0 .. n - 1 /\ \A t \in DOMAIN d : CkptOK(d[t], n)

Session == IsLog(log) /\ IsLog(savedLog) /\ branch \in Nat /\ marker \in {NoMarker} \cup Nat
Turn == phase \in Phase /\ start \in Nat /\ touching \in Paths \cup {NoPath}
Manager ==
  /\ next \in 0 .. epochs
  /\ DOMAIN bound \subseteq Nat /\ \A t \in DOMAIN bound : bound[t] \in 0 .. MaxLog
Store ==
  /\ current = NoTurn \/ current \in DOMAIN ckpts
  /\ StoreOK(ckpts, epochs) /\ StoreOK(disk, epochs) /\ DOMAIN ckpts \subseteq DOMAIN disk
Rewinding == rewind \in Rewinds /\ (rewind.step # "idle" => rewind.turn \in 0 .. epochs - 1)
Ghosts == epochs \in 0 .. MaxTurns /\ startFiles \in [1 .. epochs -> Workspace]

TypeInv ==
  files \in Workspace /\ Session /\ Turn /\ Manager /\ Store /\ Rewinding /\ Ghosts

-----------------------------------------------------------------------------
(* Data.                                                                   *)

\* A set of numbers has a least one: a descent of numbers would be a descent
\* of finite sets.
LEMMA LeastNumber ==
  ASSUME NEW T \in SUBSET Nat, T # {}
  PROVE  \E i \in T : \A j \in T : i <= j
<1> DEFINE Below(n) == 0 .. n - 1
           R == StrictSubsetOrdering(Nat)
           Sets == {Below(n) : n \in T}
<1>1. IsWellFoundedOn(R, FiniteSubsetsOf(Nat))
  BY FS_StrictSubsetOrderingWellFounded
<1>2. \A n \in Nat : Below(n) \in FiniteSubsetsOf(Nat)
  <2> TAKE n \in Nat
  <2>1. IsFiniteSet(0 .. n - 1)
    BY FS_Interval
  <2>2. 0 .. n - 1 \subseteq Nat
    BY SMT
  <2> QED BY <2>1, <2>2 DEF FiniteSubsetsOf
<1>3. Sets \subseteq FiniteSubsetsOf(Nat) /\ Sets # {}
  BY <1>2
<1>4. PICK X \in Sets : \A Y \in Sets : ~(<<Y, X>> \in R)
  <2> HIDE DEF Sets, R
  <2> QED BY <1>1, <1>3, WFMin
<1>5. PICK m \in T : X = Below(m)
  OBVIOUS
<1>6. ASSUME NEW n \in T, n < m
      PROVE  FALSE
  <2>1. Below(n) \subseteq Below(m) /\ Below(n) # Below(m)
    <3>1. Below(n) \subseteq Below(m)
      BY <1>6, SMT
    <3>2. n \in Below(m) /\ n \notin Below(n)
      BY <1>6, SMT
    <3> QED BY <3>1, <3>2
  <2>2. Below(n) \in SUBSET Nat /\ Below(m) \in SUBSET Nat
    BY <1>2 DEF FiniteSubsetsOf
  <2>3. <<Below(n), Below(m)>> \in R
    BY <2>1, <2>2 DEF StrictSubsetOrdering
  <2>4. Below(n) \in Sets
    OBVIOUS
  <2> QED BY <2>3, <2>4, <1>4, <1>5
<1>7. \A n \in T : m <= n
  BY <1>6, SMT
<1> QED BY <1>7

\* A bounded one has a greatest, which is the least distance from the bound.
LEMMA GreatestNumber ==
  ASSUME NEW n \in Nat, NEW T \in SUBSET (0 .. n), T # {}
  PROVE  \E i \in T : \A j \in T : j <= i
<1> DEFINE D == {n - i : i \in T}
<1>1. D \in SUBSET Nat /\ D # {}
  <2>1. \A i \in T : n - i \in Nat
    BY SMT
  <2> QED BY <2>1
<1>2. PICK k \in D : \A j \in D : k <= j
  <2> HIDE DEF D
  <2> QED BY <1>1, LeastNumber
<1>3. PICK i \in T : k = n - i
  OBVIOUS
<1>4. \A j \in T : j <= i
  BY <1>2, <1>3, SMT
<1> QED BY <1>4

LEMMA NextTurnFacts ==
  ASSUME NEW n \in Nat, NEW d, DOMAIN d \subseteq 0 .. n - 1
  PROVE  /\ NextTurn(d) \in 0 .. n
         /\ DOMAIN d = {} => NextTurn(d) = 0
         /\ \A k \in 1 .. n : DOMAIN d = 0 .. k - 1 => NextTurn(d) = k
<1>1. CASE DOMAIN d = {}
  <2>1. NextTurn(d) = 0
    BY <1>1 DEF NextTurn
  <2>2. \A k \in 1 .. n : 0 \in 0 .. k - 1
    BY SMT
  <2> QED BY <1>1, <2>1, <2>2, SMT
<1>2. CASE DOMAIN d # {}
  <2> DEFINE T == DOMAIN d
             top == CHOOSE t \in T : \A u \in T : u <= t
  <2>1. NextTurn(d) = 1 + top
    BY <1>2 DEF NextTurn
  <2> HIDE DEF T
  <2>2. T \in SUBSET (0 .. n) /\ T # {} /\ T \subseteq 0 .. n - 1
    BY <1>2, SMT DEF T
  <2>3. top \in T /\ \A u \in T : u <= top
    BY <2>2, GreatestNumber
  <2> HIDE DEF top
  <2>4. 1 + top \in 0 .. n
    BY <2>2, <2>3, SMT
  <2>5. \A k \in 1 .. n : T = 0 .. k - 1 => 1 + top = k
    BY <2>3, SMT
  <2> QED BY <1>2, <2>1, <2>4, <2>5 DEF T
<1> QED BY <1>1, <1>2

\* The first n messages of a log.
LEMMA CutLog ==
  ASSUME NEW l, IsLog(l), NEW n \in Nat, n <= Len(l)
  PROVE  /\ IsLog(SubSeq(l, 1, n)) /\ Len(SubSeq(l, 1, n)) = n
         /\ \A i \in 1 .. n : SubSeq(l, 1, n)[i] = l[i]
<1>1. l \in Seq(Message) /\ Len(l) \in Nat /\ Len(l) <= MaxLog /\ MaxLog \in Nat
  BY LenProperties, BoundsAssumption DEF IsLog
<1>2. \A i \in 1 .. n : l[i] \in Message
  BY <1>1, ElementOfSeq, SMT
<1>3. /\ SubSeq(l, 1, n) \in Seq(Message)
      /\ Len(SubSeq(l, 1, n)) = (IF 1 <= n THEN n - 1 + 1 ELSE 0)
      /\ \A i \in 1 .. n - 1 + 1 : SubSeq(l, 1, n)[i] = l[1 + i - 1]
  BY <1>2, SubSeqProperties
<1>4. Len(SubSeq(l, 1, n)) = n
  BY <1>3, SMT
<1>5. \A i \in 1 .. n : SubSeq(l, 1, n)[i] = l[i]
  BY <1>3, SMT
<1> QED BY <1>1, <1>3, <1>4, <1>5, SMT DEF IsLog

LEMMA LongerLog ==
  ASSUME NEW l, IsLog(l), Len(l) < MaxLog, NEW m \in Message
  PROVE  /\ IsLog(Append(l, m)) /\ Len(Append(l, m)) = Len(l) + 1
         /\ Append(l, m)[Len(l) + 1] = m
         /\ \A i \in 1 .. Len(l) : Append(l, m)[i] = l[i]
<1>1. l \in Seq(Message) /\ Len(l) \in Nat /\ MaxLog \in Nat
  BY LenProperties, BoundsAssumption DEF IsLog
<1>2. /\ Append(l, m) \in Seq(Message) /\ Len(Append(l, m)) = Len(l) + 1
      /\ Append(l, m)[Len(l) + 1] = m
      /\ \A i \in 1 .. Len(l) : Append(l, m)[i] = l[i]
  BY <1>1, AppendProperties
<1> QED BY <1>1, <1>2, SMT DEF IsLog

LEMMA LogLength ==
  ASSUME NEW l, IsLog(l)
  PROVE  Len(l) \in Nat /\ Len(l) \in 0 .. MaxLog /\ \A i \in 1 .. Len(l) : l[i] \in Message
<1>1. l \in Seq(Message) /\ Len(l) \in Nat /\ Len(l) <= MaxLog /\ MaxLog \in Nat
  BY LenProperties, BoundsAssumption DEF IsLog
<1>2. \A i \in 1 .. Len(l) : l[i] \in Message
  BY <1>1, ElementOfSeq
<1> QED BY <1>1, <1>2, SMT

\* What Strip leaves: all of a short log; else the first n messages and the
\* first prompt behind them, if any.
LEMMA StripFacts ==
  ASSUME NEW l, IsLog(l), NEW n \in Nat
  PROVE  /\ IsLog(Strip(l, n))
         /\ Len(l) <= n => Strip(l, n) = l
         /\ n < Len(l) =>
              /\ Len(Strip(l, n)) \in {n, n + 1}
              /\ \A i \in 1 .. n : Strip(l, n)[i] = l[i]
              /\ Len(Strip(l, n)) = n + 1 =>
                   \E j \in Prompts(l, n) : Strip(l, n)[n + 1] = l[j]
<1>0. Len(l) \in Nat /\ \A i \in 1 .. Len(l) : l[i] \in Message
  BY LogLength
<1>1. CASE Len(l) <= n
  <2>1. Strip(l, n) = l
    BY <1>1 DEF Strip
  <2> QED BY <1>0, <1>1, <2>1, SMT
<1>2. CASE n < Len(l) /\ Prompts(l, n) = {}
  <2>1. Strip(l, n) = SubSeq(l, 1, n)
    BY <1>0, <1>2, SMT DEF Strip
  <2>2. /\ IsLog(SubSeq(l, 1, n)) /\ Len(SubSeq(l, 1, n)) = n
        /\ \A i \in 1 .. n : SubSeq(l, 1, n)[i] = l[i]
    BY <1>0, <1>2, CutLog, SMT
  <2> HIDE DEF Strip
  <2>3. ~(Len(l) <= n) /\ n # n + 1
    BY <1>0, <1>2, SMT
  <2> QED BY <2>1, <2>2, <2>3
<1>3. CASE n < Len(l) /\ Prompts(l, n) # {}
  <2> DEFINE T == Prompts(l, n)
             i == CHOOSE i \in T : \A j \in T : i <= j
             s == SubSeq(l, 1, n)
  <2>1. Strip(l, n) = Append(s, l[i])
    BY <1>0, <1>3, SMT DEF Strip
  <2>2. T \in SUBSET Nat /\ T \subseteq 1 .. Len(l)
    BY <1>0, SMT DEF Prompts
  <2>3. i \in T
    <3> HIDE DEF T
    <3>1. T # {}
      BY <1>3 DEF T
    <3> QED BY <2>2, <3>1, LeastNumber
  <2> HIDE DEF i, T
  <2>4. l[i] \in Message
    BY <1>0, <2>2, <2>3
  <2>5. IsLog(s) /\ Len(s) = n /\ \A k \in 1 .. n : s[k] = l[k]
    BY <1>0, <1>3, CutLog, SMT
  <2> HIDE DEF s
  <2>6. Len(s) < MaxLog
    BY <1>0, <1>3, <2>5, BoundsAssumption, SMT DEF IsLog
  <2>7. /\ IsLog(Append(s, l[i])) /\ Len(Append(s, l[i])) = n + 1
        /\ Append(s, l[i])[n + 1] = l[i]
        /\ \A k \in 1 .. n : Append(s, l[i])[k] = l[k]
    BY <2>4, <2>5, <2>6, LongerLog
  <2>8. ~(Len(l) <= n)
    BY <1>0, <1>3, SMT
  <2> QED BY <2>1, <2>3, <2>7, <2>8 DEF T
<1> QED BY <1>0, <1>1, <1>2, <1>3, SMT

LEMMA MessageOK ==
  ASSUME epochs \in 0 .. MaxTurns, NEW role \in Role
  PROVE  [epoch |-> epochs, role |-> role] \in Message
BY DEF Message

-----------------------------------------------------------------------------
(* Types: the parts of a step.                                             *)

LEMMA SessionSame ==
  ASSUME Session, UNCHANGED sessionVars
  PROVE  Session'
BY DEF Session, sessionVars

LEMMA TurnSame ==
  ASSUME Turn, UNCHANGED turnVars
  PROVE  Turn'
BY DEF Turn, turnVars

LEMMA StoreSame ==
  ASSUME Manager, Store, UNCHANGED <<managerVars, storeVars, epochs>>
  PROVE  Manager' /\ Store'
BY DEF Manager, Store, managerVars, storeVars

LEMMA RewindingSame ==
  ASSUME Rewinding, UNCHANGED <<rewind, epochs>>
  PROVE  Rewinding'
BY DEF Rewinding

LEMMA GhostsSame ==
  ASSUME Ghosts, UNCHANGED ghostVars
  PROVE  Ghosts'
BY DEF Ghosts, ghostVars

LEMMA RebindOK ==
  ASSUME epochs \in Nat, NEW d, StoreOK(d, epochs), Rebind(d), epochs' = epochs
  PROVE  Manager' /\ Store'
<1>1. /\ next' = NextTurn(d) /\ bound' = Bounds(d) /\ current' = NoTurn
      /\ ckpts' = d /\ disk' = d
  BY DEF Rebind
<1>2. DOMAIN d \subseteq 0 .. epochs - 1 /\ \A t \in DOMAIN d : d[t].index \in 0 .. MaxLog
  BY DEF StoreOK, CkptOK
<1>3. next' \in 0 .. epochs
  BY <1>1, <1>2, NextTurnFacts
<1>4. DOMAIN bound' \subseteq Nat /\ \A t \in DOMAIN bound' : bound'[t] \in 0 .. MaxLog
  <2>1. DOMAIN bound' = DOMAIN d /\ \A t \in DOMAIN d : bound'[t] = d[t].index
    BY <1>1 DEF Bounds
  <2>2. DOMAIN d \subseteq Nat
    BY <1>2, SMT
  <2> QED BY <1>2, <2>1, <2>2
<1> QED BY <1>1, <1>3, <1>4 DEF Manager, Store

LEMMA EmptyStoreOK ==
  ASSUME NEW n
  PROVE  StoreOK(<<>>, n) /\ DOMAIN <<>> = {}
BY DEF StoreOK

\* Whatever a save comes to.
LEMMA SaveOK ==
  ASSUME Session, Manager, Store, epochs \in Nat, NEW l, IsLog(l), NEW rewrite,
         Save(l, rewrite), epochs' = epochs
  PROVE  Session' /\ Manager' /\ Store'
<1>1. CASE log' = l /\ UNCHANGED <<savedLog, branch, marker, managerVars, storeVars>>
  <2>1. Session'
    BY <1>1 DEF Session
  <2> QED BY <1>1, <2>1, StoreSame
<1>2. CASE log' = l /\ savedLog' = l /\ UNCHANGED <<branch, marker, managerVars, storeVars>>
  <2>1. Session'
    BY <1>2 DEF Session
  <2> QED BY <1>2, <2>1, StoreSame
<1>3. CASE log' = savedLog /\ Rebind(disk) /\ UNCHANGED <<savedLog, branch, marker>>
  <2>1. Session'
    BY <1>3 DEF Session
  <2> QED BY <1>3, <2>1, RebindOK DEF Store
<1>4. CASE log' = l /\ savedLog' = l /\ branch' = branch + 1 /\ marker' = NoMarker /\ Rebind(<<>>)
  <2>1. Session'
    BY <1>4, SMT DEF Session
  <2> QED BY <1>4, <2>1, RebindOK, EmptyStoreOK
<1> QED BY <1>1, <1>2, <1>3, <1>4 DEF Save

LEMMA StoreGrows ==
  ASSUME NEW n \in Nat, NEW m \in Nat, n <= m, NEW d, StoreOK(d, n)
  PROVE  StoreOK(d, m)
<1>1. 0 .. n - 1 \subseteq 0 .. m - 1 /\ 1 .. n \subseteq 1 .. m
  BY SMT
<1> QED BY <1>1 DEF StoreOK, CkptOK

LEMMA RestoredOK ==
  ASSUME TypeInv, NEW t
  PROVE  Restored(ckpts, t) \in Workspace
<1>1. StoreOK(ckpts, epochs) /\ files \in Workspace
  BY DEF TypeInv, Store
<1>2. ASSUME NEW p \in Paths
      PROVE  Restored(ckpts, t)[p] \in Content
  <2> DEFINE T == Touched(ckpts, p, t)
             u == CHOOSE u \in T : \A w \in T : u <= w
  <2>1. Restored(ckpts, t)[p] = IF T = {} THEN files[p] ELSE ckpts[u].files[p]
    BY DEF Restored
  <2>2. T \in SUBSET Nat
    BY <1>1, SMT DEF StoreOK, Touched
  <2>3. CASE T = {}
    BY <1>1, <2>1, <2>3 DEF Workspace
  <2>4. CASE T # {}
    <3>1. u \in T
      <4> HIDE DEF T
      <4> QED BY <2>2, <2>4, LeastNumber
    <3>2. u \in DOMAIN ckpts /\ p \in DOMAIN ckpts[u].files
      <4> HIDE DEF u
      <4> QED BY <3>1 DEF Touched
    <3> HIDE DEF u, T
    <3> QED BY <1>1, <2>1, <2>4, <3>2 DEF StoreOK, CkptOK
  <2> QED BY <2>3, <2>4
<1>3. Restored(ckpts, t) = [p \in Paths |-> Restored(ckpts, t)[p]]
  BY DEF Restored
<1> HIDE DEF Restored
<1> QED BY <1>2, <1>3 DEF Workspace

LEMMA NewStart ==
  ASSUME Ghosts, NEW x \in Workspace, epochs < MaxTurns, epochs' = epochs + 1,
         startFiles' = Append(startFiles, x)
  PROVE  /\ Ghosts' /\ startFiles'[epochs'] = x
         /\ \A e \in 1 .. epochs : startFiles'[e] = startFiles[e]
<1>1. epochs \in Nat /\ epochs' \in 0 .. MaxTurns /\ MaxTurns \in Nat
  BY BoundsAssumption, SMT DEF Ghosts
<1>2. startFiles \in Seq(Workspace) /\ Len(startFiles) = epochs
  <2>1. startFiles \in [1 .. epochs -> Workspace]
    BY DEF Ghosts
  <2>2. startFiles \in Seq(Workspace)
    BY <1>1, <2>1, SeqDef
  <2>3. DOMAIN startFiles = 1 .. Len(startFiles) /\ Len(startFiles) \in Nat
    BY <2>2, LenProperties
  <2>4. DOMAIN startFiles = 1 .. epochs
    BY <2>1
  <2>5. ASSUME NEW a \in Nat, NEW b \in Nat, 1 .. a = 1 .. b
        PROVE  a = b
    <3>1. a >= 1 => a \in 1 .. b
      BY <2>5, SMT
    <3>2. b >= 1 => b \in 1 .. a
      BY <2>5, SMT
    <3> QED BY <3>1, <3>2, SMT
  <2> QED BY <1>1, <2>2, <2>3, <2>4, <2>5
<1>3. /\ Append(startFiles, x) \in Seq(Workspace) /\ Len(Append(startFiles, x)) = epochs + 1
      /\ Append(startFiles, x)[epochs + 1] = x
      /\ \A e \in 1 .. epochs : Append(startFiles, x)[e] = startFiles[e]
  BY <1>2, AppendProperties
<1>4. startFiles' \in [1 .. epochs' -> Workspace]
  BY <1>3, LenProperties
<1> QED BY <1>1, <1>3, <1>4 DEF Ghosts

-----------------------------------------------------------------------------
(* Types: every action.                                                    *)

LEMMA Typed ==
  ASSUME TypeInv
  PROVE  /\ files \in Workspace /\ Session /\ Turn /\ Manager /\ Store /\ Rewinding /\ Ghosts
         /\ epochs \in Nat /\ epochs \in 0 .. MaxTurns /\ IsLog(log) /\ IsLog(savedLog)
BY BoundsAssumption, SMT DEF TypeInv, Session, Ghosts

LEMMA BeginTurnTypes ==
  ASSUME TypeInv, BeginTurn
  PROVE  TypeInv'
<1> DEFINE m == Len(log)
           r == [index |-> m, epoch |-> epochs + 1, files |-> <<>>]
<1>1. /\ files \in Workspace /\ Session /\ Turn /\ Manager /\ Store /\ Rewinding /\ Ghosts
      /\ epochs \in Nat
  BY Typed
<1>2. /\ epochs < MaxTurns /\ epochs' = epochs + 1 /\ startFiles' = Append(startFiles, files)
      /\ phase' = "asked" /\ start' = m /\ next' = next + 1 /\ bound' = Put(bound, next, m)
      /\ current' = next /\ ckpts' = Put(ckpts, next, r) /\ disk' = Put(disk, next, ckpts'[next])
      /\ UNCHANGED <<files, touching, sessionVars, rewind>>
  BY DEF BeginTurn, StartMessages
<1>3. m \in Nat /\ m \in 0 .. MaxLog
  BY <1>1, LogLength DEF Session
<1>4. Session' /\ files' \in Workspace
  BY <1>1, <1>2, SessionSame
<1>5. Turn'
  BY <1>1, <1>2, <1>3 DEF Turn, Phase
<1>6. Ghosts'
  BY <1>1, <1>2, NewStart
<1>7. next \in 0 .. epochs /\ next' \in 0 .. epochs' /\ epochs' \in Nat /\ epochs <= epochs'
      /\ next \in 0 .. epochs' - 1
  BY <1>1, <1>2, SMT DEF Manager
<1>8. Manager'
  <2> HIDE DEF m
  <2>1. /\ DOMAIN bound' = DOMAIN bound \cup {next} /\ bound'[next] = m
        /\ \A t \in DOMAIN bound : t # next => bound'[t] = bound[t]
    BY <1>2 DEF Put
  <2>2. next \in Nat
    BY <1>7, SMT
  <2> QED BY <1>1, <1>3, <1>7, <2>1, <2>2 DEF Manager
<1>9. CkptOK(r, epochs')
  <2>1. r.index = m /\ r.epoch = epochs + 1 /\ r.files = <<>> /\ DOMAIN r = {"index", "epoch", "files"}
    BY SMT
  <2> HIDE DEF r, m
  <2>2. epochs + 1 \in 1 .. epochs'
    BY <1>1, <1>2, SMT
  <2> QED BY <1>3, <2>1, <2>2, EmptyStoreOK DEF CkptOK
<1> HIDE DEF r, m
<1>10. ASSUME NEW d, StoreOK(d, epochs)
       PROVE  StoreOK(Put(d, next, r), epochs')
  <2>1. StoreOK(d, epochs')
    BY <1>1, <1>7, <1>10, StoreGrows
  <2>2. /\ DOMAIN Put(d, next, r) = DOMAIN d \cup {next} /\ Put(d, next, r)[next] = r
        /\ \A t \in DOMAIN d : t # next => Put(d, next, r)[t] = d[t]
    BY DEF Put
  <2> QED BY <1>7, <1>9, <2>1, <2>2 DEF StoreOK
<1>11. Store'
  <2>1. ckpts'[next] = r /\ next \in DOMAIN ckpts'
    BY <1>2 DEF Put
  <2>2. DOMAIN ckpts' \subseteq DOMAIN disk'
    BY <1>1, <1>2 DEF Put, Store
  <2> QED BY <1>1, <1>2, <1>10, <2>1, <2>2 DEF Store
<1>12. Rewinding'
  <2>1. ASSUME NEW a \in Nat, NEW b \in Nat, a <= b
        PROVE  0 .. a - 1 \subseteq 0 .. b - 1
    BY <2>1, SMT
  <2>2. 0 .. epochs - 1 \subseteq 0 .. epochs' - 1
    BY <1>1, <1>7, <2>1
  <2> QED BY <1>1, <1>2, <2>2 DEF Rewinding
<1> QED BY <1>4, <1>5, <1>6, <1>8, <1>11, <1>12 DEF TypeInv

LEMMA PreEditStore ==
  ASSUME TypeInv, NEW p \in Paths, PreEdit(p), KeepsSnapshot(p)
  PROVE  /\ current \in DOMAIN ckpts
         /\ DOMAIN ckpts' = DOMAIN ckpts
         /\ \A t \in DOMAIN ckpts : t # current => ckpts'[t] = ckpts[t]
         /\ DOMAIN ckpts'[current] = {"index", "epoch", "files"}
         /\ ckpts'[current].index = ckpts[current].index
         /\ ckpts'[current].epoch = ckpts[current].epoch
         /\ ckpts'[current].files = Put(ckpts[current].files, p, files[p])
         /\ disk' = Put(disk, current, ckpts'[current])
<1> DEFINE f == Put(ckpts[current].files, p, files[p])
           r == [ckpts[current] EXCEPT !.files = f]
<1>1. current \in DOMAIN ckpts /\ CkptOK(ckpts[current], epochs)
  BY DEF TypeInv, Store, StoreOK, KeepsSnapshot
<1>2. /\ ckpts' = [ckpts EXCEPT ![current].files = Put(@, p, files[p])]
      /\ disk' = Put(disk, current, ckpts'[current])
  BY DEF PreEdit
<1>3. ckpts' = [ckpts EXCEPT ![current] = r]
  BY <1>2, Zenon
<1>4. DOMAIN ckpts[current] = {"index", "epoch", "files"}
  BY <1>1 DEF CkptOK
<1>5. /\ DOMAIN r = {"index", "epoch", "files"} /\ r.index = ckpts[current].index
      /\ r.epoch = ckpts[current].epoch /\ r.files = f
  <2> HIDE DEF f
  <2> QED BY <1>4, SMT
<1> HIDE DEF r
<1>6. /\ DOMAIN ckpts' = DOMAIN ckpts /\ ckpts'[current] = r
      /\ \A t \in DOMAIN ckpts : t # current => ckpts'[t] = ckpts[t]
  BY <1>1, <1>3
<1> QED BY <1>1, <1>2, <1>5, <1>6

LEMMA PreEditTypes ==
  ASSUME TypeInv, NEW p \in Paths, PreEdit(p)
  PROVE  TypeInv'
<1>1. /\ files \in Workspace /\ Session /\ Turn /\ Manager /\ Store /\ Rewinding /\ Ghosts
  BY Typed
<1>2. touching' = p /\ UNCHANGED <<files, sessionVars, phase, start, managerVars, current, rewind, ghostVars>>
  BY DEF PreEdit
<1>3. Session' /\ Turn' /\ Rewinding' /\ Ghosts' /\ files' \in Workspace
  BY <1>1, <1>2, SessionSame, RewindingSame, GhostsSame DEF Turn, ghostVars
<1>4. Manager'
  BY <1>1, <1>2 DEF Manager, managerVars, ghostVars
<1>5. CASE KeepsSnapshot(p)
  <2> DEFINE r == ckpts'[current]
             f == ckpts[current].files
  <2>1. /\ current \in DOMAIN ckpts /\ DOMAIN ckpts' = DOMAIN ckpts
        /\ \A t \in DOMAIN ckpts : t # current => ckpts'[t] = ckpts[t]
        /\ DOMAIN r = {"index", "epoch", "files"} /\ r.index = ckpts[current].index
        /\ r.epoch = ckpts[current].epoch /\ r.files = Put(f, p, files[p])
        /\ disk' = Put(disk, current, r)
    BY <1>5, PreEditStore
  <2>2. files[p] \in Content
    BY <1>1 DEF Workspace
  <2>3. /\ DOMAIN Put(f, p, files[p]) = DOMAIN f \cup {p} /\ Put(f, p, files[p])[p] = files[p]
        /\ \A x \in DOMAIN f : x # p => Put(f, p, files[p])[x] = f[x]
    BY DEF Put
  <2>4. CkptOK(ckpts[current], epochs)
    BY <1>1, <2>1 DEF Store, StoreOK
  <2>5. CkptOK(r, epochs)
    <3> HIDE DEF r
    <3> QED BY <2>1, <2>2, <2>3, <2>4 DEF CkptOK
  <2> HIDE DEF r, f
  <2>6. StoreOK(ckpts', epochs)
    BY <1>1, <2>1, <2>5 DEF Store, StoreOK, r
  <2>7. StoreOK(disk', epochs) /\ DOMAIN ckpts' \subseteq DOMAIN disk'
    <3>1. /\ DOMAIN disk' = DOMAIN disk \cup {current} /\ disk'[current] = r
          /\ \A t \in DOMAIN disk : t # current => disk'[t] = disk[t]
      BY <2>1 DEF Put
    <3> QED BY <1>1, <2>1, <2>5, <3>1 DEF Store, StoreOK
  <2>8. Store'
    BY <1>1, <1>2, <2>1, <2>6, <2>7 DEF Store, ghostVars
  <2> QED BY <1>3, <1>4, <2>8 DEF TypeInv
<1>6. CASE ~KeepsSnapshot(p)
  <2>1. UNCHANGED <<ckpts, disk>>
    BY <1>6 DEF PreEdit
  <2>2. Store'
    BY <1>1, <1>2, <2>1 DEF Store, ghostVars
  <2> QED BY <1>3, <1>4, <2>2 DEF TypeInv
<1> QED BY <1>5, <1>6

\* The steps of a turn that leave the store alone.
LEMMA TurnStepTypes ==
  ASSUME TypeInv, \/ Blocked \/ Ask \/ Work \/ Finish \/ Cancel
                  \/ \E c \in Content : Edit(c)
  PROVE  TypeInv'
<1>1. /\ files \in Workspace /\ Session /\ Turn /\ Manager /\ Store /\ Rewinding /\ Ghosts
      /\ IsLog(log) /\ IsLog(savedLog) /\ epochs \in 0 .. MaxTurns
  BY Typed
<1>2. UNCHANGED <<managerVars, storeVars, rewind, ghostVars>>
  BY DEF Blocked, Ask, Work, Finish, Cancel, Edit
<1>3. Manager' /\ Store' /\ Rewinding' /\ Ghosts'
  BY <1>1, <1>2, StoreSame, RewindingSame, GhostsSame DEF ghostVars
<1>4. ASSUME NEW role \in Role, Append1(role)
      PROVE  IsLog(log')
  BY <1>1, <1>4, MessageOK, LongerLog DEF Append1
<1>5. CASE Blocked
  BY <1>1, <1>3, <1>5, SessionSame DEF TypeInv, Turn, Phase, Blocked
<1>6. CASE Ask
  <2>1. Session'
    BY <1>1, <1>4, <1>6 DEF Session, Turn, Ask, Role
  <2> QED BY <1>1, <1>3, <1>6, <2>1 DEF TypeInv, Turn, Phase, Ask
<1>7. CASE Work
  <2>1. Session'
    BY <1>1, <1>4, <1>7 DEF Session, Work, Role
  <2> QED BY <1>1, <1>3, <1>7, <2>1, TurnSame DEF TypeInv, Work
<1>8. CASE Finish
  <2>1. Session'
    BY <1>1, <1>8 DEF Session, Finish
  <2> QED BY <1>1, <1>3, <1>8, <2>1 DEF TypeInv, Turn, Phase, Finish
<1>9. CASE Cancel
  <2>1. IsLog(Strip(log, start))
    BY <1>1, StripFacts DEF Turn
  <2>2. Session'
    BY <1>1, <1>9, <2>1 DEF Session, Cancel
  <2> QED BY <1>1, <1>3, <1>9, <2>2 DEF TypeInv, Turn, Phase, Cancel
<1>10. CASE \E c \in Content : Edit(c)
  <2>1. PICK c \in Content : Edit(c)
    BY <1>10
  <2>2. files' \in Workspace
    BY <1>1, <2>1 DEF Edit, Workspace
  <2>3. Session'
    BY <1>1, <2>1, SessionSame DEF Edit
  <2> QED BY <1>1, <1>3, <2>1, <2>2, <2>3 DEF TypeInv, Turn, Edit
<1> QED BY <1>5, <1>6, <1>7, <1>8, <1>9, <1>10

\* The saves of the log as it is.
LEMMA SaveStepTypes ==
  ASSUME TypeInv, Autosave \/ EndTurn \/ RewindSave
  PROVE  TypeInv'
<1>1. /\ files \in Workspace /\ Session /\ Turn /\ Manager /\ Store /\ Rewinding /\ Ghosts
      /\ IsLog(log) /\ epochs \in Nat
  BY Typed
<1>2. UNCHANGED <<files, start, touching, ghostVars, epochs>>
  BY DEF Autosave, EndTurn, RewindSave, turnVars, ghostVars
<1>3. Session' /\ Manager' /\ Store'
  <2>1. CASE Save(log, FALSE) \/ Save(log, TRUE)
    BY <1>1, <1>2, <2>1, SaveOK
  <2>2. CASE UNCHANGED <<sessionVars, managerVars, storeVars>>
    BY <1>1, <1>2, <2>2, SessionSame, StoreSame
  <2> QED BY <2>1, <2>2 DEF Autosave, EndTurn, RewindSave
<1>4. Turn' /\ Rewinding' /\ Ghosts'
  <2>1. Ghosts'
    BY <1>1, <1>2, GhostsSame
  <2>2. Turn'
    BY <1>1, <1>2 DEF Turn, Phase, Autosave, EndTurn, RewindSave, turnVars
  <2>3. Rewinding'
    <3>1. Idle \in Rewinds /\ Idle.step = "idle"
      BY SMT DEF Idle, Rewinds, NoTurn, NoBoundary
    <3> QED BY <1>1, <1>2, <3>1 DEF Rewinding, Autosave, EndTurn, RewindSave
  <2> QED BY <2>1, <2>2, <2>3
<1> QED BY <1>1, <1>2, <1>3, <1>4 DEF TypeInv

\* What a summary leaves: the prefix and a digest, or a digest and the rest.
LEMMA SummaryOK ==
  ASSUME NEW l, IsLog(l), NEW b \in Nat
  PROVE  IsLog(SummarizedFrom(l, b)) /\ IsLog(SummarizedUpTo(l, b))
<1>1. /\ l \in Seq(Message) /\ Len(l) \in Nat /\ Len(l) <= MaxLog /\ MaxLog \in Nat
      /\ \A i \in 1 .. Len(l) : l[i] \in Message
  BY LogLength, BoundsAssumption DEF IsLog
<1>2. ASSUME NEW k, IsLog(k), Len(k) >= 1
      PROVE  Digest(k) \in Message
  <2>1. Len(k) \in 1 .. Len(k) /\ \A i \in 1 .. Len(k) : k[i] \in Message
    BY <1>2, LogLength, SMT
  <2> QED BY <2>1 DEF Digest, Message, Role
<1>3. IsLog(SummarizedFrom(l, b))
  <2>1. CASE b >= Len(l)
    BY <2>1 DEF SummarizedFrom
  <2>2. CASE ~(b >= Len(l))
    <3>1. b <= Len(l) /\ Len(l) >= 1
      BY <1>1, <2>2, SMT
    <3>2. IsLog(SubSeq(l, 1, b)) /\ Len(SubSeq(l, 1, b)) = b
      BY <3>1, CutLog
    <3>3. Len(SubSeq(l, 1, b)) < MaxLog
      BY <1>1, <2>2, <3>2, SMT
    <3>4. Digest(l) \in Message
      BY <1>2, <3>1
    <3>5. IsLog(Append(SubSeq(l, 1, b), Digest(l)))
      BY <3>2, <3>3, <3>4, LongerLog
    <3> QED BY <2>2, <3>5 DEF SummarizedFrom
  <2> QED BY <2>1, <2>2
<1>4. IsLog(SummarizedUpTo(l, b))
  <2>1. CASE b <= 1 \/ b > Len(l)
    BY <2>1 DEF SummarizedUpTo
  <2>2. CASE ~(b <= 1 \/ b > Len(l))
    <3> DEFINE head == <<l[1], Digest(SubSeq(l, 1, b))>>
               rest == SubSeq(l, b + 1, Len(l))
    <3>1. b <= Len(l) /\ b >= 2 /\ 1 \in 1 .. Len(l)
      BY <1>1, <2>2, SMT
    <3>2. IsLog(SubSeq(l, 1, b)) /\ Len(SubSeq(l, 1, b)) = b
      BY <3>1, CutLog
    <3>3. Digest(SubSeq(l, 1, b)) \in Message
      <4>1. Len(SubSeq(l, 1, b)) >= 1
        BY <3>1, <3>2, SMT
      <4> QED BY <1>2, <3>2, <4>1
    <3>4. head \in Seq(Message) /\ Len(head) = 2
      BY <1>1, <3>1, <3>3
    <3>5. /\ rest \in Seq(Message)
          /\ Len(rest) = (IF b + 1 <= Len(l) THEN Len(l) - (b + 1) + 1 ELSE 0)
      <4>1. \A i \in b + 1 .. Len(l) : l[i] \in Message
        BY <1>1, SMT
      <4> QED BY <1>1, <4>1, SubSeqProperties
    <3> HIDE DEF head, rest
    <3>6. head \o rest \in Seq(Message) /\ Len(head \o rest) = Len(head) + Len(rest)
      BY <3>4, <3>5, ConcatProperties
    <3>7. Len(head \o rest) <= MaxLog
      BY <1>1, <3>1, <3>4, <3>5, <3>6, SMT
    <3> QED BY <2>2, <3>6, <3>7 DEF SummarizedUpTo, IsLog, head, rest
  <2> QED BY <2>1, <2>2
<1> QED BY <1>3, <1>4

LEMMA SummarizeTypes ==
  ASSUME TypeInv, NEW t, Summarize(t)
  PROVE  TypeInv'
<1>1. /\ files \in Workspace /\ Session /\ Turn /\ Manager /\ Store /\ Rewinding /\ Ghosts
      /\ IsLog(log) /\ IsLog(savedLog)
  BY Typed
<1>2. /\ t \in DOMAIN bound /\ bound' = <<>>
      /\ log' \in {SummarizedFrom(log, bound[t]), SummarizedUpTo(log, bound[t])}
      /\ savedLog' = log' \/ savedLog' = savedLog
      /\ UNCHANGED <<files, branch, marker, turnVars, next, storeVars, rewind, ghostVars, epochs>>
  BY DEF Summarize, ghostVars
<1>3. bound[t] \in Nat
  BY <1>1, <1>2, BoundsAssumption, SMT DEF Manager
<1>4. IsLog(log')
  BY <1>1, <1>2, <1>3, SummaryOK
<1>5. Session'
  BY <1>1, <1>2, <1>4 DEF Session
<1>6. Manager'
  <2>1. DOMAIN bound' = {}
    BY <1>2
  <2> QED BY <1>1, <1>2, <2>1 DEF Manager
<1>7. Store'
  BY <1>1, <1>2 DEF Store, storeVars
<1>8. Turn' /\ Rewinding' /\ Ghosts'
  BY <1>1, <1>2, TurnSame, RewindingSame, GhostsSame
<1> QED BY <1>1, <1>2, <1>5, <1>6, <1>7, <1>8 DEF TypeInv

LEMMA ForkTypes ==
  ASSUME TypeInv, NEW t, Fork(t)
  PROVE  TypeInv'
<1>1. /\ files \in Workspace /\ Session /\ Turn /\ Manager /\ Store /\ Rewinding /\ Ghosts
      /\ IsLog(log) /\ IsLog(savedLog) /\ epochs \in Nat
  BY Typed
<1> DEFINE src == IF Behind THEN savedLog ELSE log
           n == IF bound[t] > Len(src) THEN Len(src) ELSE bound[t]
<1>2. /\ t \in DOMAIN bound /\ log' = SubSeq(src, 1, n) /\ savedLog' = log'
      /\ branch' = branch \/ branch' = branch + 1
      /\ marker' = NoMarker /\ Rebind(<<>>)
      /\ UNCHANGED <<files, turnVars, rewind, ghostVars, epochs>>
  BY DEF Fork, ghostVars
<1>3. IsLog(src)
  BY <1>1
<1> HIDE DEF src
<1>4. n \in Nat /\ n <= Len(src)
  <2>1. Len(src) \in Nat /\ bound[t] \in Nat
    BY <1>1, <1>2, <1>3, LogLength, BoundsAssumption, SMT DEF Manager
  <2> QED BY <2>1, SMT
<1> HIDE DEF n
<1>5. IsLog(log')
  BY <1>2, <1>3, <1>4, CutLog
<1>6. branch' \in Nat
  BY <1>1, <1>2, SMT DEF Session
<1>7. Session'
  BY <1>2, <1>5, <1>6 DEF Session
<1>8. Manager' /\ Store'
  BY <1>1, <1>2, RebindOK, EmptyStoreOK
<1>9. Turn' /\ Rewinding' /\ Ghosts'
  BY <1>1, <1>2, TurnSame, RewindingSame, GhostsSame
<1> QED BY <1>1, <1>2, <1>7, <1>8, <1>9 DEF TypeInv

LEMMA ForkSessionTypes ==
  ASSUME TypeInv, NEW t, ForkSession(t)
  PROVE  TypeInv'
<1>1. /\ files \in Workspace /\ Session /\ Turn /\ Manager /\ Store /\ Rewinding /\ Ghosts
      /\ IsLog(log) /\ epochs \in Nat
  BY Typed
<1>2. Save(log, FALSE) /\ UNCHANGED <<files, turnVars, rewind, ghostVars, epochs>>
  BY DEF ForkSession, ghostVars
<1>3. Session' /\ Manager' /\ Store'
  BY <1>1, <1>2, SaveOK
<1>4. Turn' /\ Rewinding' /\ Ghosts'
  BY <1>1, <1>2, TurnSame, RewindingSame, GhostsSame
<1> QED BY <1>1, <1>2, <1>3, <1>4 DEF TypeInv

LEMMA UnknownTypes ==
  ASSUME TypeInv, NEW t, NEW scope, RewindUnknown(t, scope)
  PROVE  TypeInv'
<1>1. /\ files \in Workspace /\ Session /\ Turn /\ Manager /\ Store /\ Rewinding /\ Ghosts
  BY Typed
<1>2. /\ files' \in {files, Restored(ckpts, t)}
      /\ UNCHANGED <<sessionVars, turnVars, managerVars, storeVars, rewind, ghostVars, epochs>>
  BY DEF RewindUnknown, ghostVars
<1>3. files' \in Workspace
  BY <1>1, <1>2, RestoredOK
<1>4. Session' /\ Turn' /\ Manager' /\ Store' /\ Rewinding' /\ Ghosts'
  BY <1>1, <1>2, SessionSame, TurnSame, StoreSame, RewindingSame, GhostsSame
<1> QED BY <1>3, <1>4 DEF TypeInv

LEMMA IdleRewind ==
  Idle \in Rewinds /\ Idle.step = "idle"
BY SMT DEF Idle, Rewinds, NoTurn, NoBoundary

\* The steps of a rewind before the truncation.
LEMMA RewindStepTypes ==
  ASSUME TypeInv, \/ \E t \in Targets, scope \in Scopes : RewindCheck(t, scope)
                  \/ RewindCode \/ RewindUnavailable \/ RewindCut
  PROVE  TypeInv'
<1>1. /\ files \in Workspace /\ Session /\ Turn /\ Manager /\ Store /\ Rewinding /\ Ghosts
      /\ IsLog(log) /\ epochs \in Nat
  BY Typed
<1>2. UNCHANGED <<savedLog, branch, marker, turnVars, managerVars, storeVars, ghostVars, epochs>>
  BY DEF RewindCheck, RewindCode, RewindUnavailable, RewindCut, sessionVars, ghostVars
<1>3. Turn' /\ Manager' /\ Store' /\ Ghosts'
  BY <1>1, <1>2, TurnSame, StoreSame, GhostsSame
<1>4. ASSUME NEW s \in {"restored", "cut", "truncated"}, rewind.step # "idle",
             rewind' = [rewind EXCEPT !.step = s]
      PROVE  Rewinding'
  <2>1. rewind' \in Rewinds /\ rewind'.turn = rewind.turn
    BY <1>1, <1>4, SMT DEF Rewinding, Rewinds
  <2> QED BY <1>1, <1>2, <1>4, <2>1 DEF Rewinding
<1>5. rewind' = Idle => Rewinding'
  BY IdleRewind DEF Rewinding
<1>6. CASE \E t \in Targets, scope \in Scopes : RewindCheck(t, scope)
  <2>1. PICK t \in Targets, scope \in Scopes : RewindCheck(t, scope)
    BY <1>6
  <2> DEFINE b == IF t \in DOMAIN bound THEN bound[t] ELSE NoBoundary
  <2>2. /\ t \in DOMAIN ckpts /\ UNCHANGED <<files, sessionVars>>
        /\ rewind' = [step |-> "checked", turn |-> t, scope |-> scope, boundary |-> b]
    BY <2>1 DEF RewindCheck
  <2>3. t \in 0 .. epochs - 1 /\ t \in Nat
    BY <1>1, <2>2, SMT DEF Store, StoreOK
  <2>4. b \in {NoBoundary} \cup Nat
    BY <1>1, BoundsAssumption, SMT DEF Manager
  <2> HIDE DEF b
  <2>5. scope \in {"code", "conversation", "both"}
    BY ScopesAssumption
  <2>6. Rewinding'
    <3>1. rewind' \in Rewinds /\ rewind'.turn = t
      BY <2>2, <2>3, <2>4, <2>5, SMT DEF Rewinds
    <3> QED BY <1>2, <2>3, <3>1 DEF Rewinding
  <2> QED BY <1>1, <1>3, <2>2, <2>6, SessionSame DEF TypeInv
<1>7. CASE RewindCode
  <2>1. /\ rewind.step = "checked" /\ files' = Restored(ckpts, rewind.turn)
        /\ rewind' = [rewind EXCEPT !.step = "restored"] \/ rewind' = Idle
        /\ UNCHANGED sessionVars
    BY <1>7 DEF RewindCode
  <2>2. files' \in Workspace
    BY <2>1, RestoredOK
  <2>3. Rewinding'
    BY <1>4, <1>5, <2>1
  <2> QED BY <1>1, <1>3, <2>1, <2>2, <2>3, SessionSame DEF TypeInv
<1>8. CASE RewindUnavailable
  <2>1. rewind' = Idle /\ UNCHANGED <<files, sessionVars>>
    BY <1>8 DEF RewindUnavailable
  <2> QED BY <1>1, <1>3, <1>5, <2>1, SessionSame DEF TypeInv
<1>9. CASE RewindCut
  <2>1. /\ rewind.step # "idle" /\ HasBoundary /\ log' = SubSeq(log, 1, rewind.boundary)
        /\ rewind' = [rewind EXCEPT !.step = "cut"] /\ UNCHANGED files
    BY <1>9 DEF RewindCut, AtConversation
  <2>2. rewind.boundary \in Nat /\ rewind.boundary <= Len(log)
    BY <1>1, <2>1 DEF HasBoundary, Rewinding, Rewinds
  <2>3. IsLog(log')
    BY <1>1, <2>1, <2>2, CutLog
  <2>4. Session'
    BY <1>1, <1>2, <2>3 DEF Session
  <2>5. Rewinding'
    BY <1>4, <2>1
  <2> QED BY <1>1, <1>3, <2>1, <2>4, <2>5 DEF TypeInv
<1> QED BY <1>6, <1>7, <1>8, <1>9

LEMMA TruncateTypes ==
  ASSUME TypeInv, RewindTruncate
  PROVE  TypeInv'
<1> DEFINE t == rewind.turn
<1>1. /\ files \in Workspace /\ Session /\ Turn /\ Manager /\ Store /\ Rewinding /\ Ghosts
      /\ epochs \in Nat
  BY Typed
<1>2. PICK left \in SUBSET (DOMAIN disk \ DOMAIN ckpts') :
             disk' = Restrict(disk, DOMAIN ckpts' \cup left)
  BY DEF RewindTruncate
<1>3. /\ rewind.step = "cut" /\ next' = t /\ bound' = Before(bound, t) /\ ckpts' = Before(ckpts, t)
      /\ current' = (IF current >= t THEN NoTurn ELSE current)
      /\ rewind' = [rewind EXCEPT !.step = "truncated"]
      /\ UNCHANGED <<files, sessionVars, turnVars, ghostVars, epochs>>
  BY DEF RewindTruncate, DropFrom, ghostVars
<1>4. t \in 0 .. epochs - 1 /\ t \in Nat
  BY <1>1, <1>3, SMT DEF Rewinding
<1> HIDE DEF t
<1>5. /\ DOMAIN ckpts' = {k \in DOMAIN ckpts : k < t}
      /\ \A k \in DOMAIN ckpts' : ckpts'[k] = ckpts[k]
  BY <1>3 DEF Before, Restrict
<1>6. Store'
  <2>1. StoreOK(ckpts', epochs)
    BY <1>1, <1>5 DEF Store, StoreOK
  <2>2. current' = NoTurn \/ current' \in DOMAIN ckpts'
    <3>1. current \in DOMAIN ckpts => current \in Nat
      BY <1>1, SMT DEF Store, StoreOK
    <3>2. current \in Nat /\ ~(current >= t) => current < t
      BY <1>4, SMT
    <3> QED BY <1>1, <1>3, <1>5, <3>1, <3>2 DEF Store
  <2>3. /\ DOMAIN disk' = DOMAIN ckpts' \cup left
        /\ \A k \in DOMAIN disk' : disk'[k] = disk[k]
    BY <1>2 DEF Restrict
  <2>4. DOMAIN disk' \subseteq DOMAIN disk
    BY <1>1, <1>5, <2>3 DEF Store
  <2>5. StoreOK(disk', epochs)
    BY <1>1, <2>3, <2>4 DEF Store, StoreOK
  <2> QED BY <1>3, <2>1, <2>2, <2>3, <2>5 DEF Store
<1>7. Manager'
  <2>1. DOMAIN bound' \subseteq DOMAIN bound /\ \A k \in DOMAIN bound' : bound'[k] = bound[k]
    BY <1>3 DEF Before, Restrict
  <2>2. next' \in 0 .. epochs'
    BY <1>1, <1>3, <1>4, SMT
  <2> QED BY <1>1, <2>1, <2>2 DEF Manager
<1>8. Rewinding'
  <2>1. rewind' \in Rewinds /\ rewind'.turn = t
    BY <1>1, <1>3, SMT DEF Rewinding, Rewinds, t
  <2> QED BY <1>3, <1>4, <2>1 DEF Rewinding
<1>9. Session' /\ Turn' /\ Ghosts'
  BY <1>1, <1>3, SessionSame, TurnSame, GhostsSame
<1> QED BY <1>1, <1>3, <1>6, <1>7, <1>8, <1>9 DEF TypeInv

LEMMA CrashTypes ==
  ASSUME TypeInv, CrashAndResume
  PROVE  TypeInv'
<1>1. /\ files \in Workspace /\ Session /\ Turn /\ Manager /\ Store /\ Rewinding /\ Ghosts
      /\ IsLog(savedLog) /\ epochs \in Nat
  BY Typed
<1>2. /\ log' = ResumedLog /\ savedLog' = log' /\ marker' = NoMarker /\ Rebind(disk)
      /\ phase' = "idle" /\ start' = 0 /\ touching' = NoPath /\ rewind' = Idle
      /\ UNCHANGED <<files, branch, ghostVars, epochs>>
  BY DEF CrashAndResume, ghostVars
<1>3. IsLog(ResumedLog)
  BY <1>1, StripFacts DEF ResumedLog, Session
<1>4. Session'
  BY <1>1, <1>2, <1>3 DEF Session
<1>5. Manager' /\ Store'
  BY <1>1, <1>2, RebindOK DEF Store
<1>6. Turn'
  BY <1>2, SMT DEF Turn, Phase
<1>7. Rewinding' /\ Ghosts'
  BY <1>1, <1>2, IdleRewind, GhostsSame DEF Rewinding
<1> QED BY <1>1, <1>2, <1>4, <1>5, <1>6, <1>7 DEF TypeInv

LEMMA InitTypes ==
  ASSUME Init
  PROVE  TypeInv
<1>1. /\ files \in Workspace /\ touching = NoPath /\ log = <<SystemPrompt>> /\ savedLog = <<>>
      /\ branch = 0 /\ marker = NoMarker /\ phase = "idle" /\ start = 0 /\ next = 0
      /\ bound = <<>> /\ current = NoTurn /\ ckpts = <<>> /\ disk = <<>> /\ rewind = Idle
      /\ epochs = 0 /\ startFiles = <<>>
  BY DEF Init
<1>2. MaxLog \in Nat /\ MaxLog >= 1 /\ MaxTurns \in Nat
  BY BoundsAssumption, SMT
<1>3. IsLog(<<SystemPrompt>>)
  <2>1. SystemPrompt \in Message
    BY <1>2, SMT DEF SystemPrompt, Message, Role
  <2> QED BY <1>2, <2>1, SMT DEF IsLog
<1>4. IsLog(<<>>)
  BY <1>2, SMT DEF IsLog
<1>5. Session
  BY <1>1, <1>3, <1>4, SMT DEF Session
<1>6. Turn
  BY <1>1, SMT DEF Turn, Phase
<1>7. Manager
  BY <1>1, SMT DEF Manager
<1>8. Store
  BY <1>1, EmptyStoreOK DEF Store
<1>9. Rewinding
  BY <1>1, IdleRewind DEF Rewinding
<1>10. Ghosts
  BY <1>1, <1>2, SMT DEF Ghosts
<1> QED BY <1>1, <1>5, <1>6, <1>7, <1>8, <1>9, <1>10 DEF TypeInv

LEMMA TypeStep ==
  ASSUME ~Compaction, TypeInv, [Next]_vars
  PROVE  TypeInv'
<1>1. CASE BeginTurn
  BY <1>1, BeginTurnTypes
<1>2. CASE Blocked \/ Ask \/ Work \/ Finish \/ Cancel \/ (\E c \in Content : Edit(c))
  BY <1>2, TurnStepTypes
<1>3. CASE \E p \in Paths : PreEdit(p)
  BY <1>3, PreEditTypes
<1>4. CASE Autosave \/ EndTurn \/ RewindSave
  BY <1>4, SaveStepTypes
<1>5. CASE CompactAuto \/ CompactCommand
  BY <1>5 DEF CompactAuto, CompactCommand
<1>6. CASE \E t \in Targets : Summarize(t)
  BY <1>6, SummarizeTypes
<1>7. CASE \E t \in Targets : Fork(t) \/ ForkSession(t)
  BY <1>7, ForkTypes, ForkSessionTypes
<1>12. CASE \E t \in Targets, scope \in Scopes : RewindUnknown(t, scope)
  BY <1>12, UnknownTypes
<1>8. CASE (\E t \in Targets, scope \in Scopes : RewindCheck(t, scope))
           \/ RewindCode \/ RewindUnavailable \/ RewindCut
  BY <1>8, RewindStepTypes
<1>9. CASE RewindTruncate
  BY <1>9, TruncateTypes
<1>10. CASE CrashAndResume
  BY <1>10, CrashTypes
<1>11. CASE UNCHANGED vars
  <2>1. UNCHANGED <<files, sessionVars, turnVars, managerVars, storeVars, rewind, ghostVars, epochs>>
    BY <1>11 DEF vars, ghostVars
  <2>2. files \in Workspace /\ Session /\ Turn /\ Manager /\ Store /\ Rewinding /\ Ghosts
    BY Typed
  <2>3. Session' /\ Turn' /\ Manager' /\ Store' /\ Rewinding' /\ Ghosts'
    BY <2>1, <2>2, SessionSame, TurnSame, StoreSame, RewindingSame, GhostsSame
  <2> QED BY <2>1, <2>2, <2>3 DEF TypeInv
<1> QED
  BY <1>1, <1>2, <1>3, <1>4, <1>5, <1>6, <1>7, <1>8, <1>9, <1>10, <1>11, <1>12 DEF Next

LEMMA TypesImply ==
  ASSUME TypeInv
  PROVE  TypeOK
<1>1. /\ files \in Workspace /\ Session /\ Turn /\ Manager /\ Store /\ Rewinding /\ Ghosts
      /\ epochs \in 0 .. MaxTurns
  BY Typed
<1>2. ASSUME NEW d, StoreOK(d, epochs)
      PROVE  IsStore(d)
  <2>1. 0 .. epochs - 1 \subseteq 0 .. MaxTurns
    BY <1>1, BoundsAssumption, SMT
  <2> QED BY <1>2, <2>1 DEF StoreOK, CkptOK, IsStore
<1>3. /\ IsStore(ckpts) /\ IsStore(disk) /\ (current = NoTurn \/ current \in DOMAIN ckpts)
  BY <1>1, <1>2 DEF Store
<1>4. next \in Nat /\ DOMAIN bound \subseteq Nat /\ \A t \in DOMAIN bound : bound[t] \in Nat
  BY <1>1, BoundsAssumption, SMT DEF Manager
<1> QED BY <1>1, <1>3, <1>4 DEF TypeOK, Session, IsLog, Turn, Rewinding, Ghosts

\* Without compactions every variable keeps its shape, in any state a turn, a
\* save, a rewind, a fork, a summary or a crash leaves behind, and Store.cur is
\* one of the store's own checkpoints.
THEOREM TypeCorrect ==
  ASSUME ~Compaction
  PROVE  Spec => []TypeOK
<1>1. Init => TypeInv
  BY InitTypes
<1>2. TypeInv /\ [Next]_vars => TypeInv'
  BY TypeStep
<1>3. TypeInv => TypeOK
  BY TypesImply
<1> QED BY <1>1, <1>2, <1>3, PTL DEF Spec

-----------------------------------------------------------------------------
(* The snapshots of a session that is alone with its turns.                *)

\* Every rewind is of code and conversation and runs to its end, outside of a
\* turn, and nothing else rewrites the log or drops its boundaries.
Undisturbed ==
  /\ Scopes \subseteq {"both"} /\ "rewind" \notin CrashPoints
  /\ ~Compaction /\ ~Summaries /\ ~Overlap /\ ~DeleteFails

Earliest(d, p, t, u) == u \in Touched(d, p, t) /\ \A w \in Touched(d, p, t) : u <= w

\* Store d and workspace f still know what every file held when turn t began:
\* it was not touched since, or the earliest snapshot of it since is that.
Intact(d, f, s, t) ==
  \A p \in Paths :
    \/ Touched(d, p, t) = {} /\ f[p] = s[d[t].epoch][p]
    \/ \E u \in DOMAIN d : Earliest(d, p, t, u) /\ d[u].files[p] = s[d[t].epoch][p]

LEMMA TouchedTurns ==
  ASSUME NEW n, NEW d, StoreOK(d, n), NEW p, NEW t
  PROVE  Touched(d, p, t) \in SUBSET Nat /\ Touched(d, p, t) \subseteq DOMAIN d
BY SMT DEF StoreOK, Touched

LEMMA RestoredIs ==
  ASSUME TypeInv, NEW t, NEW p \in Paths, NEW u, Earliest(ckpts, p, t, u)
  PROVE  Restored(ckpts, t)[p] = ckpts[u].files[p]
<1> DEFINE T == Touched(ckpts, p, t)
           v == CHOOSE x \in T : \A w \in T : x <= w
<1>1. Restored(ckpts, t)[p] = IF T = {} THEN files[p] ELSE ckpts[v].files[p]
  BY DEF Restored
<1>2. T \in SUBSET Nat /\ u \in T /\ \A w \in T : u <= w
  BY TouchedTurns DEF TypeInv, Store, Earliest
<1> HIDE DEF T
<1>3. v \in T /\ \A w \in T : v <= w
  BY <1>2
<1> HIDE DEF v
<1>4. u = v
  BY <1>2, <1>3, SMT
<1> QED BY <1>1, <1>2, <1>4

LEMMA UntouchedStays ==
  ASSUME NEW t, NEW p \in Paths, Touched(ckpts, p, t) = {}
  PROVE  Restored(ckpts, t)[p] = files[p]
BY DEF Restored

LEMMA IntactRestores ==
  ASSUME TypeInv, NEW t \in DOMAIN ckpts, Intact(ckpts, files, startFiles, t)
  PROVE  Restored(ckpts, t) = startFiles[ckpts[t].epoch]
<1> DEFINE r == Restored(ckpts, t)
           s == startFiles[ckpts[t].epoch]
<1>1. s \in Workspace
  BY DEF TypeInv, Ghosts, Store, StoreOK, CkptOK
<1>2. r \in Workspace
  BY RestoredOK
<1>3. ASSUME NEW p \in Paths
      PROVE  r[p] = s[p]
  <2>1. CASE Touched(ckpts, p, t) = {} /\ files[p] = s[p]
    BY <2>1, UntouchedStays
  <2>2. CASE \E u \in DOMAIN ckpts : Earliest(ckpts, p, t, u) /\ ckpts[u].files[p] = s[p]
    BY <2>2, RestoredIs
  <2> QED BY <2>1, <2>2 DEF Intact
<1> HIDE DEF r, s
<1>4. r = s
  BY <1>1, <1>2, <1>3 DEF Workspace
<1> QED BY <1>4 DEF r, s

\* A rewind's writes disturb no turn at or before its own.
LEMMA IntactBelow ==
  ASSUME TypeInv, NEW r \in Nat, NEW t \in DOMAIN ckpts, t <= r,
         Intact(ckpts, files, startFiles, t)
  PROVE  Intact(ckpts, Restored(ckpts, r), startFiles, t)
<1> DEFINE s == startFiles[ckpts[t].epoch]
<1>1. ASSUME NEW p \in Paths, Touched(ckpts, p, t) = {}
      PROVE  Restored(ckpts, r)[p] = files[p]
  <2>1. DOMAIN ckpts \in SUBSET Nat
    BY SMT DEF TypeInv, Store, StoreOK
  <2>2. ASSUME NEW u \in DOMAIN ckpts, u >= r
        PROVE  u >= t
    BY <2>1, <2>2, SMT
  <2>3. Touched(ckpts, p, r) = {}
    BY <1>1, <2>2 DEF Touched
  <2> QED BY <2>3, UntouchedStays
<1> QED BY <1>1 DEF Intact

\* Opening a checkpoint leaves the earlier ones intact, and it is intact.
LEMMA IntactBegin ==
  ASSUME NEW n \in Nat, NEW d, StoreOK(d, n), NEW f, NEW s, NEW k \in Nat,
         DOMAIN d = 0 .. k - 1, NEW r, r.files = <<>>, NEW x,
         \A e \in 1 .. n : x[e] = s[e], x[r.epoch] = f
  PROVE  /\ Intact(Put(d, k, r), f, x, k)
         /\ \A t \in DOMAIN d : Intact(d, f, s, t) => Intact(Put(d, k, r), f, x, t)
<1> DEFINE b == Put(d, k, r)
<1>1. k \notin DOMAIN d /\ \A t \in DOMAIN d : t \in Nat /\ t < k
  BY SMT
<1>2. /\ DOMAIN b = DOMAIN d \cup {k} /\ b[k] = r
      /\ \A t \in DOMAIN d : b[t] = d[t]
  BY <1>1 DEF Put
<1> HIDE DEF b
<1>3. \A p, t : Touched(b, p, t) = Touched(d, p, t)
  <2> TAKE p, t
  <2>1. DOMAIN r.files = {}
    OBVIOUS
  <2> QED BY <1>2, <2>1 DEF Touched
<1>4. ASSUME NEW p
      PROVE  Touched(b, p, k) = {}
  <2>1. \A t \in DOMAIN d : ~(t >= k)
    BY <1>1, SMT
  <2> QED BY <1>3, <2>1 DEF Touched
<1>5. Intact(b, f, x, k)
  BY <1>2, <1>4 DEF Intact
<1>6. ASSUME NEW t \in DOMAIN d, Intact(d, f, s, t)
      PROVE  Intact(b, f, x, t)
  <2>1. x[b[t].epoch] = s[d[t].epoch]
    BY <1>2 DEF StoreOK, CkptOK
  <2>2. ASSUME NEW p, NEW u, Earliest(d, p, t, u)
        PROVE  Earliest(b, p, t, u) /\ u \in DOMAIN b /\ b[u] = d[u]
    BY <1>2, <1>3, <2>2 DEF Earliest, Touched
  <2> QED BY <1>3, <1>6, <2>1, <2>2 DEF Intact
<1> QED BY <1>5, <1>6 DEF b

\* A first touch in the latest turn is an earliest snapshot only of a file that
\* was not touched since, and then it is what the workspace holds.
LEMMA IntactSnapshot ==
  ASSUME NEW n \in Nat, NEW d, StoreOK(d, n), NEW f, NEW s, NEW k \in DOMAIN d,
         \A t \in DOMAIN d : t <= k, NEW p \in Paths, p \notin DOMAIN d[k].files,
         NEW b, DOMAIN b = DOMAIN d, \A t \in DOMAIN d : t # k => b[t] = d[t],
         b[k].epoch = d[k].epoch, b[k].files = Put(d[k].files, p, f[p]),
         NEW t \in DOMAIN d, Intact(d, f, s, t)
  PROVE  Intact(b, f, s, t)
<1>1. DOMAIN d \in SUBSET Nat
  BY SMT DEF StoreOK
<1>2. b[t].epoch = d[t].epoch
  OBVIOUS
<1>3. /\ DOMAIN b[k].files = DOMAIN d[k].files \cup {p} /\ b[k].files[p] = f[p]
      /\ \A q \in DOMAIN d[k].files : q # p => b[k].files[q] = d[k].files[q]
  BY DEF Put
<1>4. t <= k /\ k >= t
  BY <1>1, SMT
<1>5. ASSUME NEW q, q # p
      PROVE  /\ Touched(b, q, t) = Touched(d, q, t)
             /\ \A u \in Touched(d, q, t) : b[u].files[q] = d[u].files[q]
  BY <1>3, <1>5 DEF Touched
<1>6. /\ Touched(b, p, t) = Touched(d, p, t) \cup {k}
      /\ k \notin Touched(d, p, t)
      /\ \A u \in Touched(d, p, t) : b[u].files[p] = d[u].files[p]
  <2>1. k \notin Touched(d, p, t)
    BY DEF Touched
  <2>2. Touched(b, p, t) = Touched(d, p, t) \cup {k}
    BY <1>3, <1>4 DEF Touched
  <2>3. \A u \in Touched(d, p, t) : u \in DOMAIN d /\ u # k
    BY <2>1 DEF Touched
  <2> QED BY <2>1, <2>2, <2>3
<1>7. ASSUME NEW q \in Paths, q # p
      PROVE  \/ Touched(b, q, t) = {} /\ f[q] = s[b[t].epoch][q]
             \/ \E u \in DOMAIN b : Earliest(b, q, t, u) /\ b[u].files[q] = s[b[t].epoch][q]
  BY <1>2, <1>5, <1>7 DEF Intact, Earliest
<1>8. \E u \in DOMAIN b : Earliest(b, p, t, u) /\ b[u].files[p] = s[b[t].epoch][p]
  <2>1. CASE Touched(d, p, t) = {} /\ f[p] = s[d[t].epoch][p]
    <3>1. k <= k
      BY <1>1, SMT
    <3>2. Earliest(b, p, t, k)
      BY <1>6, <2>1, <3>1 DEF Earliest
    <3> QED BY <1>2, <1>3, <2>1, <3>2
  <2>2. CASE \E u \in DOMAIN d : Earliest(d, p, t, u) /\ d[u].files[p] = s[d[t].epoch][p]
    <3>1. PICK u \in DOMAIN d : Earliest(d, p, t, u) /\ d[u].files[p] = s[d[t].epoch][p]
      BY <2>2
    <3>2. Earliest(b, p, t, u) /\ b[u].files[p] = d[u].files[p]
      BY <1>6, <3>1 DEF Earliest
    <3> QED BY <1>2, <3>1, <3>2
  <2> QED BY <2>1, <2>2 DEF Intact
<1> QED BY <1>7, <1>8 DEF Intact

\* A write to a file that a turn snapshotted leaves the turns up to it intact.
LEMMA IntactEdit ==
  ASSUME NEW d, NEW f, NEW s, NEW k \in DOMAIN d, NEW p, p \in DOMAIN d[k].files,
         NEW g, \A q \in Paths : q # p => g[q] = f[q],
         NEW t \in DOMAIN d, k >= t, Intact(d, f, s, t)
  PROVE  Intact(d, g, s, t)
<1>1. k \in Touched(d, p, t)
  BY DEF Touched
<1> QED BY <1>1 DEF Intact

\* Discarding the checkpoints from r on leaves the earlier ones intact, when the
\* workspace is what it was as turn r began.
LEMMA IntactDrop ==
  ASSUME NEW n \in Nat, NEW d, StoreOK(d, n), NEW f, NEW s, NEW r \in DOMAIN d,
         f = s[d[r].epoch], Intact(d, f, s, r),
         NEW t \in DOMAIN d, t < r, Intact(d, f, s, t)
  PROVE  Intact(Before(d, r), f, s, t)
<1> DEFINE b == Before(d, r)
<1>1. DOMAIN d \in SUBSET Nat
  BY SMT DEF StoreOK
<1>2. /\ DOMAIN b = {k \in DOMAIN d : k < r}
      /\ \A k \in DOMAIN b : b[k] = d[k]
  BY DEF Before, Restrict
<1> HIDE DEF b
<1>3. ASSUME NEW p
      PROVE  /\ Touched(b, p, t) = {u \in Touched(d, p, t) : u < r}
             /\ Touched(d, p, r) = {u \in Touched(d, p, t) : u >= r}
  <2>1. \A u \in DOMAIN d : u >= r => u >= t
    BY <1>1, SMT
  <2> QED BY <1>2, <2>1 DEF Touched
<1>4. t \in DOMAIN b /\ b[t] = d[t]
  BY <1>2
<1>5. ASSUME NEW p \in Paths
      PROVE  \/ Touched(b, p, t) = {} /\ f[p] = s[b[t].epoch][p]
             \/ \E u \in DOMAIN b : Earliest(b, p, t, u) /\ b[u].files[p] = s[b[t].epoch][p]
  <2>1. CASE Touched(d, p, t) = {} /\ f[p] = s[d[t].epoch][p]
    BY <1>3, <1>4, <2>1
  <2>2. CASE \E u \in DOMAIN d : Earliest(d, p, t, u) /\ d[u].files[p] = s[d[t].epoch][p]
    <3>1. PICK u \in DOMAIN d : Earliest(d, p, t, u) /\ d[u].files[p] = s[d[t].epoch][p]
      BY <2>2
    <3>2. u \in Touched(d, p, t) /\ u \in Nat /\ \A w \in Touched(d, p, t) : u <= w
      BY <1>1, <3>1 DEF Earliest
    <3>3. CASE u < r
      <4>1. u \in DOMAIN b /\ b[u] = d[u] /\ Earliest(b, p, t, u)
        BY <1>2, <1>3, <3>2, <3>3 DEF Earliest
      <4> QED BY <1>4, <3>1, <4>1
    <3>4. CASE ~(u < r)
      <4>1. u >= r
        BY <1>1, <3>2, <3>4, SMT
      <4>2. \A w \in Touched(d, p, t) : w \in Nat /\ ~(w < r)
        <5>1. Touched(d, p, t) \subseteq Nat
          BY TouchedTurns
        <5> QED BY <1>1, <3>2, <4>1, <5>1, SMT
      <4>3. Touched(b, p, t) = {}
        BY <1>3, <4>2
      <4>4. Earliest(d, p, r, u)
        BY <1>3, <3>2, <4>1 DEF Earliest
      <4>5. d[u].files[p] = f[p]
        <5>1. PICK v \in DOMAIN d : Earliest(d, p, r, v) /\ d[v].files[p] = s[d[r].epoch][p]
          BY <4>4 DEF Intact, Earliest
        <5>2. u \in Nat /\ v \in Nat /\ u <= v /\ v <= u
          BY <1>1, <4>4, <5>1 DEF Earliest
        <5>3. u = v
          BY <5>2, SMT
        <5> QED BY <5>1, <5>3
      <4> QED BY <1>4, <3>1, <4>3, <4>5
    <3> QED BY <3>3, <3>4
  <2> QED BY <2>1, <2>2 DEF Intact
<1> QED BY <1>5 DEF Intact, b

-----------------------------------------------------------------------------
(* The invariant of the store, the rewind and the files.                   *)

\* Memory, disk and boundaries agree, and turns are numbered without a gap.
StoreInv ==
  /\ disk = ckpts /\ bound = Bounds(ckpts) /\ DOMAIN ckpts = 0 .. next - 1
  /\ \A t \in DOMAIN ckpts : ckpts[t].index >= 1
  /\ \A t, u \in DOMAIN ckpts :
       t < u => ckpts[t].index <= ckpts[u].index /\ ckpts[t].epoch < ckpts[u].epoch

\* A turn snapshots into the latest checkpoint, before it edits; a session that
\* moved to a recovery branch has none.
CurrentInv ==
  /\ current # NoTurn => current = next - 1
  /\ Running => rewind = Idle /\ (next = 0 \/ current = next - 1)
  /\ touching # NoPath =>
       phase = "working" /\ (next = 0 \/ touching \in DOMAIN ckpts[next - 1].files)

RewindInv ==
  /\ rewind # Idle => rewind.scope = "both" /\ rewind.step # "idle"
  /\ rewind.step \in {"checked", "restored", "cut"} =>
       rewind.turn \in DOMAIN ckpts /\ rewind.boundary = ckpts[rewind.turn].index
  /\ rewind.step \in {"restored", "cut"} => files = startFiles[Epoch]

\* The turns that a rewind under way does not undo.
Known == {t \in DOMAIN ckpts : rewind.step \in {"restored", "cut"} => t <= rewind.turn}

FilesInv == \A t \in Known : Intact(ckpts, files, startFiles, t)

Books == StoreInv /\ CurrentInv /\ RewindInv /\ FilesInv

\* The transcripts: one system prompt in front, nothing of a turn to come.
Plain(l, n) ==
  /\ Len(l) >= 1 => l[1] = SystemPrompt
  /\ \A i \in 2 .. Len(l) : l[i].role # "system"
  /\ \A i \in 1 .. Len(l) : l[i].epoch <= n

\* No boundary a rewind may use lies behind the end of the log, or of the file.
LogInv ==
  /\ Plain(log, epochs) /\ Plain(savedLog, epochs) /\ Len(log) >= 1
  /\ \A t \in DOMAIN ckpts :
       (rewind.step = "cut" => t <= rewind.turn) => ckpts[t].index <= Len(log)
  /\ marker # NoMarker => phase = "working" /\ marker = start
  /\ ~Running =>
       \A t \in DOMAIN ckpts : Len(savedLog) >= 1 => ckpts[t].index <= Len(savedLog)
  /\ ~Running /\ rewind.step \notin {"cut", "truncated"} /\ Len(log) >= 2 => savedLog = log

\* During a turn the file is a prefix of the log that holds all from before it,
\* or what a rewind to the system prompt left unsaved; then no turn of the file
\* is this one, so it is not taken for the log's future.
RunInv ==
  Running =>
    /\ start >= 1 /\ start <= Len(log)
    /\ \A t \in DOMAIN ckpts : ckpts[t].index <= start
    /\ \/ IsPrefixOf(savedLog, log) /\ start <= Len(savedLog)
       \/ /\ start = 1 /\ \A i \in 1 .. Len(savedLog) : savedLog[i].epoch < epochs
          /\ Len(log) >= 2 => log[2].epoch = epochs

LEMMA BoundsPut ==
  ASSUME NEW d, NEW k, NEW r
  PROVE  Put(Bounds(d), k, r.index) = Bounds(Put(d, k, r))
BY DEF Put, Bounds

LEMMA BoundsBefore ==
  ASSUME NEW d, NEW t
  PROVE  Before(Bounds(d), t) = Bounds(Before(d, t))
BY DEF Before, Bounds, Restrict

\* The steps that leave store, files and rewind alone.
LEMMA BooksSame ==
  ASSUME Books, UNCHANGED <<files, managerVars, storeVars, rewind, startFiles, touching>>,
         Running' => Running, touching # NoPath => phase' = "working"
  PROVE  Books'
<1>1. UNCHANGED <<files, next, bound, current, ckpts, disk, rewind, startFiles, touching>>
  BY DEF managerVars, storeVars
<1>2. StoreInv'
  BY <1>1 DEF Books, StoreInv
<1>3. CurrentInv'
  BY <1>1 DEF Books, CurrentInv
<1>4. RewindInv'
  BY <1>1 DEF Books, RewindInv, Epoch
<1>5. FilesInv'
  BY <1>1 DEF Books, FilesInv, Known
<1> QED BY <1>2, <1>3, <1>4, <1>5 DEF Books

\* A new session, or a recovery branch, starts without checkpoints.
LEMMA BooksEmpty ==
  ASSUME Rebind(<<>>), rewind' = Idle, touching' # NoPath => phase' = "working"
  PROVE  Books'
<1>1. /\ DOMAIN ckpts' = {} /\ ckpts' = <<>> /\ disk' = <<>> /\ bound' = Bounds(<<>>)
      /\ current' = NoTurn /\ next' = NextTurn(<<>>)
  BY DEF Rebind
<1>2. next' = 0
  BY <1>1 DEF NextTurn
<1>3. StoreInv'
  <2>1. 0 .. next' - 1 = {}
    BY <1>2, SMT
  <2> QED BY <1>1, <2>1 DEF StoreInv
<1>4. CurrentInv'
  BY <1>1, <1>2 DEF CurrentInv
<1>5. RewindInv'
  BY IdleRewind DEF RewindInv
<1>6. FilesInv'
  BY <1>1 DEF FilesInv, Known
<1> QED BY <1>3, <1>4, <1>5, <1>6 DEF Books

LEMMA BeginTurnBooks ==
  ASSUME ~Overlap, TypeInv, Books, LogInv, BeginTurn
  PROVE  Books'
<1> DEFINE m == Len(log)
           r == [index |-> m, epoch |-> epochs + 1, files |-> <<>>]
<1>1. /\ files \in Workspace /\ Manager /\ Store /\ Ghosts /\ epochs \in Nat /\ IsLog(log)
  BY Typed
<1>2. /\ ~Running /\ rewind = Idle /\ epochs < MaxTurns /\ epochs' = epochs + 1
      /\ startFiles' = Append(startFiles, files) /\ next' = next + 1
      /\ bound' = Put(bound, next, m) /\ current' = next /\ ckpts' = Put(ckpts, next, r)
      /\ disk' = Put(disk, next, ckpts'[next])
      /\ UNCHANGED <<files, touching, rewind>>
  BY DEF BeginTurn, StartMessages
<1>3. m \in Nat /\ m >= 1 /\ next \in Nat /\ \A t \in DOMAIN ckpts : ckpts[t].index <= m
  <2>1. m \in Nat /\ next \in Nat
    BY <1>1, LogLength, SMT DEF Manager
  <2> QED BY <1>2, <2>1, IdleRewind DEF LogInv
<1>4. r.index = m /\ r.epoch = epochs + 1 /\ r.files = <<>>
  BY SMT
<1> HIDE DEF r, m
<1>5. /\ disk = ckpts /\ bound = Bounds(ckpts) /\ DOMAIN ckpts = 0 .. next - 1
      /\ \A t \in DOMAIN ckpts : ckpts[t].index >= 1
      /\ \A t, u \in DOMAIN ckpts :
           t < u => ckpts[t].index <= ckpts[u].index /\ ckpts[t].epoch < ckpts[u].epoch
  BY DEF Books, StoreInv
<1>6. /\ DOMAIN ckpts' = DOMAIN ckpts \cup {next} /\ ckpts'[next] = r
      /\ next \notin DOMAIN ckpts /\ \A t \in DOMAIN ckpts : ckpts'[t] = ckpts[t]
  <2>1. next \notin DOMAIN ckpts
    BY <1>3, <1>5, SMT
  <2> QED BY <1>2, <2>1 DEF Put
<1>7. StoreInv'
  <2>1. disk' = ckpts'
    BY <1>2, <1>5, <1>6
  <2>2. bound' = Bounds(ckpts')
    BY <1>2, <1>4, <1>5, BoundsPut
  <2>3. DOMAIN ckpts' = 0 .. next' - 1
    <3>1. 0 .. next - 1 \cup {next} = 0 .. (next + 1) - 1
      BY <1>3, SMT
    <3> QED BY <1>2, <1>5, <1>6, <3>1
  <2>4. \A t \in DOMAIN ckpts' : ckpts'[t].index >= 1
    BY <1>3, <1>4, <1>5, <1>6
  <2>5. ASSUME NEW t \in DOMAIN ckpts', NEW u \in DOMAIN ckpts', t < u
        PROVE  ckpts'[t].index <= ckpts'[u].index /\ ckpts'[t].epoch < ckpts'[u].epoch
    <3>1. CASE u \in DOMAIN ckpts
      <4>1. t \in DOMAIN ckpts
        BY <1>3, <1>5, <1>6, <2>5, <3>1, SMT
      <4> QED BY <1>5, <1>6, <2>5, <3>1, <4>1
    <3>2. CASE u = next
      <4>1. t \in DOMAIN ckpts
        BY <1>3, <1>6, <2>5, <3>2, SMT
      <4>2. ckpts[t].index <= m /\ ckpts[t].epoch \in 1 .. epochs
        BY <1>1, <1>3, <4>1 DEF Store, StoreOK, CkptOK
      <4>3. ckpts[t].epoch < epochs + 1
        BY <1>1, <4>2, SMT
      <4> QED BY <1>4, <1>6, <3>2, <4>1, <4>2, <4>3
    <3> QED BY <1>6, <3>1, <3>2
  <2> QED BY <2>1, <2>2, <2>3, <2>4, <2>5 DEF StoreInv
<1>8. CurrentInv'
  <2>1. touching = NoPath
    BY <1>2 DEF Books, CurrentInv, Running
  <2>2. current' = next' - 1
    BY <1>2, <1>3, SMT
  <2> QED BY <1>2, <2>1, <2>2 DEF CurrentInv
<1>9. RewindInv'
  BY <1>2, IdleRewind DEF RewindInv
<1>10. FilesInv'
  <2>1. Known = DOMAIN ckpts /\ Known' = DOMAIN ckpts'
    BY <1>2, IdleRewind DEF Known
  <2>2. \A t \in DOMAIN ckpts : Intact(ckpts, files, startFiles, t)
    BY <2>1 DEF Books, FilesInv
  <2>3. /\ \A e \in 1 .. epochs : startFiles'[e] = startFiles[e]
        /\ startFiles'[r.epoch] = files
    BY <1>1, <1>2, <1>4, NewStart
  <2>4. StoreOK(ckpts, epochs)
    BY <1>1 DEF Store
  <2>5. /\ Intact(Put(ckpts, next, r), files, startFiles', next)
        /\ \A t \in DOMAIN ckpts : Intact(Put(ckpts, next, r), files, startFiles', t)
    BY <1>1, <1>3, <1>4, <1>5, <2>2, <2>3, <2>4, IntactBegin
  <2> QED BY <1>2, <1>6, <2>1, <2>5 DEF FilesInv
<1> QED BY <1>7, <1>8, <1>9, <1>10 DEF Books

LEMMA PreEditBooks ==
  ASSUME TypeInv, Books, NEW p \in Paths, PreEdit(p)
  PROVE  Books'
<1>1. /\ phase = "working" /\ touching' = p
      /\ UNCHANGED <<files, phase, start, next, bound, current, rewind, startFiles>>
  BY DEF PreEdit, managerVars, ghostVars
<1>2. Running /\ Running' /\ rewind = Idle /\ (next = 0 \/ current = next - 1)
  BY <1>1 DEF Books, CurrentInv, Running
<1>3. next \in Nat /\ DOMAIN ckpts = 0 .. next - 1 /\ epochs \in Nat /\ StoreOK(ckpts, epochs)
      /\ disk = ckpts
  BY Typed, SMT DEF Books, StoreInv, Manager, Store
<1>4. CASE KeepsSnapshot(p)
  <2>1. /\ current \in DOMAIN ckpts /\ DOMAIN ckpts' = DOMAIN ckpts
        /\ \A t \in DOMAIN ckpts : t # current => ckpts'[t] = ckpts[t]
        /\ ckpts'[current].index = ckpts[current].index
        /\ ckpts'[current].epoch = ckpts[current].epoch
        /\ ckpts'[current].files = Put(ckpts[current].files, p, files[p])
        /\ disk' = Put(disk, current, ckpts'[current])
    BY <1>4, PreEditStore
  <2>2. current # NoTurn /\ p \notin DOMAIN ckpts[current].files
    BY <1>4 DEF KeepsSnapshot
  <2>3. current = next - 1
    BY <2>2 DEF Books, CurrentInv
  <2>4. \A t \in DOMAIN ckpts :
          ckpts'[t].index = ckpts[t].index /\ ckpts'[t].epoch = ckpts[t].epoch
    BY <2>1
  <2>5. StoreInv'
    <3>1. bound' = Bounds(ckpts')
      BY <1>1, <2>1, <2>4 DEF Bounds, Books, StoreInv
    <3>2. disk' = ckpts'
      <4>1. disk' = [x \in DOMAIN ckpts |-> IF x = current THEN ckpts'[current] ELSE ckpts[x]]
        <5>1. DOMAIN ckpts \cup {current} = DOMAIN ckpts
          BY <2>1
        <5> QED BY <1>3, <2>1, <5>1 DEF Put
      <4>2. disk' = [x \in DOMAIN ckpts |-> ckpts'[x]]
        BY <2>1, <4>1
      <4>3. ckpts' = [x \in DOMAIN ckpts |-> ckpts'[x]]
        <5>1. ckpts' = [ckpts EXCEPT ![current].files = Put(@, p, files[p])]
          BY <1>4 DEF PreEdit
        <5>2. ckpts' = [x \in DOMAIN ckpts' |-> ckpts'[x]]
          BY <5>1
        <5> QED BY <2>1, <5>2
      <4> QED BY <4>2, <4>3
    <3> QED BY <1>1, <2>1, <2>4, <3>1, <3>2 DEF Books, StoreInv
  <2>6. CurrentInv'
    <3>1. p \in DOMAIN ckpts'[next - 1].files
      BY <2>1, <2>3 DEF Put
    <3> QED BY <1>1, <1>2, <2>3, <3>1 DEF CurrentInv
  <2>7. RewindInv'
    BY <1>1, <1>2, IdleRewind DEF RewindInv
  <2>8. FilesInv'
    <3>1. Known = DOMAIN ckpts /\ Known' = DOMAIN ckpts
      BY <1>1, <1>2, <2>1, IdleRewind DEF Known
    <3>2. \A t \in DOMAIN ckpts : t <= current
      BY <1>3, <2>3, SMT
    <3>3. \A t \in DOMAIN ckpts : Intact(ckpts, files, startFiles, t)
      BY <3>1 DEF Books, FilesInv
    <3>4. \A t \in DOMAIN ckpts : Intact(ckpts', files, startFiles, t)
      BY <1>3, <2>1, <2>2, <3>2, <3>3, IntactSnapshot
    <3> QED BY <1>1, <3>1, <3>4 DEF FilesInv
  <2> QED BY <2>5, <2>6, <2>7, <2>8 DEF Books
<1>5. CASE ~KeepsSnapshot(p)
  <2>1. UNCHANGED <<ckpts, disk>>
    BY <1>5 DEF PreEdit
  <2>2. next = 0 \/ p \in DOMAIN ckpts[next - 1].files
    <3>1. current = NoTurn /\ current = next - 1 => next = 0
      BY <1>3, SMT DEF NoTurn
    <3> QED BY <1>2, <1>5, <3>1 DEF KeepsSnapshot
  <2>3. StoreInv'
    BY <1>1, <2>1 DEF Books, StoreInv
  <2>4. CurrentInv'
    BY <1>1, <2>1, <2>2 DEF Books, CurrentInv, Running
  <2>5. RewindInv'
    BY <1>1, <1>2, IdleRewind DEF RewindInv
  <2>6. FilesInv'
    BY <1>1, <2>1 DEF Books, FilesInv, Known
  <2> QED BY <2>3, <2>4, <2>5, <2>6 DEF Books
<1> QED BY <1>4, <1>5

LEMMA EditBooks ==
  ASSUME TypeInv, Books, NEW c, Edit(c)
  PROVE  Books'
<1>1. /\ touching # NoPath /\ files' = [files EXCEPT ![touching] = c] /\ touching' = NoPath
      /\ UNCHANGED <<phase, next, bound, current, ckpts, disk, rewind, startFiles>>
  BY DEF Edit, managerVars, storeVars, ghostVars
<1>2. phase = "working" /\ (next = 0 \/ touching \in DOMAIN ckpts[next - 1].files)
  BY <1>1 DEF Books, CurrentInv
<1>3. rewind = Idle
  BY <1>2 DEF Books, CurrentInv, Running
<1>4. next \in Nat /\ DOMAIN ckpts = 0 .. next - 1
  BY Typed, SMT DEF Books, StoreInv, Manager
<1>5. StoreInv'
  BY <1>1 DEF Books, StoreInv
<1>6. CurrentInv'
  BY <1>1 DEF Books, CurrentInv, Running
<1>7. RewindInv'
  BY <1>1, <1>3, IdleRewind DEF RewindInv
<1>8. FilesInv'
  <2>1. Known = DOMAIN ckpts /\ Known' = DOMAIN ckpts
    BY <1>1, <1>3, IdleRewind DEF Known
  <2>2. ASSUME NEW t \in DOMAIN ckpts
        PROVE  Intact(ckpts, files', startFiles, t)
    <3>1. next # 0 /\ next - 1 \in DOMAIN ckpts /\ next - 1 >= t
      BY <1>4, SMT
    <3>2. touching \in DOMAIN ckpts[next - 1].files
      BY <1>2, <3>1
    <3>3. Intact(ckpts, files, startFiles, t)
      BY <2>1 DEF Books, FilesInv
    <3>4. \A q \in Paths : q # touching => files'[q] = files[q]
      BY <1>1, Typed DEF Workspace
    <3> QED BY <3>1, <3>2, <3>3, <3>4, IntactEdit
  <2> QED BY <1>1, <2>1, <2>2 DEF FilesInv
<1> QED BY <1>5, <1>6, <1>7, <1>8 DEF Books

LEMMA CheckBooks ==
  ASSUME Undisturbed, TypeInv, Books, NEW t, NEW scope \in Scopes, RewindCheck(t, scope)
  PROVE  Books'
<1>1. /\ rewind = Idle /\ ~Running /\ t \in DOMAIN ckpts
      /\ rewind' = [step |-> "checked", turn |-> t, scope |-> scope,
                    boundary |-> IF t \in DOMAIN bound THEN bound[t] ELSE NoBoundary]
      /\ UNCHANGED <<files, phase, touching, next, bound, current, ckpts, disk, startFiles>>
  BY DEF RewindCheck, turnVars, managerVars, storeVars, ghostVars
<1>2. scope = "both"
  BY DEF Undisturbed
<1>3. t \in DOMAIN bound /\ bound[t] = ckpts[t].index
  BY <1>1 DEF Books, StoreInv, Bounds
<1>4. /\ rewind'.step = "checked" /\ rewind'.turn = t /\ rewind'.scope = "both"
      /\ rewind'.boundary = ckpts[t].index
  BY <1>1, <1>2, <1>3
<1>5. StoreInv'
  BY <1>1 DEF Books, StoreInv
<1>6. CurrentInv'
  BY <1>1 DEF Books, CurrentInv, Running
<1>7. RewindInv'
  BY <1>1, <1>4 DEF RewindInv
<1>8. FilesInv'
  <2>1. Known = DOMAIN ckpts /\ Known' = DOMAIN ckpts
    BY <1>1, <1>4, IdleRewind DEF Known
  <2> QED BY <1>1, <2>1 DEF Books, FilesInv
<1> QED BY <1>5, <1>6, <1>7, <1>8 DEF Books

LEMMA CodeRestores ==
  ASSUME TypeInv, Books, RewindCode
  PROVE  files' = startFiles[Epoch] /\ rewind.turn \in DOMAIN ckpts
<1>1. rewind.step = "checked" /\ files' = Restored(ckpts, rewind.turn)
  BY DEF RewindCode
<1>2. rewind.turn \in DOMAIN ckpts /\ rewind.turn \in Known
  BY <1>1 DEF Books, RewindInv, Known
<1>3. Intact(ckpts, files, startFiles, rewind.turn)
  BY <1>2 DEF Books, FilesInv
<1> QED BY <1>1, <1>2, <1>3, IntactRestores DEF Epoch

LEMMA CodeBooks ==
  ASSUME TypeInv, Books, RewindCode
  PROVE  Books'
<1>1. /\ rewind.step = "checked" /\ AsksCode /\ files' = Restored(ckpts, rewind.turn)
      /\ rewind' = IF AsksConversation THEN [rewind EXCEPT !.step = "restored"] ELSE Idle
      /\ UNCHANGED <<phase, touching, next, bound, current, ckpts, disk, startFiles>>
  BY DEF RewindCode, turnVars, managerVars, storeVars, ghostVars
<1>2. rewind # Idle /\ rewind.scope = "both" /\ rewind \in Rewinds
  BY <1>1, IdleRewind, Typed DEF Books, RewindInv, Rewinding
<1>3. /\ rewind'.step = "restored" /\ rewind'.turn = rewind.turn /\ rewind'.scope = "both"
      /\ rewind'.boundary = rewind.boundary
  BY <1>1, <1>2, SMT DEF AsksConversation, Rewinds
<1>4. rewind.turn \in DOMAIN ckpts /\ rewind.boundary = ckpts[rewind.turn].index
  BY <1>1 DEF Books, RewindInv
<1>5. StoreInv'
  BY <1>1 DEF Books, StoreInv
<1>6. CurrentInv'
  BY <1>1, <1>2 DEF Books, CurrentInv, Running
<1>7. RewindInv'
  BY <1>1, <1>3, <1>4, CodeRestores DEF RewindInv, Epoch
<1>8. FilesInv'
  <2>1. Known = DOMAIN ckpts /\ Known' = {t \in DOMAIN ckpts : t <= rewind.turn}
    BY <1>1, <1>3 DEF Known
  <2>2. rewind.turn \in Nat
    BY <1>4, Typed, SMT DEF Store, StoreOK
  <2>3. \A t \in Known' : Intact(ckpts, Restored(ckpts, rewind.turn), startFiles, t)
    BY <2>1, <2>2, IntactBelow DEF Books, FilesInv
  <2> QED BY <1>1, <2>3 DEF FilesInv
<1> QED BY <1>5, <1>6, <1>7, <1>8 DEF Books

\* The boundary of a checkpoint is never missing, nor behind the end of the log.
LEMMA Available ==
  ASSUME TypeInv, Books, LogInv, AtConversation
  PROVE  /\ rewind.step = "restored" /\ HasBoundary /\ rewind # Idle
         /\ rewind.turn \in DOMAIN ckpts /\ rewind.boundary = ckpts[rewind.turn].index
         /\ rewind \in Rewinds
<1>1. rewind.step \in {"checked", "restored"}
  BY DEF AtConversation
<1>2. rewind # Idle
  BY <1>1, IdleRewind
<1>3. AsksCode /\ rewind.step = "restored"
  BY <1>2 DEF Books, RewindInv, AtConversation, AsksCode
<1>4. rewind.turn \in DOMAIN ckpts /\ rewind.boundary = ckpts[rewind.turn].index
  BY <1>1 DEF Books, RewindInv
<1>5. ckpts[rewind.turn].index <= Len(log) /\ ckpts[rewind.turn].index \in 0 .. MaxLog
  BY <1>3, <1>4, Typed DEF LogInv, Store, StoreOK, CkptOK
<1>6. rewind.boundary # NoBoundary
  BY <1>4, <1>5, BoundsAssumption, SMT DEF NoBoundary
<1> QED BY <1>2, <1>3, <1>4, <1>5, <1>6, Typed DEF HasBoundary, Rewinding

LEMMA CutBooks ==
  ASSUME TypeInv, Books, LogInv, RewindCut
  PROVE  Books'
<1>1. /\ AtConversation /\ rewind' = [rewind EXCEPT !.step = "cut"]
      /\ UNCHANGED <<files, phase, touching, next, bound, current, ckpts, disk, startFiles>>
  BY DEF RewindCut, turnVars, managerVars, storeVars, ghostVars
<1>2. rewind.step = "restored" /\ rewind # Idle /\ rewind \in Rewinds
  BY <1>1, Available
<1>3. /\ rewind'.step = "cut" /\ rewind'.turn = rewind.turn /\ rewind'.scope = rewind.scope
      /\ rewind'.boundary = rewind.boundary
  BY <1>1, <1>2, SMT DEF Rewinds
<1>4. StoreInv'
  BY <1>1 DEF Books, StoreInv
<1>5. CurrentInv'
  BY <1>1, <1>2 DEF Books, CurrentInv, Running
<1>6. RewindInv'
  BY <1>1, <1>2, <1>3 DEF Books, RewindInv, Epoch
<1>7. FilesInv'
  <2>1. Known = Known'
    BY <1>1, <1>2, <1>3 DEF Known
  <2> QED BY <1>1, <2>1 DEF Books, FilesInv
<1> QED BY <1>4, <1>5, <1>6, <1>7 DEF Books

LEMMA TruncateBooks ==
  ASSUME ~DeleteFails, TypeInv, Books, RewindTruncate
  PROVE  Books'
<1> DEFINE r == rewind.turn
<1>1. /\ rewind.step = "cut" /\ next' = r /\ bound' = Before(bound, r) /\ ckpts' = Before(ckpts, r)
      /\ current' = (IF current >= r THEN NoTurn ELSE current)
      /\ rewind' = [rewind EXCEPT !.step = "truncated"]
      /\ UNCHANGED <<files, phase, touching, startFiles>>
  BY DEF RewindTruncate, DropFrom, turnVars, ghostVars
<1>2. rewind # Idle /\ rewind \in Rewinds /\ r \in DOMAIN ckpts /\ files = startFiles[Epoch]
  BY <1>1, IdleRewind, Typed DEF Books, RewindInv, Rewinding
<1>3. rewind'.step = "truncated" /\ rewind'.scope = rewind.scope
  BY <1>1, <1>2, SMT DEF Rewinds
<1>4. /\ disk = ckpts /\ bound = Bounds(ckpts) /\ DOMAIN ckpts = 0 .. next - 1 /\ next \in Nat
      /\ \A t \in DOMAIN ckpts : ckpts[t].index >= 1
      /\ \A t, u \in DOMAIN ckpts :
           t < u => ckpts[t].index <= ckpts[u].index /\ ckpts[t].epoch < ckpts[u].epoch
  <2>1. next \in Nat
    BY Typed, SMT DEF Manager
  <2> QED BY <2>1 DEF Books, StoreInv
<1>5. /\ DOMAIN ckpts' = {k \in DOMAIN ckpts : k < r}
      /\ \A k \in DOMAIN ckpts' : ckpts'[k] = ckpts[k]
  BY <1>1 DEF Before, Restrict
<1>6. StoreInv'
  <2>1. disk' = ckpts'
    <3>1. PICK left \in SUBSET (DOMAIN disk \ DOMAIN ckpts') :
                 /\ left # {} => DeleteFails
                 /\ disk' = Restrict(disk, DOMAIN ckpts' \cup left)
      BY DEF RewindTruncate
    <3>2. disk' = Restrict(ckpts, DOMAIN ckpts')
      BY <1>4, <3>1
    <3>3. Restrict(ckpts, DOMAIN ckpts') = Restrict(ckpts, {k \in DOMAIN ckpts : k < r})
      BY <1>5
    <3> QED BY <1>1, <3>2, <3>3 DEF Before
  <2>2. bound' = Bounds(ckpts')
    BY <1>1, <1>4, BoundsBefore
  <2>3. DOMAIN ckpts' = 0 .. next' - 1
    BY <1>1, <1>2, <1>4, <1>5, SMT
  <2> QED BY <1>4, <1>5, <2>1, <2>2, <2>3 DEF StoreInv
<1>7. CurrentInv'
  <2>1. ~Running /\ touching = NoPath
    BY <1>2 DEF Books, CurrentInv, Running
  <2>2. current' = NoTurn
    <3>1. current # NoTurn => current = next - 1
      BY DEF Books, CurrentInv
    <3>2. next - 1 >= r
      BY <1>2, <1>4, SMT
    <3> QED BY <1>1, <3>1, <3>2
  <2> QED BY <1>1, <2>1, <2>2 DEF CurrentInv, Running
<1>8. RewindInv'
  BY <1>2, <1>3 DEF Books, RewindInv
<1>9. FilesInv'
  <2>1. StoreOK(ckpts, epochs) /\ epochs \in Nat
    BY Typed DEF Store
  <2>2. \A t \in Known : Intact(ckpts, files, startFiles, t)
    BY DEF Books, FilesInv
  <2>3. r \in Known /\ \A t \in DOMAIN ckpts' : t \in Known /\ t \in DOMAIN ckpts /\ t < r
    <3>1. DOMAIN ckpts \subseteq Nat
      BY <1>4, SMT
    <3>2. r <= r /\ \A t \in DOMAIN ckpts : t < r => t <= r
      BY <1>2, <3>1, SMT
    <3> QED BY <1>2, <1>5, <3>2 DEF Known
  <2>4. files = startFiles[ckpts[r].epoch]
    BY <1>2 DEF Epoch
  <2> HIDE DEF r
  <2>5. \A t \in DOMAIN ckpts' : Intact(Before(ckpts, r), files, startFiles, t)
    BY <1>2, <2>1, <2>2, <2>3, <2>4, IntactDrop
  <2> QED BY <1>1, <2>5 DEF FilesInv, Known
<1> QED BY <1>6, <1>7, <1>8, <1>9 DEF Books

\* A rewrite is always written.
LEMMA RewriteSaves ==
  ASSUME Save(log, TRUE)
  PROVE  /\ log' = log /\ UNCHANGED <<marker, branch, managerVars, storeVars>>
         /\ savedLog' = IF HasContent(log) THEN log ELSE savedLog
BY DEF Save, MayWrite

LEMMA RewindSaveBooks ==
  ASSUME Books, RewindSave
  PROVE  Books'
<1>1. /\ rewind.step = "truncated" /\ rewind' = Idle /\ UNCHANGED <<files, turnVars, ghostVars>>
      /\ UNCHANGED <<managerVars, storeVars>>
  BY RewriteSaves DEF RewindSave
<1>2. UNCHANGED <<files, phase, touching, startFiles, next, bound, current, ckpts, disk>>
  BY <1>1 DEF turnVars, ghostVars, managerVars, storeVars
<1>3. StoreInv'
  BY <1>2 DEF Books, StoreInv
<1>4. CurrentInv'
  BY <1>1, <1>2 DEF Books, CurrentInv, Running
<1>5. RewindInv'
  BY <1>1, IdleRewind DEF RewindInv
<1>6. FilesInv'
  <2>1. Known = DOMAIN ckpts /\ Known' = DOMAIN ckpts
    BY <1>1, <1>2, IdleRewind DEF Known
  <2> QED BY <1>2, <2>1 DEF Books, FilesInv
<1> QED BY <1>3, <1>4, <1>5, <1>6 DEF Books

LEMMA CrashBooks ==
  ASSUME Undisturbed, TypeInv, Books, CrashAndResume
  PROVE  Books' /\ rewind = Idle /\ UNCHANGED <<next, bound, ckpts, disk>>
<1>1. /\ Rebind(disk) /\ phase' = "idle" /\ touching' = NoPath /\ rewind' = Idle
      /\ UNCHANGED <<files, startFiles>> /\ CrashPoint \in CrashPoints
  BY DEF CrashAndResume, ghostVars
<1>2. rewind = Idle
  BY <1>1 DEF Undisturbed, CrashPoint
<1>3. disk = ckpts /\ bound = Bounds(ckpts) /\ DOMAIN ckpts = 0 .. next - 1
  BY DEF Books, StoreInv
<1>4. next \in 0 .. epochs /\ epochs \in Nat /\ DOMAIN ckpts \subseteq 0 .. epochs - 1
  BY Typed DEF Manager, Store, StoreOK
<1>5. NextTurn(ckpts) = next
  <2>1. CASE next = 0
    <3>1. DOMAIN ckpts = {}
      BY <1>3, <2>1, SMT
    <3> QED BY <1>4, <2>1, <3>1, NextTurnFacts
  <2>2. CASE next # 0
    <3>1. next \in 1 .. epochs
      BY <1>4, <2>2, SMT
    <3> QED BY <1>3, <1>4, <3>1, NextTurnFacts
  <2> QED BY <2>1, <2>2
<1>6. next' = next /\ bound' = bound /\ ckpts' = ckpts /\ disk' = disk /\ current' = NoTurn
  BY <1>1, <1>3, <1>5 DEF Rebind
<1>7. StoreInv'
  BY <1>6 DEF Books, StoreInv
<1>8. CurrentInv'
  BY <1>1, <1>6 DEF CurrentInv, Running
<1>9. RewindInv'
  BY <1>1, IdleRewind DEF RewindInv
<1>10. FilesInv'
  <2>1. Known = DOMAIN ckpts /\ Known' = DOMAIN ckpts
    BY <1>1, <1>2, <1>6, IdleRewind DEF Known
  <2> QED BY <1>1, <1>6, <2>1 DEF Books, FilesInv
<1> QED BY <1>2, <1>6, <1>7, <1>8, <1>9, <1>10 DEF Books

-----------------------------------------------------------------------------
(* The invariant of the transcripts.                                       *)

Texts == LogInv /\ RunInv

LEMMA PlainContent ==
  ASSUME NEW l, IsLog(l), NEW n, Plain(l, n)
  PROVE  HasContent(l) <=> Len(l) >= 2
<1>0. Len(l) \in Nat
  BY LogLength
<1>1. ASSUME NEW i \in 1 .. Len(l), l[i].role # "system"
      PROVE  Len(l) >= 2
  <2>1. i # 1
    <3>1. Len(l) >= 1
      BY <1>0, SMT
    <3>2. l[1].role = "system"
      BY <3>1 DEF Plain, SystemPrompt
    <3> QED BY <1>1, <3>2
  <2> QED BY <1>0, <2>1, SMT
<1>2. ASSUME Len(l) >= 2
      PROVE  HasContent(l)
  <2>1. 2 \in 1 .. Len(l) /\ 2 \in 2 .. Len(l)
    BY <1>0, <1>2, SMT
  <2> QED BY <2>1 DEF Plain, HasContent
<1> QED BY <1>1, <1>2 DEF HasContent

\* A log whose messages are those of a plain one, its first in front.
LEMMA PlainFrom ==
  ASSUME NEW l, NEW m, IsLog(l), IsLog(m), NEW n, Plain(l, n),
         Len(m) >= 1 => Len(l) >= 1 /\ m[1] = l[1],
         \A i \in 2 .. Len(m) : \E j \in 2 .. Len(l) : m[i] = l[j]
  PROVE  Plain(m, n)
<1>1. Len(l) \in Nat /\ Len(m) \in Nat
  BY LogLength
<1>2. ASSUME NEW i \in 1 .. Len(m)
      PROVE  m[i].epoch <= n
  <2>1. CASE i = 1
    <3>1. Len(m) >= 1 /\ 1 \in 1 .. Len(l)
      BY <1>1, SMT
    <3> QED BY <2>1, <3>1 DEF Plain
  <2>2. CASE i # 1
    <3>1. i \in 2 .. Len(m)
      BY <1>1, <2>2, SMT
    <3>2. PICK j \in 2 .. Len(l) : m[i] = l[j]
      BY <3>1
    <3>3. j \in 1 .. Len(l)
      BY <1>1, SMT
    <3> QED BY <3>2, <3>3 DEF Plain
  <2> QED BY <2>1, <2>2
<1>3. \A i \in 2 .. Len(m) : m[i].role # "system"
  BY DEF Plain
<1>4. Len(m) >= 1 => m[1] = SystemPrompt
  BY DEF Plain
<1> QED BY <1>2, <1>3, <1>4 DEF Plain

LEMMA PlainCut ==
  ASSUME NEW l, IsLog(l), NEW n, Plain(l, n), NEW k \in Nat, k <= Len(l)
  PROVE  Plain(SubSeq(l, 1, k), n)
<1> DEFINE m == SubSeq(l, 1, k)
<1>1. IsLog(m) /\ Len(m) = k /\ (\A i \in 1 .. k : m[i] = l[i]) /\ Len(l) \in Nat
  BY CutLog, LogLength
<1> HIDE DEF m
<1>2. Len(m) >= 1 => Len(l) >= 1 /\ m[1] = l[1]
  BY <1>1, SMT
<1>3. ASSUME NEW i \in 2 .. Len(m)
      PROVE  \E j \in 2 .. Len(l) : m[i] = l[j]
  <2>1. i \in 2 .. Len(l) /\ i \in 1 .. k
    BY <1>1, SMT
  <2> QED BY <1>1, <2>1
<1>4. Plain(m, n)
  BY <1>1, <1>2, <1>3, PlainFrom
<1> QED BY <1>4 DEF m

LEMMA PlainStrip ==
  ASSUME NEW l, IsLog(l), NEW n, Plain(l, n), NEW k \in Nat, k >= 1
  PROVE  Plain(Strip(l, k), n)
<1> DEFINE m == Strip(l, k)
<1>1. /\ IsLog(m) /\ Len(l) \in Nat /\ Len(m) \in Nat
      /\ Len(l) <= k => m = l
      /\ k < Len(l) => /\ Len(m) \in {k, k + 1}
                       /\ \A i \in 1 .. k : m[i] = l[i]
                       /\ Len(m) = k + 1 => \E j \in Prompts(l, k) : m[k + 1] = l[j]
  BY StripFacts, LogLength
<1> HIDE DEF m
<1>2. CASE Len(l) <= k
  BY <1>1, <1>2 DEF m
<1>3. CASE k < Len(l)
  <2>1. Len(m) >= 1 => Len(l) >= 1 /\ m[1] = l[1]
    <3>1. 1 \in 1 .. k /\ Len(l) >= 1
      BY <1>1, <1>3, SMT
    <3> QED BY <1>1, <1>3, <3>1
  <2>2. ASSUME NEW i \in 2 .. Len(m)
        PROVE  \E j \in 2 .. Len(l) : m[i] = l[j]
    <3>1. CASE i <= k
      <4>1. i \in 1 .. k /\ i \in 2 .. Len(l)
        BY <1>1, <1>3, <3>1, SMT
      <4> QED BY <1>1, <1>3, <4>1
    <3>2. CASE ~(i <= k)
      <4>1. i = k + 1 /\ Len(m) = k + 1
        BY <1>1, <1>3, <3>2, SMT
      <4>2. PICK j \in Prompts(l, k) : m[k + 1] = l[j]
        BY <1>1, <1>3, <4>1
      <4>3. j \in 2 .. Len(l)
        BY <1>1, SMT DEF Prompts
      <4> QED BY <4>1, <4>2, <4>3
    <3> QED BY <3>1, <3>2
  <2>3. Plain(m, n)
    BY <1>1, <2>1, <2>2, PlainFrom
  <2> QED BY <2>3 DEF m
<1> QED BY <1>1, <1>2, <1>3, SMT

LEMMA PlainGrows ==
  ASSUME NEW l, IsLog(l), NEW n \in Nat, NEW k \in Nat, n <= k, Plain(l, n)
  PROVE  Plain(l, k)
<1>1. \A i \in 1 .. Len(l) : l[i].epoch \in 0 .. MaxTurns
  BY LogLength DEF Message
<1>2. \A i \in 1 .. Len(l) : l[i].epoch <= k
  BY <1>1, BoundsAssumption, SMT DEF Plain
<1> QED BY <1>2 DEF Plain

LEMMA PlainAppend ==
  ASSUME NEW l, IsLog(l), NEW n \in Nat, Plain(l, n), Len(l) >= 1, Len(l) < MaxLog,
         NEW m \in Message, m.role # "system", m.epoch <= n
  PROVE  Plain(Append(l, m), n)
<1> DEFINE a == Append(l, m)
<1>1. /\ IsLog(a) /\ Len(a) = Len(l) + 1 /\ a[Len(l) + 1] = m
      /\ (\A i \in 1 .. Len(l) : a[i] = l[i]) /\ Len(l) \in Nat
  BY LongerLog, LogLength
<1> HIDE DEF a
<1>2. a[1] = SystemPrompt
  <2>1. 1 \in 1 .. Len(l)
    BY <1>1, SMT
  <2> QED BY <1>1, <2>1 DEF Plain
<1>3. ASSUME NEW i \in 1 .. Len(a)
      PROVE  a[i].epoch <= n /\ (i \in 2 .. Len(a) => a[i].role # "system")
  <2>1. CASE i = Len(l) + 1
    BY <1>1, <2>1
  <2>2. CASE i # Len(l) + 1
    <3>1. i \in 1 .. Len(l) /\ (i \in 2 .. Len(a) => i \in 2 .. Len(l))
      BY <1>1, <2>2, SMT
    <3> QED BY <1>1, <3>1 DEF Plain
  <2> QED BY <2>1, <2>2
<1>4. \A i \in 2 .. Len(a) : i \in 1 .. Len(a)
  BY <1>1, SMT
<1> QED BY <1>2, <1>3, <1>4 DEF Plain, a

LEMMA PrefixFacts ==
  ASSUME NEW k, NEW l, IsLog(k), IsLog(l)
  PROVE  /\ IsPrefixOf(l, l)
         /\ IsPrefixOf(k, l) /\ Len(l) <= Len(k) => k = l
         /\ \A m \in Message :
              IsPrefixOf(k, l) /\ Len(l) < MaxLog => IsPrefixOf(k, Append(l, m))
<1>1. Len(k) \in Nat /\ Len(l) \in Nat /\ k \in Seq(Message) /\ l \in Seq(Message)
  BY LogLength DEF IsLog
<1>2. IsPrefixOf(l, l)
  BY <1>1, SMT DEF IsPrefixOf
<1>3. ASSUME IsPrefixOf(k, l), Len(l) <= Len(k)
      PROVE  k = l
  <2>1. Len(k) = Len(l) /\ \A i \in 1 .. Len(k) : k[i] = l[i]
    BY <1>1, <1>3, SMT DEF IsPrefixOf
  <2> QED BY <1>1, <2>1, SeqEqual
<1>4. ASSUME NEW m \in Message, IsPrefixOf(k, l), Len(l) < MaxLog
      PROVE  IsPrefixOf(k, Append(l, m))
  <2> DEFINE a == Append(l, m)
  <2>1. Len(a) = Len(l) + 1 /\ \A i \in 1 .. Len(l) : a[i] = l[i]
    BY <1>4, LongerLog
  <2> HIDE DEF a
  <2>2. Len(k) <= Len(l) /\ \A i \in 1 .. Len(k) : k[i] = l[i]
    BY <1>4 DEF IsPrefixOf
  <2>3. Len(k) <= Len(a) /\ \A i \in 1 .. Len(k) : i \in 1 .. Len(l)
    BY <1>1, <2>1, <2>2, SMT
  <2> QED BY <2>1, <2>2, <2>3 DEF IsPrefixOf, a
<1> QED BY <1>2, <1>3, <1>4

\* A save during a turn, or at its end, writes the log to the session's file or
\* to a recovery branch; it never takes the file for the log's future.
LEMMA TurnSaves ==
  ASSUME TypeInv, LogInv, RunInv, Running, Save(log, FALSE)
  PROVE  /\ log' = log
         /\ \/ /\ savedLog' = IF Len(log) >= 2 THEN log ELSE savedLog
               /\ UNCHANGED <<branch, marker, managerVars, storeVars>>
            \/ savedLog' = log /\ marker' = NoMarker /\ Rebind(<<>>) /\ ~IsPrefixOf(savedLog, log)
<1>1. IsLog(log) /\ IsLog(savedLog) /\ (HasContent(log) <=> Len(log) >= 2)
      /\ Len(log) \in Nat /\ Len(savedLog) \in Nat
  BY Typed, PlainContent, LogLength DEF LogInv
<1>2. CASE ~HasContent(log)
  BY <1>1, <1>2 DEF Save, sessionVars
<1>3. CASE HasContent(log) /\ IsPrefixOf(savedLog, log)
  BY <1>1, <1>3 DEF Save, MayWrite
<1>4. CASE HasContent(log) /\ ~IsPrefixOf(savedLog, log)
  <2>1. ~IsPrefixOf(log, savedLog)
    <3>1. SUFFICES ASSUME IsPrefixOf(log, savedLog)
                   PROVE  FALSE
      OBVIOUS
    <3>2. /\ \A i \in 1 .. Len(savedLog) : savedLog[i].epoch < epochs
          /\ log[2].epoch = epochs
      BY <1>1, <1>4 DEF RunInv
    <3>3. 2 \in 1 .. Len(log) /\ 2 \in 1 .. Len(savedLog)
      BY <1>1, <1>4, <3>1, SMT DEF IsPrefixOf
    <3>4. log[2] = savedLog[2]
      BY <3>1, <3>3 DEF IsPrefixOf
    <3>5. savedLog[2].epoch < epochs /\ savedLog[2].epoch = epochs
      BY <3>2, <3>3, <3>4
    <3> QED BY <3>5, Typed, SMT
  <2> QED BY <1>1, <1>4, <2>1 DEF Save, MayWrite
<1> QED BY <1>2, <1>3, <1>4

\* The steps that leave transcripts, turns and boundaries alone.
LEMMA TextsSame ==
  ASSUME Texts, UNCHANGED <<log, savedLog, start, epochs>>, Running' <=> Running,
         marker' # NoMarker => phase' = "working" /\ marker' = start,
         DOMAIN ckpts' = DOMAIN ckpts,
         \A t \in DOMAIN ckpts : ckpts'[t].index = ckpts[t].index,
         \/ rewind' = rewind
         \/ rewind.step \notin {"cut", "truncated"} /\ rewind'.step \notin {"cut", "truncated"}
  PROVE  Texts'
<1>1. LogInv'
  BY DEF Texts, LogInv
<1>2. RunInv'
  BY DEF Texts, RunInv
<1> QED BY <1>1, <1>2 DEF Texts

LEMMA BeginTurnTexts ==
  ASSUME ~Overlap, TypeInv, Books, Texts, BeginTurn
  PROVE  Texts'
<1> DEFINE m == Len(log)
           r == [index |-> m, epoch |-> epochs + 1, files |-> <<>>]
<1>1. epochs \in Nat /\ IsLog(log) /\ IsLog(savedLog) /\ Len(log) \in Nat /\ Len(savedLog) \in Nat
  BY Typed, LogLength
<1>2. /\ ~Running /\ rewind = Idle /\ rewind.step = "idle" /\ epochs' = epochs + 1
      /\ ckpts' = Put(ckpts, next, r) /\ phase' = "asked" /\ start' = m
      /\ UNCHANGED <<log, savedLog, marker, rewind>>
  BY IdleRewind DEF BeginTurn, StartMessages, sessionVars
<1>3. r.index = m
  BY SMT
<1> HIDE DEF r, m
<1>4. /\ DOMAIN ckpts' = DOMAIN ckpts \cup {next} /\ ckpts'[next].index = m
      /\ \A t \in DOMAIN ckpts : t # next => ckpts'[t] = ckpts[t]
  BY <1>2, <1>3 DEF Put
<1>5. /\ Plain(log, epochs) /\ Plain(savedLog, epochs) /\ Len(log) >= 1
      /\ \A t \in DOMAIN ckpts : ckpts[t].index <= Len(log)
      /\ marker = NoMarker /\ (Len(log) >= 2 => savedLog = log)
  BY <1>2 DEF Texts, LogInv, Running
<1>6. m = Len(log) /\ m \in Nat /\ m <= m /\ Running' /\ epochs <= epochs' /\ epochs' \in Nat
  BY <1>1, <1>2, SMT DEF m, Running
<1>7. \A t \in DOMAIN ckpts' : ckpts'[t].index <= m
  BY <1>4, <1>5, <1>6
<1>8. LogInv'
  <2>1. Plain(log, epochs') /\ Plain(savedLog, epochs')
    BY <1>1, <1>5, <1>6, PlainGrows
  <2> QED BY <1>2, <1>5, <1>6, <1>7, <2>1 DEF LogInv
<1>9. RunInv'
  <2>1. CASE Len(log) >= 2
    BY <1>1, <1>2, <1>5, <1>6, <1>7, <2>1, PrefixFacts DEF RunInv
  <2>2. CASE ~(Len(log) >= 2)
    <3>1. m = 1
      BY <1>5, <1>6, <2>2, SMT
    <3>2. \A i \in 1 .. Len(savedLog) : savedLog[i].epoch < epochs'
      <4>1. \A i \in 1 .. Len(savedLog) : savedLog[i].epoch \in 0 .. MaxTurns
        BY <1>1, LogLength DEF Message
      <4> QED BY <1>1, <1>2, <1>5, <4>1, BoundsAssumption, SMT DEF Plain
    <3> QED BY <1>2, <1>5, <1>6, <1>7, <2>2, <3>1, <3>2 DEF RunInv
  <2> QED BY <2>1, <2>2
<1> QED BY <1>8, <1>9 DEF Texts

\* A message of the turn is appended.
LEMMA MessageTexts ==
  ASSUME TypeInv, Texts, Ask \/ Work
  PROVE  Texts'
<1>1. epochs \in Nat /\ IsLog(log) /\ IsLog(savedLog) /\ Len(log) \in Nat /\ Len(savedLog) \in Nat
      /\ epochs \in 0 .. MaxTurns
  BY Typed, LogLength
<1>2. PICK role \in {"prompt", "work"} : Append1(role)
  BY DEF Ask, Work
<1> DEFINE m == [epoch |-> epochs, role |-> role]
<1>3. m \in Message /\ m.role # "system" /\ m.epoch = epochs
  BY <1>1, MessageOK, SMT DEF Role
<1>4. Len(log) < MaxLog /\ log' = Append(log, m)
  BY <1>2 DEF Append1
<1> HIDE DEF m
<1>5. /\ Running /\ Running' /\ phase' = "working"
      /\ UNCHANGED <<savedLog, start, ckpts, rewind, epochs>>
      /\ marker' \in {marker, start}
  BY DEF Ask, Work, turnVars, storeVars, ghostVars, Running
<1>6. /\ Len(log') = Len(log) + 1 /\ log'[Len(log) + 1] = m
      /\ \A i \in 1 .. Len(log) : log'[i] = log[i]
  BY <1>1, <1>3, <1>4, LongerLog
<1>7. Len(log) >= 1 /\ Plain(log, epochs) /\ Plain(savedLog, epochs)
      /\ (marker # NoMarker => marker = start)
  BY DEF Texts, LogInv
<1>8. Plain(log', epochs)
  BY <1>1, <1>3, <1>4, <1>7, PlainAppend, SMT
<1>9. LogInv'
  <2>1. \A t \in DOMAIN ckpts' :
          (rewind'.step = "cut" => t <= rewind'.turn) => ckpts'[t].index <= Len(log')
    <3>1. \A t \in DOMAIN ckpts : ckpts[t].index \in 0 .. MaxLog
      BY Typed DEF Store, StoreOK, CkptOK
    <3>2. \A t \in DOMAIN ckpts :
            (rewind.step = "cut" => t <= rewind.turn) => ckpts[t].index <= Len(log)
      BY DEF Texts, LogInv
    <3>3. ASSUME NEW t \in DOMAIN ckpts, ckpts[t].index <= Len(log)
          PROVE  ckpts[t].index <= Len(log')
      BY <1>1, <1>6, <3>1, <3>3, BoundsAssumption, SMT
    <3> QED BY <1>5, <3>2, <3>3
  <2>2. Len(log') >= 1
    BY <1>1, <1>6, SMT
  <2> QED BY <1>5, <1>7, <1>8, <2>1, <2>2 DEF LogInv
<1>10. RunInv'
  <2>1. /\ start >= 1 /\ start <= Len(log) /\ start \in Nat
        /\ \A t \in DOMAIN ckpts : ckpts[t].index <= start
        /\ \/ IsPrefixOf(savedLog, log) /\ start <= Len(savedLog)
           \/ /\ start = 1 /\ \A i \in 1 .. Len(savedLog) : savedLog[i].epoch < epochs
              /\ Len(log) >= 2 => log[2].epoch = epochs
    BY <1>5, Typed DEF Texts, RunInv, Turn
  <2>2. start <= Len(log')
    BY <1>1, <1>6, <2>1, SMT
  <2>3. IsPrefixOf(savedLog, log) => IsPrefixOf(savedLog, log')
    BY <1>1, <1>3, <1>4, PrefixFacts
  <2>4. (Len(log) >= 2 => log[2].epoch = epochs) => log'[2].epoch = epochs
    <3>1. CASE Len(log) >= 2
      <4>1. 2 \in 1 .. Len(log)
        BY <1>1, <3>1, SMT
      <4> QED BY <1>6, <3>1, <4>1
    <3>2. CASE ~(Len(log) >= 2)
      <4>1. Len(log) + 1 = 2
        BY <1>1, <1>7, <3>2, SMT
      <4> QED BY <1>3, <1>6, <4>1
    <3> QED BY <3>1, <3>2
  <2> QED BY <1>5, <2>1, <2>2, <2>3, <2>4 DEF RunInv
<1> QED BY <1>9, <1>10 DEF Texts

LEMMA AutosaveTexts ==
  ASSUME TypeInv, Texts, Autosave
  PROVE  Texts'
<1>1. /\ Running /\ Running' /\ UNCHANGED <<phase, start, rewind, epochs>> /\ Save(log, FALSE)
  BY DEF Autosave, turnVars, ghostVars, Running
<1>2. IsLog(log) /\ IsLog(savedLog) /\ Len(log) \in Nat /\ start \in Nat
  BY Typed, LogLength DEF Turn
<1>3. /\ Plain(log, epochs) /\ Plain(savedLog, epochs) /\ Len(log) >= 1
      /\ marker # NoMarker => phase = "working" /\ marker = start
  BY DEF Texts, LogInv
<1>4. /\ start >= 1 /\ start <= Len(log)
      /\ \A t \in DOMAIN ckpts : ckpts[t].index <= start
  BY <1>1 DEF Texts, RunInv
<1>5. log' = log
  BY <1>1, TurnSaves DEF Texts
<1>6. CASE UNCHANGED <<savedLog, marker, ckpts>>
  BY <1>1, <1>3, <1>5, <1>6, TextsSame
<1>7. CASE /\ savedLog' = log /\ (marker' = marker \/ marker' = NoMarker)
           /\ ckpts' = ckpts \/ DOMAIN ckpts' = {}
  <2>1. \A t \in DOMAIN ckpts' : ckpts'[t].index <= start /\ t \in DOMAIN ckpts /\ ckpts'[t] = ckpts[t]
    BY <1>4, <1>7
  <2>2. LogInv'
    BY <1>1, <1>3, <1>5, <1>7, <2>1 DEF LogInv, Texts
  <2>3. RunInv'
    BY <1>1, <1>2, <1>4, <1>5, <1>7, <2>1, PrefixFacts DEF RunInv
  <2> QED BY <2>2, <2>3 DEF Texts
<1>8. Rebind(<<>>) => DOMAIN ckpts' = {}
  BY DEF Rebind
<1>9. storeVars' = storeVars => ckpts' = ckpts
  BY DEF storeVars
<1> QED BY <1>1, <1>6, <1>7, <1>8, <1>9, TurnSaves DEF Texts

LEMMA CancelTexts ==
  ASSUME TypeInv, Texts, Cancel
  PROVE  Texts'
<1>1. /\ Running /\ Running' /\ log' = Strip(log, start)
      /\ savedLog' = (IF Len(log) <= start THEN savedLog ELSE log') /\ marker' = NoMarker
      /\ UNCHANGED <<start, ckpts, rewind, epochs>>
  BY DEF Cancel, storeVars, ghostVars, Running
<1>2. IsLog(log) /\ IsLog(savedLog) /\ Len(log) \in Nat /\ start \in Nat
  BY Typed, LogLength DEF Turn
<1>3. /\ Plain(log, epochs) /\ Plain(savedLog, epochs) /\ Len(log) >= 1
  BY DEF Texts, LogInv
<1>4. /\ start >= 1 /\ start <= Len(log)
      /\ \A t \in DOMAIN ckpts : ckpts[t].index <= start
  BY <1>1 DEF Texts, RunInv
<1>5. CASE Len(log) <= start
  <2>1. log' = log
    BY <1>1, <1>2, <1>5, StripFacts
  <2> QED BY <1>1, <1>5, <2>1, TextsSame
<1>6. CASE ~(Len(log) <= start)
  <2>1. IsLog(log') /\ Plain(log', epochs)
    BY <1>1, <1>2, <1>3, <1>4, PlainStrip, StripFacts
  <2>2. Len(log') >= start /\ Len(log') \in Nat
    <3>1. start < Len(log)
      BY <1>2, <1>6, SMT
    <3>2. Len(log') \in {start, start + 1}
      BY <1>1, <1>2, <3>1, StripFacts
    <3> QED BY <1>2, <3>2, SMT
  <2>3. savedLog' = log' /\ start <= Len(log') /\ Len(log') >= 1
    BY <1>1, <1>2, <1>4, <1>6, <2>2, SMT
  <2>4. \A t \in DOMAIN ckpts : ckpts[t].index <= Len(log')
    <3>1. \A t \in DOMAIN ckpts : ckpts[t].index \in 0 .. MaxLog
      BY Typed DEF Store, StoreOK, CkptOK
    <3> QED BY <1>2, <1>4, <2>2, <3>1, BoundsAssumption, SMT
  <2>5. LogInv'
    BY <1>1, <2>1, <2>3, <2>4 DEF LogInv
  <2>6. RunInv'
    BY <1>1, <1>4, <2>1, <2>3, PrefixFacts DEF RunInv
  <2> QED BY <2>5, <2>6 DEF Texts
<1> QED BY <1>5, <1>6

\* The end of a turn: the file holds the log, or the log nothing.
LEMMA EndTurnTexts ==
  ASSUME TypeInv, Books, Texts, EndTurn
  PROVE  Texts'
<1>1. /\ Running /\ phase # "working" /\ phase' = "idle" /\ ~Running'
      /\ UNCHANGED <<start, rewind, epochs>>
  BY DEF EndTurn, ghostVars, Running
<1>2. IsLog(log) /\ IsLog(savedLog) /\ Len(log) \in Nat /\ Len(savedLog) \in Nat /\ start \in Nat
  BY Typed, LogLength DEF Turn
<1>3. /\ Plain(log, epochs) /\ Plain(savedLog, epochs) /\ Len(log) >= 1 /\ marker = NoMarker
  BY <1>1 DEF Texts, LogInv
<1>4. /\ start >= 1 /\ start <= Len(log)
      /\ \A t \in DOMAIN ckpts : ckpts[t].index <= start
      /\ \/ IsPrefixOf(savedLog, log) /\ start <= Len(savedLog)
         \/ start = 1
  BY <1>1 DEF Texts, RunInv
<1>5. rewind.step = "idle"
  BY <1>1, IdleRewind DEF Books, CurrentInv
<1>6. ASSUME NEW k \in Nat, start <= k
      PROVE  \A t \in DOMAIN ckpts : ckpts[t].index <= k
  <2>1. \A t \in DOMAIN ckpts : ckpts[t].index \in 0 .. MaxLog
    BY Typed DEF Store, StoreOK, CkptOK
  <2> QED BY <1>2, <1>4, <1>6, <2>1, BoundsAssumption, SMT
<1>7. CASE UNCHANGED <<log, savedLog, marker, ckpts>> /\ (Len(log) >= 2 => savedLog = log)
  <2>1. \A t \in DOMAIN ckpts : ckpts[t].index <= Len(log)
    BY <1>2, <1>4, <1>6
  <2>2. Len(savedLog) >= 1 => \A t \in DOMAIN ckpts : ckpts[t].index <= Len(savedLog)
    <3>1. Len(savedLog) >= 1 => start <= Len(savedLog)
      BY <1>4
    <3> QED BY <1>2, <1>6, <3>1
  <2>3. LogInv'
    BY <1>1, <1>3, <1>7, <2>1, <2>2 DEF LogInv
  <2> QED BY <1>1, <2>3 DEF Texts, RunInv
<1>8. CASE /\ log' = log /\ savedLog' = log /\ marker' = NoMarker
           /\ ckpts' = ckpts \/ DOMAIN ckpts' = {}
  <2>1. \A t \in DOMAIN ckpts' : ckpts'[t].index <= Len(log)
    BY <1>2, <1>4, <1>6, <1>8
  <2>2. LogInv'
    BY <1>1, <1>3, <1>8, <2>1 DEF LogInv
  <2> QED BY <1>1, <2>2 DEF Texts, RunInv
<1>9. Rebind(<<>>) => DOMAIN ckpts' = {}
  BY DEF Rebind
<1>10. storeVars' = storeVars => ckpts' = ckpts
  BY DEF storeVars
<1>11. CASE HasNewMessages
  <2>1. Save(log, FALSE)
    BY <1>11 DEF EndTurn
  <2>2. Len(log) >= 2
    BY <1>2, <1>4, <1>11, SMT DEF HasNewMessages
  <2> QED BY <1>1, <1>3, <1>8, <1>9, <1>10, <2>1, <2>2, TurnSaves DEF Texts
<1>12. CASE ~HasNewMessages
  <2>1. UNCHANGED <<log, savedLog, marker, ckpts>>
    BY <1>12 DEF EndTurn, sessionVars, storeVars
  <2>2. Len(log) <= start /\ (start <= Len(savedLog) => Len(log) <= Len(savedLog))
    BY <1>2, <1>4, <1>12, SMT DEF HasNewMessages
  <2>3. Len(log) >= 2 => start # 1
    BY <1>2, <2>2, SMT
  <2>4. Len(log) >= 2 => savedLog = log
    BY <1>2, <1>4, <2>2, <2>3, PrefixFacts
  <2> QED BY <1>7, <2>1, <2>4
<1> QED BY <1>11, <1>12

\* Between turns the file holds the log, so the snapshot before a fork finds
\* nothing to write.
LEMMA IdleSaved ==
  ASSUME TypeInv, LogInv, ~Running, rewind = Idle
  PROVE  ~HasContent(log) \/ (MayWrite(log, FALSE) /\ savedLog = log)
<1>1. IsLog(log) /\ IsLog(savedLog) /\ (HasContent(log) <=> Len(log) >= 2)
  BY Typed, PlainContent DEF LogInv
<1>2. Len(log) >= 2 => savedLog = log
  BY IdleRewind DEF LogInv
<1>3. IsPrefixOf(log, log)
  BY <1>1, PrefixFacts
<1> QED BY <1>1, <1>2, <1>3 DEF MayWrite

LEMMA ForkPlain ==
  ASSUME TypeInv, LogInv, NEW t, Fork(t)
  PROVE  /\ log' = SubSeq(log, 1, IF bound[t] > Len(log) THEN Len(log) ELSE bound[t])
         /\ UNCHANGED branch
<1>1. ~Behind /\ ~Diverged
  BY IdleSaved DEF Fork, Behind, Diverged
<1> QED BY <1>1 DEF Fork

LEMMA ForkSessionSame ==
  ASSUME TypeInv, LogInv, NEW t, ForkSession(t)
  PROVE  UNCHANGED vars
<1>1. UNCHANGED <<sessionVars, managerVars, storeVars>>
  <2>1. Save(log, FALSE) /\ (~HasContent(log) \/ (MayWrite(log, FALSE) /\ savedLog = log))
    BY IdleSaved DEF ForkSession
  <2> QED BY <2>1 DEF Save, sessionVars
<1>2. UNCHANGED <<files, turnVars, rewind, ghostVars>>
  BY DEF ForkSession
<1> QED BY <1>1, <1>2 DEF vars

\* No turn without a checkpoint comes before one that has one.
LEMMA UnknownSame ==
  ASSUME TypeInv, Books, NEW t \in Targets, NEW scope, RewindUnknown(t, scope)
  PROVE  UNCHANGED vars
<1>1. /\ t \notin DOMAIN ckpts /\ files' \in {files, Restored(ckpts, t)}
      /\ UNCHANGED <<sessionVars, turnVars, managerVars, storeVars, rewind, ghostVars>>
  BY DEF RewindUnknown
<1>2. t \in Nat /\ DOMAIN ckpts = 0 .. next - 1 /\ next \in 0 .. epochs /\ epochs \in Nat
  BY TargetsAssumption, Typed DEF Books, StoreInv, Manager
<1>3. \A u \in DOMAIN ckpts : ~(u >= t)
  BY <1>1, <1>2, SMT
<1>4. \A p \in Paths : Restored(ckpts, t)[p] = files[p]
  <2>1. \A p \in Paths : Touched(ckpts, p, t) = {}
    BY <1>3 DEF Touched
  <2> QED BY <2>1, UntouchedStays
<1>5. Restored(ckpts, t) \in Workspace /\ files \in Workspace
  BY RestoredOK, Typed
<1>6. Restored(ckpts, t) = files
  BY <1>4, <1>5 DEF Workspace
<1> QED BY <1>1, <1>6 DEF vars

LEMMA ForkTexts ==
  ASSUME TypeInv, Books, Texts, NEW t, Fork(t)
  PROVE  Texts'
<1> DEFINE n == IF bound[t] > Len(log) THEN Len(log) ELSE bound[t]
<1>1. /\ ~Running /\ rewind = Idle /\ t \in DOMAIN bound /\ log' = SubSeq(log, 1, n)
      /\ savedLog' = log' /\ marker' = NoMarker /\ DOMAIN ckpts' = {}
      /\ UNCHANGED <<phase, rewind, epochs>>
  <2>1. log' = SubSeq(log, 1, n)
    BY ForkPlain DEF Texts
  <2>2. /\ ~Running /\ rewind = Idle /\ t \in DOMAIN bound
        /\ savedLog' = log' /\ marker' = NoMarker /\ ckpts' = <<>>
        /\ UNCHANGED <<phase, rewind, epochs>>
    BY DEF Fork, Rebind, turnVars, ghostVars
  <2>3. DOMAIN <<>> = {}
    BY EmptyStoreOK
  <2> QED BY <2>1, <2>2, <2>3
<1>2. IsLog(log) /\ Len(log) \in Nat /\ Plain(log, epochs) /\ Len(log) >= 1
  BY Typed, LogLength DEF Texts, LogInv
<1>3. t \in DOMAIN ckpts /\ bound[t] = ckpts[t].index /\ bound[t] >= 1
  BY <1>1 DEF Books, StoreInv, Bounds
<1>4. bound[t] \in 0 .. MaxLog
  BY <1>3, Typed DEF Store, StoreOK, CkptOK
<1>5. n \in Nat /\ n <= Len(log) /\ n >= 1
  BY <1>2, <1>3, <1>4, BoundsAssumption, SMT
<1> HIDE DEF n
<1>6. Plain(log', epochs) /\ Len(log') = n
  BY <1>1, <1>2, <1>5, PlainCut, CutLog
<1>7. LogInv'
  BY <1>1, <1>5, <1>6 DEF LogInv
<1> QED BY <1>1, <1>7 DEF Texts, RunInv, Running

LEMMA CutTexts ==
  ASSUME TypeInv, Books, Texts, RewindCut
  PROVE  Texts'
<1> DEFINE r == rewind.turn
           n == ckpts[r].index
<1>1. /\ AtConversation /\ log' = SubSeq(log, 1, rewind.boundary)
      /\ rewind' = [rewind EXCEPT !.step = "cut"]
      /\ UNCHANGED <<savedLog, marker, phase, ckpts, epochs>>
  BY DEF RewindCut, turnVars, storeVars, ghostVars
<1>2. /\ rewind.step = "restored" /\ rewind # Idle /\ rewind \in Rewinds /\ HasBoundary
      /\ r \in DOMAIN ckpts /\ rewind.boundary = n
  BY <1>1, Available DEF Texts
<1>3. rewind'.step = "cut" /\ rewind'.turn = r
  BY <1>1, <1>2, SMT DEF Rewinds
<1>4. ~Running
  BY <1>2 DEF Books, CurrentInv
<1>5. n \in Nat /\ n >= 1 /\ n <= Len(log)
  <2>1. n \in 0 .. MaxLog
    BY <1>2, Typed DEF Store, StoreOK, CkptOK
  <2>2. n >= 1 /\ n <= Len(log)
    BY <1>2 DEF Books, StoreInv, HasBoundary
  <2> QED BY <2>1, <2>2, BoundsAssumption, SMT
<1>6. /\ DOMAIN ckpts \subseteq Nat
      /\ \A t, u \in DOMAIN ckpts : t < u => ckpts[t].index <= ckpts[u].index
  BY Typed, SMT DEF Books, StoreInv, Store, StoreOK
<1> HIDE DEF r, n
<1>7. Plain(log, epochs) /\ Plain(savedLog, epochs) /\ IsLog(log)
  BY Typed DEF Texts, LogInv
<1>8. Plain(log', epochs) /\ Len(log') = n
  BY <1>1, <1>2, <1>5, <1>7, PlainCut, CutLog
<1>9. \A t \in DOMAIN ckpts : t <= r => ckpts[t].index <= n
  <2>1. ASSUME NEW t \in DOMAIN ckpts, t <= r
        PROVE  ckpts[t].index <= n
    <3>1. t = r \/ t < r
      BY <1>2, <1>6, <2>1, SMT
    <3>2. n <= n
      BY <1>5, SMT
    <3> QED BY <1>2, <1>6, <3>1, <3>2 DEF n
  <2> QED BY <2>1
<1>10. LogInv'
  BY <1>1, <1>3, <1>4, <1>5, <1>7, <1>8, <1>9 DEF LogInv, Texts, Running
<1> QED BY <1>1, <1>4, <1>10 DEF Texts, RunInv, Running

LEMMA TruncateTexts ==
  ASSUME TypeInv, Books, Texts, RewindTruncate
  PROVE  Texts'
<1>1. /\ rewind.step = "cut" /\ ckpts' = Before(ckpts, rewind.turn)
      /\ rewind' = [rewind EXCEPT !.step = "truncated"]
      /\ UNCHANGED <<log, savedLog, marker, phase, start, epochs>>
  BY DEF RewindTruncate, DropFrom, turnVars, sessionVars, ghostVars
<1>2. rewind # Idle /\ rewind \in Rewinds /\ rewind.turn \in DOMAIN ckpts
  BY <1>1, IdleRewind, Typed DEF Books, RewindInv, Rewinding
<1>3. rewind'.step = "truncated"
  BY <1>1, <1>2, SMT DEF Rewinds
<1>4. \A t \in DOMAIN ckpts' : t \in DOMAIN ckpts /\ t <= rewind.turn /\ ckpts'[t] = ckpts[t]
  <2>1. DOMAIN ckpts \subseteq Nat
    BY Typed, SMT DEF Store, StoreOK
  <2>2. \A t \in DOMAIN ckpts : t < rewind.turn => t <= rewind.turn
    BY <1>2, <2>1, SMT
  <2> QED BY <1>1, <2>2 DEF Before, Restrict
<1>5. ~Running
  BY <1>2 DEF Books, CurrentInv
<1>6. LogInv'
  BY <1>1, <1>3, <1>4, <1>5 DEF LogInv, Texts, Running
<1> QED BY <1>1, <1>5, <1>6 DEF Texts, RunInv, Running

LEMMA RewindSaveTexts ==
  ASSUME TypeInv, Books, Texts, RewindSave
  PROVE  Texts'
<1>1. /\ rewind.step = "truncated" /\ rewind' = Idle /\ rewind'.step = "idle" /\ log' = log
      /\ savedLog' = (IF HasContent(log) THEN log ELSE savedLog)
      /\ UNCHANGED <<marker, phase, start, ckpts, epochs>>
  BY RewriteSaves, IdleRewind DEF RewindSave, turnVars, storeVars, ghostVars
<1>2. ~Running
  BY <1>1, IdleRewind DEF Books, CurrentInv
<1>3. HasContent(log) <=> Len(log) >= 2
  BY Typed, PlainContent DEF Texts, LogInv
<1>4. \A t \in DOMAIN ckpts : ckpts[t].index <= Len(log)
  BY <1>1 DEF Texts, LogInv
<1>5. Plain(savedLog', epochs)
  BY <1>1 DEF Texts, LogInv
<1>6. LogInv'
  BY <1>1, <1>2, <1>3, <1>4, <1>5 DEF LogInv, Texts, Running
<1> QED BY <1>1, <1>2, <1>6 DEF Texts, RunInv, Running

LEMMA CrashTexts ==
  ASSUME Undisturbed, TypeInv, Books, Texts, CrashAndResume
  PROVE  Texts'
<1>1. /\ savedLog # <<>> /\ log' = ResumedLog /\ savedLog' = log' /\ marker' = NoMarker
      /\ phase' = "idle" /\ rewind' = Idle /\ rewind'.step = "idle" /\ rewind = Idle
      /\ UNCHANGED <<ckpts, epochs>>
  BY CrashBooks, IdleRewind DEF CrashAndResume, ghostVars
<1>2. /\ IsLog(savedLog) /\ Len(savedLog) \in Nat /\ Len(savedLog) >= 1 /\ start \in Nat
      /\ Plain(savedLog, epochs)
  <2>1. IsLog(savedLog) /\ Len(savedLog) \in Nat /\ Plain(savedLog, epochs) /\ start \in Nat
    BY Typed, LogLength DEF Texts, LogInv, Turn
  <2>2. savedLog \in Seq(Message)
    BY <2>1 DEF IsLog
  <2>3. Len(savedLog) # 0
    BY <1>1, <2>2, EmptySeq
  <2> QED BY <2>1, <2>3, SMT
<1>3. /\ Plain(log', epochs) /\ Len(log') \in Nat /\ Len(log') >= 1
      /\ \A t \in DOMAIN ckpts : ckpts[t].index <= Len(log')
  <2>1. CASE marker = NoMarker
    <3>1. log' = savedLog
      BY <1>1, <2>1 DEF ResumedLog
    <3>2. ASSUME NEW t \in DOMAIN ckpts
          PROVE  ckpts[t].index <= Len(savedLog)
      <4>1. CASE Running
        <5>1. start <= Len(savedLog) /\ ckpts[t].index <= start
          BY <1>2, <4>1 DEF Texts, RunInv
        <5>2. ckpts[t].index \in 0 .. MaxLog
          BY Typed DEF Store, StoreOK, CkptOK
        <5> QED BY <1>2, <5>1, <5>2, BoundsAssumption, SMT
      <4>2. CASE ~Running
        BY <1>2, <4>2 DEF Texts, LogInv
      <4> QED BY <4>1, <4>2
    <3> QED BY <1>2, <3>1, <3>2
  <2>2. CASE marker # NoMarker
    <3>1. marker = start /\ Running /\ log' = Strip(savedLog, start)
      BY <1>1, <2>2 DEF Texts, LogInv, ResumedLog, Running
    <3>2. start >= 1 /\ start <= Len(savedLog) /\ \A t \in DOMAIN ckpts : ckpts[t].index <= start
      BY <1>2, <3>1 DEF Texts, RunInv
    <3>3. IsLog(log') /\ Plain(log', epochs) /\ Len(log') \in Nat
      BY <1>2, <3>1, <3>2, PlainStrip, StripFacts, LogLength
    <3>4. Len(log') >= start
      <4>1. CASE start < Len(savedLog)
        <5>1. Len(log') \in {start, start + 1}
          BY <1>2, <3>1, <4>1, StripFacts
        <5> QED BY <1>2, <5>1, SMT
      <4>2. CASE ~(start < Len(savedLog))
        <5>1. Len(savedLog) <= start
          BY <1>2, <4>2, SMT
        <5>2. log' = savedLog
          BY <1>2, <3>1, <5>1, StripFacts
        <5> QED BY <1>2, <3>2, <5>2
      <4> QED BY <4>1, <4>2
    <3>5. \A t \in DOMAIN ckpts : ckpts[t].index <= Len(log')
      <4>1. \A t \in DOMAIN ckpts : ckpts[t].index \in 0 .. MaxLog
        BY Typed DEF Store, StoreOK, CkptOK
      <4> QED BY <1>2, <3>2, <3>3, <3>4, <4>1, BoundsAssumption, SMT
    <3>6. Len(log') >= 1
      BY <1>2, <3>2, <3>3, <3>4, SMT
    <3> QED BY <3>3, <3>5, <3>6
  <2> QED BY <2>1, <2>2
<1>4. LogInv'
  BY <1>1, <1>3 DEF LogInv
<1> QED BY <1>1, <1>4 DEF Texts, RunInv, Running

-----------------------------------------------------------------------------
(* Rewinds restore.                                                        *)

Inv == TypeInv /\ Books /\ Texts

LEMMA InitBooks ==
  ASSUME Init
  PROVE  Books /\ Texts
<1>1. /\ touching = NoPath /\ log = <<SystemPrompt>> /\ savedLog = <<>>
      /\ marker = NoMarker /\ phase = "idle" /\ next = 0 /\ bound = <<>>
      /\ current = NoTurn /\ ckpts = <<>> /\ disk = <<>> /\ rewind = Idle /\ epochs = 0
      /\ rewind.step = "idle"
  BY IdleRewind DEF Init
<1>2. DOMAIN ckpts = {}
  BY <1>1
<1>3. StoreInv
  <2>1. bound = Bounds(ckpts)
    BY <1>1 DEF Bounds
  <2>2. 0 .. next - 1 = {}
    BY <1>1, SMT
  <2> QED BY <1>1, <1>2, <2>1, <2>2 DEF StoreInv
<1>4. CurrentInv /\ RewindInv /\ FilesInv
  BY <1>1, <1>2 DEF CurrentInv, RewindInv, FilesInv, Known, Running
<1>5. Plain(log, epochs) /\ Len(log) = 1
  BY <1>1, SMT DEF Plain, SystemPrompt
<1>6. Plain(savedLog, epochs) /\ Len(savedLog) = 0
  BY <1>1, SMT DEF Plain
<1>7. LogInv
  BY <1>1, <1>2, <1>5, <1>6, SMT DEF LogInv
<1>8. RunInv
  BY <1>1 DEF RunInv, Running
<1> QED BY <1>3, <1>4, <1>7, <1>8 DEF Books, Texts

\* A turn's steps after its start.
LEMMA TurnSteps ==
  ASSUME TypeInv, Books, Texts,
         \/ Blocked \/ Ask \/ Work \/ Finish \/ Cancel \/ Autosave \/ EndTurn
  PROVE  Books' /\ Texts'
<1>1. UNCHANGED <<files, rewind, startFiles, touching>>
  BY DEF Blocked, Ask, Work, Finish, Cancel, Autosave, EndTurn, turnVars, ghostVars
<1>2. touching # NoPath => phase = "working"
  BY DEF Books, CurrentInv
<1>3. CASE Blocked
  <2>1. /\ UNCHANGED <<managerVars, storeVars, log, savedLog, marker, start, epochs>> /\ touching = NoPath
        /\ Running /\ Running' /\ marker = NoMarker
    BY <1>2, <1>3 DEF Blocked, Texts, LogInv, sessionVars, ghostVars, Running
  <2>2. UNCHANGED ckpts
    BY <2>1 DEF storeVars
  <2> QED BY <1>1, <2>1, <2>2, BooksSame, TextsSame
<1>4. CASE Ask \/ Work
  <2>1. UNCHANGED <<managerVars, storeVars>> /\ Running /\ phase' = "working"
    BY <1>4 DEF Ask, Work, turnVars, Running
  <2> QED BY <1>1, <1>4, <2>1, BooksSame, MessageTexts
<1>5. CASE Finish
  <2>1. /\ UNCHANGED <<managerVars, storeVars, log, savedLog, start, epochs>> /\ touching = NoPath
        /\ Running /\ Running' /\ marker' = NoMarker
    BY <1>5 DEF Finish, ghostVars, Running
  <2>2. UNCHANGED ckpts
    BY <2>1 DEF storeVars
  <2> QED BY <1>1, <2>1, <2>2, BooksSame, TextsSame
<1>6. CASE Cancel
  <2>1. UNCHANGED <<managerVars, storeVars>> /\ Running /\ touching = NoPath
    BY <1>6 DEF Cancel, Running
  <2> QED BY <1>1, <1>6, <2>1, BooksSame, CancelTexts
<1>7. CASE Autosave
  <2>1. /\ Running /\ UNCHANGED phase /\ rewind = Idle
        /\ UNCHANGED <<managerVars, storeVars>> \/ Rebind(<<>>)
    BY <1>7, TurnSaves DEF Autosave, turnVars, Running, Texts, Books, CurrentInv
  <2> QED BY <1>1, <1>2, <1>7, <2>1, BooksSame, BooksEmpty, AutosaveTexts
<1>8. CASE EndTurn
  <2>1. Running /\ touching = NoPath /\ rewind = Idle
    BY <1>2, <1>8 DEF EndTurn, Running, Books, CurrentInv
  <2>2. UNCHANGED <<managerVars, storeVars>> \/ Rebind(<<>>)
    BY <1>8, <2>1, TurnSaves DEF EndTurn, Texts
  <2> QED BY <1>1, <1>8, <2>1, <2>2, BooksSame, BooksEmpty, EndTurnTexts
<1> QED BY <1>3, <1>4, <1>5, <1>6, <1>7, <1>8

\* Edits, and the steps of a rewind, before it cuts the log.
LEMMA FileSteps ==
  ASSUME Undisturbed, TypeInv, Books, Texts,
         \/ \E p \in Paths : PreEdit(p)
         \/ \E c \in Content : Edit(c)
         \/ \E t \in Targets, scope \in Scopes : RewindCheck(t, scope)
         \/ RewindCode
  PROVE  Books' /\ Texts'
<1>1. UNCHANGED <<log, savedLog, marker, phase, start, epochs>>
  BY DEF PreEdit, Edit, RewindCheck, RewindCode, sessionVars, turnVars, ghostVars
<1>2. (Running' <=> Running) /\ (marker' # NoMarker => phase' = "working" /\ marker' = start)
  BY <1>1 DEF Texts, LogInv, Running
<1>3. ASSUME NEW p \in Paths, PreEdit(p)
      PROVE  Books' /\ Texts'
  <2>1. /\ DOMAIN ckpts' = DOMAIN ckpts
        /\ \A t \in DOMAIN ckpts : ckpts'[t].index = ckpts[t].index
    <3>1. CASE KeepsSnapshot(p)
      BY <1>3, <3>1, PreEditStore
    <3>2. CASE ~KeepsSnapshot(p)
      BY <1>3, <3>2 DEF PreEdit
    <3> QED BY <3>1, <3>2
  <2>2. rewind' = rewind
    BY <1>3 DEF PreEdit
  <2> QED BY <1>1, <1>2, <1>3, <2>1, <2>2, PreEditBooks, TextsSame
<1>4. ASSUME NEW c \in Content, Edit(c)
      PROVE  Books' /\ Texts'
  <2>1. UNCHANGED <<ckpts, rewind>>
    BY <1>4 DEF Edit, storeVars
  <2> QED BY <1>1, <1>2, <1>4, <2>1, EditBooks, TextsSame
<1>5. ASSUME NEW t \in Targets, NEW scope \in Scopes, RewindCheck(t, scope)
      PROVE  Books' /\ Texts'
  <2>1. UNCHANGED ckpts /\ rewind.step = "idle" /\ rewind'.step = "checked"
    BY <1>5, IdleRewind DEF RewindCheck, storeVars
  <2> QED BY <1>1, <1>2, <1>5, <2>1, CheckBooks, TextsSame
<1>6. CASE RewindCode
  <2>1. UNCHANGED ckpts /\ rewind.step = "checked" /\ rewind \in Rewinds
        /\ (rewind' = Idle \/ rewind' = [rewind EXCEPT !.step = "restored"])
    BY <1>6, Typed DEF RewindCode, storeVars, Rewinding
  <2>2. rewind'.step \in {"idle", "restored"}
    BY <2>1, IdleRewind, SMT DEF Rewinds
  <2> QED BY <1>1, <1>2, <1>6, <2>1, <2>2, CodeBooks, TextsSame
<1> QED BY <1>3, <1>4, <1>5, <1>6

LEMMA InvStep ==
  ASSUME Undisturbed, Inv, [Next]_vars
  PROVE  Inv'
<1>1. TypeInv /\ Books /\ Texts /\ LogInv /\ ~Compaction /\ ~Summaries /\ ~Overlap /\ ~DeleteFails
  BY DEF Inv, Texts, Undisturbed
<1>2. TypeInv'
  BY <1>1, TypeStep
<1>3. CASE BeginTurn
  BY <1>1, <1>2, <1>3, BeginTurnBooks, BeginTurnTexts DEF Inv
<1>4. CASE Blocked \/ Ask \/ Work \/ Finish \/ Cancel \/ Autosave \/ EndTurn
  BY <1>1, <1>2, <1>4, TurnSteps DEF Inv
<1>5. CASE \/ \E p \in Paths : PreEdit(p)
           \/ \E c \in Content : Edit(c)
           \/ \E t \in Targets, scope \in Scopes : RewindCheck(t, scope)
           \/ RewindCode
  BY <1>1, <1>2, <1>5, FileSteps DEF Inv
<1>6. CASE CompactAuto \/ CompactCommand \/ \E t \in Targets : Summarize(t)
  BY <1>1, <1>6 DEF CompactAuto, CompactCommand, Summarize
<1>7. ASSUME NEW t \in Targets, Fork(t)
      PROVE  Inv'
  <2>1. Rebind(<<>>) /\ rewind' = Idle /\ phase' = phase /\ touching' = touching
    BY <1>7 DEF Fork, turnVars
  <2>2. touching # NoPath => phase = "working"
    BY <1>1 DEF Books, CurrentInv
  <2> QED BY <1>1, <1>2, <1>7, <2>1, <2>2, BooksEmpty, ForkTexts DEF Inv
<1>8. CASE RewindUnavailable
  BY <1>1, <1>8, Available DEF RewindUnavailable
<1>9. CASE RewindCut
  BY <1>1, <1>2, <1>9, CutBooks, CutTexts DEF Inv
<1>10. CASE RewindTruncate
  BY <1>1, <1>2, <1>10, TruncateBooks, TruncateTexts DEF Inv
<1>11. CASE RewindSave
  BY <1>1, <1>2, <1>11, RewindSaveBooks, RewindSaveTexts DEF Inv
<1>12. CASE CrashAndResume
  BY <1>1, <1>2, <1>12, CrashBooks, CrashTexts DEF Inv
<1>13. CASE UNCHANGED vars
  <2>1. UNCHANGED <<files, managerVars, storeVars, rewind, startFiles, touching, phase,
                    log, savedLog, marker, start, epochs>>
    BY <1>13 DEF vars, sessionVars, turnVars, ghostVars
  <2>2. /\ (Running' <=> Running) /\ UNCHANGED ckpts
        /\ touching # NoPath => phase' = "working"
        /\ marker' # NoMarker => phase' = "working" /\ marker' = start
    BY <1>1, <2>1 DEF Running, storeVars, Books, CurrentInv, LogInv
  <2> QED BY <1>1, <1>2, <2>1, <2>2, BooksSame, TextsSame DEF Inv
<1>14. CASE (\E t \in Targets : ForkSession(t))
            \/ \E t \in Targets, scope \in Scopes : RewindUnknown(t, scope)
  BY <1>1, <1>13, <1>14, ForkSessionSame, UnknownSame
<1> QED
  BY <1>3, <1>4, <1>5, <1>6, <1>7, <1>8, <1>9, <1>10, <1>11, <1>12, <1>13, <1>14 DEF Next

\* However turns, edits, cancellations, autosaves, forks, crashes and earlier
\* rewinds came about, restoring the code of a turn gives every file the content
\* it had when that turn began.
THEOREM RewindRestores ==
  ASSUME Undisturbed
  PROVE  Spec => RewindRestoresTurnStart
<1>1. Init => Inv
  BY InitTypes, InitBooks DEF Inv
<1>2. Inv /\ [Next]_vars => Inv'
  BY InvStep
<1>3. Inv /\ [Next]_vars => [RewindCode => files' = startFiles[Epoch]]_vars
  BY CodeRestores DEF Inv
<1> QED BY <1>1, <1>2, <1>3, PTL DEF Spec, RewindRestoresTurnStart

-----------------------------------------------------------------------------
(* The conversation, and the session's file.                               *)

\* The first b messages of l are those from before turn e.
Divides(l, b, e) == \A i \in 1 .. Len(l) : i <= b <=> l[i].epoch < e

\* Outside of a rewind the file is a prefix of the log, so it may be written; a
\* boundary divides the log at its turn.
SoleInv ==
  /\ branch = 0
  /\ rewind.step \notin {"cut", "truncated"} => IsPrefixOf(savedLog, log)
  /\ \A t \in Known : Divides(log, ckpts[t].index, ckpts[t].epoch)

\* A log made of another's messages, in place or from behind the boundary.
LEMMA DividesFrom ==
  ASSUME NEW l, NEW m, NEW b, NEW e, Divides(l, b, e),
         \A i \in 1 .. Len(m) :
           \/ i \in 1 .. Len(l) /\ m[i] = l[i]
           \/ ~(i <= b) /\ \E j \in 1 .. Len(l) : ~(j <= b) /\ m[i] = l[j]
  PROVE  Divides(m, b, e)
BY DEF Divides

LEMMA DividesAppend ==
  ASSUME NEW l, IsLog(l), NEW b \in Nat, NEW e \in Nat, b <= Len(l), Divides(l, b, e),
         Len(l) < MaxLog, NEW m \in Message, e <= m.epoch
  PROVE  Divides(Append(l, m), b, e)
<1> DEFINE a == Append(l, m)
<1>1. /\ Len(a) = Len(l) + 1 /\ a[Len(l) + 1] = m /\ (\A i \in 1 .. Len(l) : a[i] = l[i])
      /\ Len(l) \in Nat /\ m.epoch \in 0 .. MaxTurns
  BY LongerLog, LogLength DEF Message
<1> HIDE DEF a
<1>2. ASSUME NEW i \in 1 .. Len(a)
      PROVE  i <= b <=> a[i].epoch < e
  <2>1. CASE i = Len(l) + 1
    <3>1. ~(i <= b)
      BY <1>1, <2>1, SMT
    <3>2. ~(m.epoch < e)
      BY <1>1, BoundsAssumption, SMT
    <3> QED BY <1>1, <2>1, <3>1, <3>2
  <2>2. CASE i # Len(l) + 1
    <3>1. i \in 1 .. Len(l)
      BY <1>1, <2>2, SMT
    <3> QED BY <1>1, <3>1 DEF Divides
  <2> QED BY <2>1, <2>2
<1> QED BY <1>2 DEF Divides, a

LEMMA DividesPrefix ==
  ASSUME NEW k, NEW l, IsLog(k), IsLog(l), IsPrefixOf(k, l), NEW b, NEW e, Divides(l, b, e)
  PROVE  Divides(k, b, e)
<1>1. Len(k) \in Nat /\ Len(l) \in Nat
  BY LogLength
<1>2. Len(k) <= Len(l) /\ \A i \in 1 .. Len(k) : k[i] = l[i]
  BY DEF IsPrefixOf
<1>3. \A i \in 1 .. Len(k) : i \in 1 .. Len(l)
  BY <1>1, <1>2, SMT
<1> QED BY <1>2, <1>3, DividesFrom

LEMMA DividesStrip ==
  ASSUME NEW l, IsLog(l), NEW n \in Nat, NEW b \in Nat, b <= n, NEW e, Divides(l, b, e)
  PROVE  Divides(Strip(l, n), b, e)
<1> DEFINE m == Strip(l, n)
<1>1. /\ IsLog(m) /\ Len(l) \in Nat /\ Len(m) \in Nat
      /\ Len(l) <= n => m = l
      /\ n < Len(l) => /\ Len(m) \in {n, n + 1}
                       /\ \A i \in 1 .. n : m[i] = l[i]
                       /\ Len(m) = n + 1 => \E j \in Prompts(l, n) : m[n + 1] = l[j]
  BY StripFacts, LogLength
<1> HIDE DEF m
<1>2. CASE Len(l) <= n
  BY <1>1, <1>2 DEF m
<1>3. CASE n < Len(l)
  <2>1. ASSUME NEW i \in 1 .. Len(m)
        PROVE  \/ i \in 1 .. Len(l) /\ m[i] = l[i]
               \/ ~(i <= b) /\ \E j \in 1 .. Len(l) : ~(j <= b) /\ m[i] = l[j]
    <3>1. CASE i <= n
      <4>1. i \in 1 .. n /\ i \in 1 .. Len(l)
        BY <1>1, <1>3, <3>1, SMT
      <4> QED BY <1>1, <1>3, <4>1
    <3>2. CASE ~(i <= n)
      <4>1. i = n + 1 /\ Len(m) = n + 1 /\ ~(i <= b)
        BY <1>1, <1>3, <3>2, SMT
      <4>2. PICK j \in Prompts(l, n) : m[n + 1] = l[j]
        BY <1>1, <1>3, <4>1
      <4>3. j \in 1 .. Len(l) /\ ~(j <= b)
        BY <1>1, SMT DEF Prompts
      <4> QED BY <4>1, <4>2, <4>3
    <3> QED BY <3>1, <3>2
  <2>2. Divides(m, b, e)
    BY <2>1, DividesFrom
  <2> QED BY <2>2 DEF m
<1> QED BY <1>1, <1>2, <1>3, SMT

LEMMA CkptNumbers ==
  ASSUME TypeInv, NEW t \in DOMAIN ckpts
  PROVE  ckpts[t].index \in Nat /\ ckpts[t].epoch \in Nat /\ ckpts[t].epoch <= epochs
<1>1. ckpts[t].index \in 0 .. MaxLog /\ ckpts[t].epoch \in 1 .. epochs
  BY Typed DEF Store, StoreOK, CkptOK
<1> QED BY <1>1, BoundsAssumption, Typed, SMT

\* The steps that change neither logs nor the boundaries known.
LEMMA SoleSame ==
  ASSUME SoleInv, UNCHANGED <<branch, log, savedLog>>, Known' \subseteq Known,
         \A t \in Known' :
           ckpts'[t].index = ckpts[t].index /\ ckpts'[t].epoch = ckpts[t].epoch,
         rewind'.step \notin {"cut", "truncated"} => rewind.step \notin {"cut", "truncated"}
  PROVE  SoleInv'
BY DEF SoleInv

LEMMA BeginTurnSole ==
  ASSUME ~Overlap, TypeInv, Books, Texts, SoleInv, BeginTurn
  PROVE  SoleInv'
<1> DEFINE m == Len(log)
           r == [index |-> m, epoch |-> epochs + 1, files |-> <<>>]
<1>1. /\ rewind = Idle /\ rewind.step = "idle" /\ ckpts' = Put(ckpts, next, r)
      /\ UNCHANGED <<branch, log, savedLog, rewind>>
  BY IdleRewind DEF BeginTurn, StartMessages, sessionVars
<1>2. r.index = m /\ r.epoch = epochs + 1
  BY SMT
<1> HIDE DEF r
<1>3. Known = DOMAIN ckpts /\ Known' = DOMAIN ckpts \cup {next}
      /\ ckpts'[next] = r /\ \A t \in DOMAIN ckpts : t # next => ckpts'[t] = ckpts[t]
  BY <1>1 DEF Put, Known
<1>4. Divides(log, m, epochs + 1)
  <2>1. Len(log) \in Nat /\ epochs \in Nat /\ \A i \in 1 .. Len(log) : log[i].epoch \in 0 .. MaxTurns
    BY Typed, LogLength DEF Message
  <2>2. \A i \in 1 .. Len(log) : log[i].epoch <= epochs
    BY DEF Texts, LogInv, Plain
  <2> QED BY <2>1, <2>2, BoundsAssumption, SMT DEF Divides
<1> QED BY <1>1, <1>2, <1>3, <1>4 DEF SoleInv

LEMMA MessageSole ==
  ASSUME TypeInv, Books, Texts, SoleInv, Ask \/ Work
  PROVE  SoleInv'
<1>1. epochs \in 0 .. MaxTurns /\ IsLog(log) /\ IsLog(savedLog)
  BY Typed
<1>2. PICK role \in {"prompt", "work"} : Append1(role)
  BY DEF Ask, Work
<1> DEFINE m == [epoch |-> epochs, role |-> role]
<1>3. m \in Message /\ m.epoch = epochs
  BY <1>1, MessageOK, SMT DEF Role
<1>4. Len(log) < MaxLog /\ log' = Append(log, m)
  BY <1>2 DEF Append1
<1> HIDE DEF m
<1>5. UNCHANGED <<branch, savedLog, ckpts, rewind>> /\ Running
  BY DEF Ask, Work, turnVars, storeVars, ghostVars, Running
<1>6. rewind.step = "idle" /\ Known = DOMAIN ckpts /\ Known' = Known
  BY <1>5, IdleRewind DEF Books, CurrentInv, Known
<1>7. IsPrefixOf(savedLog, log')
  BY <1>1, <1>3, <1>4, <1>6, PrefixFacts DEF SoleInv
<1>8. ASSUME NEW t \in DOMAIN ckpts
      PROVE  Divides(log', ckpts[t].index, ckpts[t].epoch)
  <2>1. ckpts[t].index \in Nat /\ ckpts[t].epoch \in Nat /\ ckpts[t].epoch <= epochs
    BY CkptNumbers
  <2>2. ckpts[t].index <= Len(log) /\ Divides(log, ckpts[t].index, ckpts[t].epoch)
    BY <1>6 DEF Texts, LogInv, SoleInv
  <2> QED BY <1>1, <1>3, <1>4, <2>1, <2>2, DividesAppend
<1> QED BY <1>5, <1>6, <1>7, <1>8 DEF SoleInv

\* No save during a turn moves the session to a recovery branch.
LEMMA SaveSole ==
  ASSUME TypeInv, Books, Texts, SoleInv, Autosave \/ EndTurn
  PROVE  SoleInv'
<1>1. Running /\ UNCHANGED rewind
  BY DEF Autosave, EndTurn, Running
<1>2. rewind.step = "idle" /\ IsPrefixOf(savedLog, log) /\ IsLog(log) /\ IsLog(savedLog)
  BY <1>1, IdleRewind, Typed DEF Books, CurrentInv, SoleInv
<1>3. log' = log /\ savedLog' \in {savedLog, log} /\ UNCHANGED <<branch, ckpts>>
  <2>1. CASE Save(log, FALSE)
    <3>1. /\ log' = log /\ savedLog' = (IF Len(log) >= 2 THEN log ELSE savedLog)
          /\ UNCHANGED <<branch, storeVars>>
      BY <1>1, <1>2, <2>1, TurnSaves DEF Texts
    <3> QED BY <3>1 DEF storeVars
  <2>2. CASE UNCHANGED <<sessionVars, managerVars, storeVars>>
    BY <2>2 DEF sessionVars, storeVars
  <2> QED BY <2>1, <2>2 DEF Autosave, EndTurn
<1>4. IsPrefixOf(savedLog', log')
  BY <1>2, <1>3, PrefixFacts
<1>5. Known' = Known
  BY <1>1, <1>3 DEF Known
<1> QED BY <1>1, <1>3, <1>4, <1>5 DEF SoleInv, Known

LEMMA CancelSole ==
  ASSUME TypeInv, Books, Texts, SoleInv, Cancel
  PROVE  SoleInv'
<1>1. /\ Running /\ log' = Strip(log, start)
      /\ savedLog' = (IF Len(log) <= start THEN savedLog ELSE log')
      /\ UNCHANGED <<branch, ckpts, rewind>>
  BY DEF Cancel, storeVars, Running
<1>2. rewind.step = "idle" /\ Known = DOMAIN ckpts /\ Known' = DOMAIN ckpts
  BY <1>1, IdleRewind DEF Books, CurrentInv, Known
<1>3. IsLog(log) /\ IsLog(savedLog) /\ IsLog(log') /\ start \in Nat
      /\ (Len(log) <= start => log' = log)
  BY <1>1, Typed, StripFacts DEF Turn
<1>4. IsPrefixOf(savedLog', log')
  BY <1>1, <1>2, <1>3, PrefixFacts DEF SoleInv
<1>5. ASSUME NEW t \in DOMAIN ckpts
      PROVE  Divides(log', ckpts[t].index, ckpts[t].epoch)
  <2>1. ckpts[t].index \in Nat /\ ckpts[t].index <= start
    BY <1>1, CkptNumbers DEF Texts, RunInv
  <2>2. Divides(log, ckpts[t].index, ckpts[t].epoch)
    BY <1>2 DEF SoleInv
  <2> QED BY <1>1, <1>3, <2>1, <2>2, DividesStrip
<1> QED BY <1>1, <1>2, <1>4, <1>5 DEF SoleInv

LEMMA ForkSole ==
  ASSUME TypeInv, LogInv, SoleInv, NEW t, Fork(t)
  PROVE  SoleInv'
<1>1. savedLog' = log' /\ DOMAIN ckpts' = {} /\ UNCHANGED branch
  <2>1. UNCHANGED branch
    BY ForkPlain
  <2>2. savedLog' = log' /\ ckpts' = <<>>
    BY DEF Fork, Rebind
  <2>3. DOMAIN <<>> = {}
    BY EmptyStoreOK
  <2> QED BY <2>1, <2>2, <2>3
<1>2. IsPrefixOf(savedLog', log')
  <2>1. IsLog(log')
    BY ForkTypes, Typed DEF TypeInv, Session
  <2> QED BY <1>1, <2>1, PrefixFacts
<1> QED BY <1>1, <1>2 DEF SoleInv, Known

\* The cut of a conversation, and what it leaves of it.
LEMMA CutDivides ==
  ASSUME TypeInv, Books, Texts, SoleInv, RewindCut
  PROVE  /\ \A i \in 1 .. Len(log) : i <= Len(log') <=> log[i].epoch < Epoch
         /\ SoleInv'
<1> DEFINE n == ckpts[rewind.turn].index
<1>1. /\ AtConversation /\ log' = SubSeq(log, 1, rewind.boundary)
      /\ rewind' = [rewind EXCEPT !.step = "cut"]
      /\ UNCHANGED <<savedLog, branch, ckpts>>
  BY DEF RewindCut, storeVars
<1>2. /\ rewind.step = "restored" /\ rewind \in Rewinds /\ HasBoundary
      /\ rewind.turn \in DOMAIN ckpts /\ rewind.boundary = n
  BY <1>1, Available DEF Texts
<1>3. rewind'.step = "cut" /\ rewind'.turn = rewind.turn
  BY <1>1, <1>2, SMT DEF Rewinds
<1>4. n \in Nat /\ n <= Len(log) /\ IsLog(log)
  BY <1>2, CkptNumbers, Typed DEF HasBoundary
<1> HIDE DEF n
<1>5. IsLog(log') /\ Len(log') = n /\ IsPrefixOf(log', log)
  <2>1. IsLog(log') /\ Len(log') = n /\ \A i \in 1 .. n : log'[i] = log[i]
    BY <1>1, <1>2, <1>4, CutLog
  <2> QED BY <1>4, <2>1 DEF IsPrefixOf
<1>6. \A t \in Known : Divides(log, ckpts[t].index, ckpts[t].epoch)
  BY DEF SoleInv
<1>7. rewind.turn \in Known
  <2>1. rewind.turn \in Nat
    BY <1>2, Typed, SMT DEF Store, StoreOK
  <2>2. rewind.turn <= rewind.turn
    BY <2>1, SMT
  <2> QED BY <1>2, <2>2 DEF Known
<1>8. \A i \in 1 .. Len(log) : i <= Len(log') <=> log[i].epoch < Epoch
  BY <1>5, <1>6, <1>7 DEF Divides, Epoch, n
<1>9. Known' = Known
  BY <1>1, <1>2, <1>3 DEF Known
<1>10. \A t \in Known : Divides(log', ckpts[t].index, ckpts[t].epoch)
  BY <1>4, <1>5, <1>6, DividesPrefix
<1> QED BY <1>1, <1>3, <1>8, <1>9, <1>10 DEF SoleInv

LEMMA TruncateSole ==
  ASSUME TypeInv, Books, Texts, SoleInv, RewindTruncate
  PROVE  SoleInv'
<1>1. /\ rewind.step = "cut" /\ ckpts' = Before(ckpts, rewind.turn)
      /\ rewind' = [rewind EXCEPT !.step = "truncated"]
      /\ UNCHANGED <<log, savedLog, branch>>
  BY DEF RewindTruncate, DropFrom, sessionVars
<1>2. rewind # Idle /\ rewind \in Rewinds /\ rewind.turn \in DOMAIN ckpts
  BY <1>1, IdleRewind, Typed DEF Books, RewindInv, Rewinding
<1>3. rewind'.step = "truncated"
  BY <1>1, <1>2, SMT DEF Rewinds
<1>4. \A t \in DOMAIN ckpts' : t \in DOMAIN ckpts /\ t <= rewind.turn /\ ckpts'[t] = ckpts[t]
  <2>1. DOMAIN ckpts \subseteq Nat
    BY Typed, SMT DEF Store, StoreOK
  <2>2. \A t \in DOMAIN ckpts : t < rewind.turn => t <= rewind.turn
    BY <1>2, <2>1, SMT
  <2> QED BY <1>1, <2>2 DEF Before, Restrict
<1>5. \A t \in Known' : t \in Known /\ ckpts'[t] = ckpts[t]
  BY <1>4 DEF Known
<1> QED BY <1>1, <1>3, <1>5, SoleSame

LEMMA RewindSaveSole ==
  ASSUME TypeInv, SoleInv, RewindLeavesContent, RewindSave
  PROVE  SoleInv'
<1>1. /\ rewind.step = "truncated" /\ HasContent(log) /\ rewind'.step = "idle"
      /\ log' = log /\ savedLog' = log /\ UNCHANGED <<branch, ckpts>>
  BY RewriteSaves, IdleRewind DEF RewindSave, RewindLeavesContent, storeVars
<1>2. Known = DOMAIN ckpts /\ Known' = DOMAIN ckpts
  BY <1>1 DEF Known
<1>3. IsPrefixOf(log, log)
  BY Typed, PrefixFacts
<1> QED BY <1>1, <1>2, <1>3 DEF SoleInv

LEMMA CrashSole ==
  ASSUME Undisturbed, TypeInv, Books, Texts, SoleInv, CrashAndResume
  PROVE  SoleInv'
<1>1. /\ log' = ResumedLog /\ savedLog' = log' /\ rewind = Idle /\ rewind' = Idle
      /\ UNCHANGED <<branch, ckpts>>
  BY CrashBooks DEF CrashAndResume
<1>2. /\ IsLog(savedLog) /\ IsLog(log) /\ IsLog(log') /\ IsPrefixOf(savedLog, log)
      /\ Known = DOMAIN ckpts /\ Known' = DOMAIN ckpts
  <2>1. IsLog(log')
    BY CrashTypes, Typed DEF TypeInv, Session
  <2> QED BY <1>1, <2>1, IdleRewind, Typed DEF SoleInv, Known
<1>3. ASSUME NEW t \in DOMAIN ckpts
      PROVE  Divides(log', ckpts[t].index, ckpts[t].epoch)
  <2>1. Divides(savedLog, ckpts[t].index, ckpts[t].epoch)
    BY <1>2, DividesPrefix DEF SoleInv
  <2>2. CASE marker = NoMarker
    BY <1>1, <2>1, <2>2 DEF ResumedLog
  <2>3. CASE marker # NoMarker
    <3>1. marker = start /\ Running /\ log' = Strip(savedLog, start) /\ start \in Nat
      BY <1>1, <2>3, Typed DEF Texts, LogInv, ResumedLog, Running, Turn
    <3>2. ckpts[t].index \in Nat /\ ckpts[t].index <= start
      BY <3>1, CkptNumbers DEF Texts, RunInv
    <3> QED BY <1>2, <2>1, <3>1, <3>2, DividesStrip
  <2> QED BY <2>2, <2>3
<1>4. IsPrefixOf(savedLog', log')
  BY <1>1, <1>2, PrefixFacts
<1> QED BY <1>1, <1>2, <1>3, <1>4 DEF SoleInv

LEMMA SoleStep ==
  ASSUME Undisturbed, Inv, RewindLeavesContent, SoleInv, [Next]_vars
  PROVE  SoleInv'
<1>1. TypeInv /\ Books /\ Texts /\ LogInv /\ ~Compaction /\ ~Summaries /\ ~Overlap
  BY DEF Inv, Texts, Undisturbed
<1>2. CASE BeginTurn
  BY <1>1, <1>2, BeginTurnSole
<1>3. CASE Blocked \/ Finish \/ (\E c \in Content : Edit(c)) \/ UNCHANGED vars
  <2>1. UNCHANGED <<branch, log, savedLog, ckpts, rewind>>
    BY <1>3 DEF Blocked, Finish, Edit, vars, sessionVars, storeVars
  <2>2. Known' = Known
    BY <2>1 DEF Known
  <2> QED BY <2>1, <2>2, SoleSame
<1>4. CASE Ask \/ Work
  BY <1>1, <1>4, MessageSole
<1>5. ASSUME NEW p \in Paths, PreEdit(p)
      PROVE  SoleInv'
  <2>1. UNCHANGED <<branch, log, savedLog, rewind>>
    BY <1>5 DEF PreEdit, sessionVars
  <2>2. DOMAIN ckpts' = DOMAIN ckpts /\ \A t \in DOMAIN ckpts :
          ckpts'[t].index = ckpts[t].index /\ ckpts'[t].epoch = ckpts[t].epoch
    <3>1. CASE KeepsSnapshot(p)
      BY <1>1, <1>5, <3>1, PreEditStore
    <3>2. CASE ~KeepsSnapshot(p)
      BY <1>5, <3>2 DEF PreEdit
    <3> QED BY <3>1, <3>2
  <2>3. Known' = Known /\ Known \subseteq DOMAIN ckpts
    BY <2>1, <2>2 DEF Known
  <2> QED BY <2>1, <2>2, <2>3, SoleSame
<1>6. CASE Autosave \/ EndTurn
  BY <1>1, <1>6, SaveSole
<1>7. CASE Cancel
  BY <1>1, <1>7, CancelSole
<1>8. CASE CompactAuto \/ CompactCommand \/ \E t \in Targets : Summarize(t)
  BY <1>1, <1>8 DEF CompactAuto, CompactCommand, Summarize
<1>9. CASE \E t \in Targets : Fork(t)
  BY <1>1, <1>9, ForkSole
<1>10. CASE (\E t \in Targets, scope \in Scopes : RewindCheck(t, scope)) \/ RewindCode
  <2>1. /\ UNCHANGED <<branch, log, savedLog, ckpts>> /\ Known = DOMAIN ckpts
        /\ rewind.step \in {"idle", "checked"}
    BY <1>10, IdleRewind DEF RewindCheck, RewindCode, sessionVars, storeVars, Known
  <2>2. Known' \subseteq Known
    BY <2>1 DEF Known
  <2>3. rewind.step \notin {"cut", "truncated"}
    BY <2>1
  <2> QED BY <2>1, <2>2, <2>3, SoleSame
<1>11. CASE RewindUnavailable
  BY <1>1, <1>11, Available DEF RewindUnavailable
<1>12. CASE RewindCut
  BY <1>1, <1>12, CutDivides
<1>13. CASE RewindTruncate
  BY <1>1, <1>13, TruncateSole
<1>14. CASE RewindSave
  BY <1>1, <1>14, RewindSaveSole
<1>15. CASE CrashAndResume
  BY <1>1, <1>15, CrashSole
<1>16. CASE (\E t \in Targets : ForkSession(t))
            \/ \E t \in Targets, scope \in Scopes : RewindUnknown(t, scope)
  BY <1>1, <1>3, <1>16, ForkSessionSame, UnknownSame
<1> QED
  BY <1>2, <1>3, <1>4, <1>5, <1>6, <1>7, <1>8, <1>9, <1>10, <1>11, <1>12, <1>13, <1>14, <1>15,
     <1>16
  DEF Next

LEMMA InitSole ==
  ASSUME Init
  PROVE  SoleInv
<1>1. branch = 0 /\ savedLog = <<>> /\ ckpts = <<>> /\ log = <<SystemPrompt>>
  BY DEF Init
<1>2. IsPrefixOf(savedLog, log)
  BY <1>1, SMT DEF IsPrefixOf
<1> QED BY <1>1, <1>2 DEF SoleInv, Known

\* As long as every conversation rewind leaves something to save, a rewind cuts
\* the log exactly at its turn: nothing of it or a later one stays, and nothing
\* of an earlier one goes.
THEOREM RewindCuts ==
  ASSUME Undisturbed
  PROVE  Spec /\ []RewindLeavesContent => RewindCutsAtTurn
<1>1. Init => Inv /\ SoleInv
  BY InitTypes, InitBooks, InitSole DEF Inv
<1>2. Inv /\ SoleInv /\ RewindLeavesContent /\ [Next]_vars => Inv' /\ SoleInv'
  BY InvStep, SoleStep
<1>3. Inv /\ SoleInv /\ [Next]_vars =>
        [RewindCut => \A i \in 1 .. Len(log) : i <= Len(log') <=> log[i].epoch < Epoch]_vars
  BY CutDivides DEF Inv
<1> QED BY <1>1, <1>2, <1>3, PTL DEF Spec, RewindCutsAtTurn

\* And the session, which nobody else writes, never leaves its file for a
\* recovery branch.
THEOREM SoleFileIsKept ==
  ASSUME Undisturbed
  PROVE  Spec /\ []RewindLeavesContent => []SoleWriterKeepsItsFile
<1>1. Init => Inv /\ SoleInv
  BY InitTypes, InitBooks, InitSole DEF Inv
<1>2. Inv /\ SoleInv /\ RewindLeavesContent /\ [Next]_vars => Inv' /\ SoleInv'
  BY InvStep, SoleStep
<1>3. SoleInv => SoleWriterKeepsItsFile
  BY DEF SoleInv, SoleWriterKeepsItsFile
<1> QED BY <1>1, <1>2, <1>3, PTL DEF Spec
=============================================================================
