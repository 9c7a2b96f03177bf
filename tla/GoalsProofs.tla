----------------------------- MODULE GoalsProofs -----------------------------
(***************************************************************************)
(* The goal loop for any number of front ends, goals, sessions and todos,  *)
(* and any limits.  What the model must have been told before a goal ends  *)
(* is followed from the count of its claims, what it must have said from   *)
(* the count of its blocks, through every file a restart may read; and the *)
(* file is current because every change of the goal is built at once and   *)
(* written before anything else is built.                                  *)
(***************************************************************************)
EXTENDS Goals, TLAPS

-----------------------------------------------------------------------------
(* Types and limits.                                                       *)

Cmds ==
    [op : {"set"}, goal : Goals \cup {NoGoal}] \cup [op : {"strict"}, strict : BOOLEAN]
    \cup [op : {"submit", "cancel"}]
    \cup [op : {"switch"}, session : Sessions, restore : BOOLEAN]

NoReply == [mark |-> "none", reason |-> "none", tool |-> FALSE]

Writes == [at : Sessions, image : Images] \cup {Nothing}

Sent == [todos : BOOLEAN, check : BOOLEAN, closed : BOOLEAN, blocked : [Reasons -> 0 .. 3]]

\* A goal that runs is below its limits: the turn that reaches one ends it.
Running(x) == x.status = "running" => x.turns < MaxAutoTurns /\ x.blocks <= 2

Fit(m) ==
    /\ m \in Machines
    /\ m.intercepts <= m.turns
    /\ m.status = "running" => m.goal # NoGoal
    /\ Running(m)

\* So is every state a restart, a resume or a switch may take up.
FileOK == file \in [Sessions -> Images \cup {NoState}] /\ \A s \in Sessions : Running(file[s])

WritingOK == writing \in [Threads -> Writes] /\ \A t \in Threads : Running(writing[t].image)

FlowOK ==
    /\ path \in Sessions /\ open \in BOOLEAN /\ canceled \in BOOLEAN
    /\ pc \in {"idle", "turn", "failed", "advance", "complete", "todos",
               "last", "loop", "ending"}
    /\ reply \in Answers \cup {NoReply}
    /\ commands \in [Frontends -> Seq(Cmds)]
    /\ sent \in Sent

TypeInv == Fit(machine) /\ FileOK /\ WritingOK /\ FlowOK

-----------------------------------------------------------------------------
(* What a goal ends for.                                                   *)

Dismissed == reply.mark \in {"continue", "none"}

\* A goal whose claim was counted has begun a turn with the list of open
\* todos, or is about to, or has just answered with something else.
ToldTodos ==
    Active(machine) /\ machine.intercepts > 0 =>
        \/ sent.todos
        \/ pc = "loop" /\ machine.intercept = "todos"
        \/ pc = "advance" /\ Dismissed

ToldCheck ==
    Active(machine) /\ machine.checked =>
        sent.check \/ (pc = "loop" /\ machine.intercept = "check")

\* The turns that ended with a reason are at least as many as are counted.
CountedIn(x, said) ==
    x.status = "running" /\ x.block \in Reasons => x.blocks <= said[x.block]
Counted(x) == CountedIn(x, sent.blocked)

ReasonsOnFile == \A s \in Sessions : Counted(file[s])
ReasonsBuilt  == \A t \in Threads : Counted(writing[t].image)

\* The reason in hand has been counted as said, and not yet by the machine.
ReasonInHand ==
    pc = "advance" /\ reply.mark = "blocked" =>
        /\ sent.blocked[reply.reason] >= 1
        /\ Active(machine) /\ machine.block = reply.reason =>
             machine.blocks < sent.blocked[reply.reason]

ReasonInv == Counted(machine) /\ ReasonsOnFile /\ ReasonsBuilt /\ ReasonInHand

CauseInv == ToldTodos /\ ToldCheck /\ ReasonInv

-----------------------------------------------------------------------------
(* What is on file.                                                        *)

TurnWrites ==
    /\ pc \in {"complete", "last"} <=> writing[Turn] # Nothing
    /\ pc = "complete" => writing[Turn].image.open = open

Current(x) ==
    /\ Composed(machine) = Composed(x)
    /\ x.status = "complete" /\ sent.closed => x.open = FALSE

Elsewhere ==
    \A f \in Frontends : \A i \in DOMAIN commands[f] :
        commands[f][i].op = "switch" => commands[f][i].session # path

BuiltIsCurrent ==
    \A t \in Threads : writing[t] # Nothing =>
        writing[t].at = path /\ Current(writing[t].image)

Still == \A t \in Threads : writing[t] = Nothing

\* Up to the first overlap, the one state that is built, or else the one on
\* file, is that of the machine.
WrittenInv ==
    ~raced => /\ ~Overlapping
              /\ sent.closed => open = FALSE
              /\ Elsewhere
              /\ BuiltIsCurrent
              /\ Still /\ file[path] # NoState => Current(file[path])

FileInv == TurnWrites /\ WrittenInv

Inv == TypeInv /\ raced \in BOOLEAN /\ CauseInv /\ FileInv

-----------------------------------------------------------------------------
(* The machine: what an answer may make of a running goal.                 *)

FieldsOK(m) ==
    /\ m.goal \in Goals \cup {NoGoal}
    /\ m.status \in {"unset", "running", "stopped", "complete", "blocked"}
    /\ m.turns \in 0 .. MaxAutoTurns /\ m.blocks \in 0 .. 3
    /\ m.block \in Reasons \cup {"none", "limit"}
    /\ m.intercept \in {"none", "todos", "check", "idle"}
    /\ m.intercepts \in 0 .. MaxAutoTurns
    /\ m.strict \in BOOLEAN /\ m.checked \in BOOLEAN /\ m.idle \in 0 .. MaxIdleTurns - 1

\* r has the fields of m: what an EXCEPT leaves of a record.
Alike(r, m) == DOMAIN r = DOMAIN m /\ r = [x \in DOMAIN r |-> r[x]]

LEMMA MachineParts ==
  ASSUME NEW m \in Machines
  PROVE  /\ FieldsOK(m)
         /\ MaxAutoTurns \in Nat \ {0} /\ MaxIdleTurns \in Nat \ {0}
         /\ 0 \in 0 .. MaxAutoTurns /\ 0 \in 0 .. MaxIdleTurns - 1
<1>1. FieldsOK(m)
  BY SMT DEF Machines, FieldsOK
<1> QED BY <1>1, GoalsAssumption, SMT

LEMMA MachineMade ==
  ASSUME NEW r, NEW m \in Machines, Alike(r, m), FieldsOK(r)
  PROVE  r \in Machines
BY SMT DEF Machines, FieldsOK, Alike

LEMMA ResetMade ==
  ASSUME NEW goal \in Goals \cup {NoGoal},
         NEW status \in {"unset", "running", "stopped", "complete", "blocked"}
  PROVE  Reset(goal, status) \in Machines
<1>1. 0 \in 0 .. MaxAutoTurns /\ 0 \in 0 .. MaxIdleTurns - 1
  BY GoalsAssumption, SMT
<1> QED BY <1>1, SMT DEF Reset, Machines

LEMMA AnswerFacts ==
  ASSUME NEW a \in Answers \cup {NoReply}
  PROVE  /\ a.mark \in {"complete", "continue", "none", "blocked"}
         /\ a.reason \in Reasons \cup {"none"} /\ a.tool \in BOOLEAN
         /\ a.mark = "blocked" => a.reason \in Reasons
<1>1. CASE a = NoReply
  BY <1>1, SMT DEF NoReply
<1>2. CASE a \in [mark : {"complete", "continue", "none"}, reason : {"none"}, tool : BOOLEAN]
  BY <1>2, SMT
<1>3. CASE a \in [mark : {"blocked"}, reason : Reasons, tool : BOOLEAN]
  BY <1>3, SMT
<1> QED BY <1>1, <1>2, <1>3 DEF Answers

\* The judgement of the marker, of a machine whose turn is counted already.
LEMMA JudgedFacts ==
  ASSUME NEW m \in Machines, m.status = "running", m.goal # NoGoal, m.blocks <= 2,
         m.intercepts < m.turns,
         NEW a \in Answers \cup {NoReply}, NEW undone \in BOOLEAN,
         NEW r, r = Judged(m, a, undone)
  PROVE  /\ r \in Machines /\ r.intercepts <= r.turns /\ r.turns = m.turns
         /\ \/ r.status = "running" /\ r.goal = m.goal /\ r.blocks <= 2
            \/ /\ r.status = "complete" /\ a.mark = "complete"
               /\ undone => ~m.strict /\ m.intercepts > 0
               /\ m.strict => m.checked
            \/ /\ r.status = "blocked" /\ a.mark = "blocked" /\ r.block = a.reason
               /\ r.block = m.block /\ r.blocks = m.blocks + 1 /\ r.blocks = 3
         /\ r.status = "running" /\ r.intercepts > 0 =>
              /\ a.mark \in {"complete", "blocked"}
              /\ m.intercepts > 0 \/ r.intercept = "todos"
         /\ r.status = "running" /\ r.checked => m.checked \/ r.intercept = "check"
         /\ r.status = "running" =>
              \/ r.blocks = 0
              \/ r.blocks = m.blocks /\ r.block = m.block
              \/ /\ a.mark = "blocked" /\ r.block = a.reason
                 /\ r.blocks = 1 \/ (r.blocks = m.blocks + 1 /\ r.block = m.block)
<1>0. /\ a.mark \in {"complete", "continue", "none", "blocked"}
      /\ a.reason \in Reasons \cup {"none"}
      /\ a.mark = "blocked" => a.reason \in Reasons
  BY AnswerFacts
<1>t. /\ FieldsOK(m)
      /\ MaxAutoTurns \in Nat \ {0} /\ MaxIdleTurns \in Nat \ {0}
      /\ 0 \in 0 .. MaxAutoTurns /\ 0 \in 0 .. MaxIdleTurns - 1
  BY MachineParts
<1>1. CASE a.mark = "complete"
  <2>0. r = Claimed(m, undone)
    BY <1>1 DEF Judged
  <2>1. CASE undone /\ (m.strict \/ m.intercepts = 0)
    <3>1. r = [m EXCEPT !.intercepts = @ + 1, !.intercept = "todos"]
      BY <2>0, <2>1 DEF Claimed
    <3>2. /\ r.status = "running" /\ r.goal = m.goal /\ r.blocks = m.blocks /\ r.block = m.block
          /\ r.turns = m.turns /\ r.intercepts = m.intercepts + 1 /\ r.intercept = "todos"
          /\ r.strict = m.strict /\ r.checked = m.checked /\ r.idle = m.idle
      BY <3>1, SMT DEF Machines
    <3>3. Alike(r, m)
      BY <3>1, Zenon DEF Alike
    <3>4. FieldsOK(r)
      BY <1>t, <3>2, SMT DEF FieldsOK
    <3>5. r \in Machines
      BY <3>3, <3>4, MachineMade
    <3> QED BY <1>1, <1>t, <3>2, <3>5, SMT DEF FieldsOK
  <2>2. CASE ~(undone /\ (m.strict \/ m.intercepts = 0)) /\ m.strict /\ ~m.checked
    <3>1. r = [m EXCEPT !.checked = TRUE, !.intercept = "check"]
      BY <2>0, <2>2, Zenon DEF Claimed
    <3>2. /\ r.status = "running" /\ r.goal = m.goal /\ r.blocks = m.blocks /\ r.block = m.block
          /\ r.turns = m.turns /\ r.intercepts = m.intercepts /\ r.intercept = "check"
          /\ r.strict = m.strict /\ r.checked = TRUE /\ r.checked \in BOOLEAN /\ r.idle = m.idle
      BY <3>1, SMT DEF Machines
    <3>3. Alike(r, m)
      BY <3>1, Zenon DEF Alike
    <3>4. FieldsOK(r)
      BY <1>t, <3>2, SMT DEF FieldsOK
    <3>5. r \in Machines
      BY <3>3, <3>4, MachineMade
    <3> QED BY <1>1, <1>t, <3>2, <3>5, SMT DEF FieldsOK
  <2>3. CASE ~(undone /\ (m.strict \/ m.intercepts = 0)) /\ ~(m.strict /\ ~m.checked)
    <3>1. r = [Reset(NoGoal, "complete") EXCEPT !.turns = m.turns, !.strict = m.strict]
      BY <2>0, <2>3, Zenon DEF Claimed
    <3>2. /\ r.goal = NoGoal /\ r.status = "complete" /\ r.turns = m.turns /\ r.blocks = 0
          /\ r.block = "none" /\ r.intercept = "none" /\ r.intercepts = 0
          /\ r.strict = m.strict /\ r.checked = FALSE /\ r.checked \in BOOLEAN /\ r.idle = 0
      BY <3>1, SMT DEF Reset
    <3>3. Alike(r, Reset(NoGoal, "complete"))
      BY <3>1, Zenon DEF Alike
    <3>4. FieldsOK(r)
      BY <1>t, <3>2, SMT DEF FieldsOK
    <3>5. Reset(NoGoal, "complete") \in Machines
      BY ResetMade
    <3>6. r \in Machines
      BY <3>3, <3>4, <3>5, MachineMade
    <3> QED BY <1>1, <1>t, <2>3, <3>2, <3>6, SMT DEF FieldsOK
  <2> QED BY <2>1, <2>2, <2>3
<1>2. CASE a.mark = "blocked"
  <2> DEFINE counted == [m EXCEPT !.blocks = IF m.block = a.reason THEN @ + 1 ELSE 1,
                                  !.block = a.reason]
  <2>1. r = IF counted.blocks >= 3 THEN [counted EXCEPT !.status = "blocked"] ELSE counted
    BY <1>2 DEF Judged, Blocked
  <2>a. /\ counted.block = a.reason
        /\ counted.blocks = IF m.block = a.reason THEN m.blocks + 1 ELSE 1
        /\ counted.turns = m.turns /\ counted.intercepts = m.intercepts
        /\ counted.status = "running" /\ counted.goal = m.goal
        /\ counted.checked = m.checked /\ counted.strict = m.strict
        /\ counted.intercept = m.intercept /\ counted.idle = m.idle
    BY SMT DEF Machines
  <2>b. Alike(counted, m)
    BY Zenon DEF Alike
  <2> HIDE DEF counted
  <2>c. FieldsOK(counted)
    BY <1>0, <1>2, <1>t, <2>a, SMT DEF FieldsOK
  <2>2. counted \in Machines
    BY <2>b, <2>c, MachineMade
  <2>3. CASE counted.blocks >= 3
    <3>1. r = [counted EXCEPT !.status = "blocked"]
      BY <2>1, <2>3
    <3>2. /\ r \in Machines /\ r.status = "blocked" /\ r.block = counted.block
          /\ r.blocks = counted.blocks /\ r.turns = counted.turns
          /\ r.intercepts = counted.intercepts
      BY <2>2, <3>1, SMT DEF Machines
    <3>3. m.block = a.reason /\ counted.blocks = m.blocks + 1 /\ counted.blocks = 3
      BY <1>t, <2>a, <2>3, SMT DEF FieldsOK
    <3> QED BY <1>2, <1>t, <2>a, <3>2, <3>3, SMT DEF FieldsOK
  <2>4. CASE ~(counted.blocks >= 3)
    <3>1. r = counted
      BY <2>1, <2>4
    <3> QED BY <1>2, <1>t, <2>a, <2>2, <2>4, <3>1, SMT DEF FieldsOK
  <2> QED BY <2>3, <2>4
<1>3. CASE a.mark \in {"continue", "none"}
  <2>1. r = [m EXCEPT !.blocks = 0, !.block = "none", !.intercepts = 0, !.checked = FALSE, !.idle = 0]
    BY <1>3 DEF Judged, Continued
  <2>2. /\ r.status = "running" /\ r.goal = m.goal /\ r.blocks = 0 /\ r.block = "none"
        /\ r.turns = m.turns /\ r.intercepts = 0 /\ r.intercept = m.intercept
        /\ r.strict = m.strict /\ r.checked = FALSE /\ r.checked \in BOOLEAN /\ r.idle = 0
    BY <2>1, SMT DEF Machines
  <2>3. Alike(r, m)
    BY <2>1, Zenon DEF Alike
  <2>4. FieldsOK(r)
    BY <1>t, <2>2, SMT DEF FieldsOK
  <2>5. r \in Machines
    BY <2>3, <2>4, MachineMade
  <2> QED BY <1>t, <2>2, <2>5, SMT DEF FieldsOK
<1> QED BY <1>0, <1>1, <1>2, <1>3

\* The reminder touches the idle count, and the next prompt if nothing else did.
LEMMA NudgedFacts ==
  ASSUME NEW m \in Machines, NEW tool \in BOOLEAN, NEW r, r = Nudged(m, tool)
  PROVE  /\ r \in Machines
         /\ \A k \in {"goal", "status", "turns", "blocks", "block", "intercepts", "strict", "checked"} :
              r[k] = m[k]
         /\ r.intercept = m.intercept \/ m.intercept = "none"
<1>1. m.idle \in 0 .. MaxIdleTurns - 1 /\ MaxIdleTurns \in Nat \ {0}
  BY GoalsAssumption, SMT DEF Machines
<1>2. CASE r = m
  BY <1>2
<1>3. CASE r = [m EXCEPT !.idle = 0]
  <2>1. r \in Machines
    BY <1>1, <1>3, SMT DEF Machines
  <2> QED BY <1>3, <2>1, SMT DEF Machines
<1>4. CASE r = [m EXCEPT !.idle = 0, !.intercept = "idle"] /\ m.intercept = "none"
  <2>1. /\ r.goal = m.goal /\ r.status = m.status /\ r.blocks = m.blocks /\ r.block = m.block
        /\ r.turns = m.turns /\ r.intercepts = m.intercepts /\ r.intercept = "idle"
        /\ r.strict = m.strict /\ r.checked = m.checked /\ r.idle = 0
    BY <1>4, SMT DEF Machines
  <2>2. Alike(r, m)
    BY <1>4, Zenon DEF Alike
  <2>3. FieldsOK(m) /\ 0 \in 0 .. MaxIdleTurns - 1
    BY MachineParts
  <2>4. FieldsOK(r)
    BY <2>1, <2>3, SMT DEF FieldsOK
  <2>5. r \in Machines
    BY <2>2, <2>4, MachineMade
  <2> QED BY <1>4, <2>1, <2>5
<1>5. CASE r = [m EXCEPT !.idle = @ + 1] /\ ~(m.idle + 1 >= MaxIdleTurns)
  <2>1. r \in Machines
    BY <1>1, <1>5, SMT DEF Machines
  <2> QED BY <1>5, <2>1, SMT DEF Machines
<1> QED BY <1>2, <1>3, <1>4, <1>5 DEF Nudged

LEMMA LimitedFacts ==
  ASSUME NEW m \in Machines, NEW r, r = Limited(m)
  PROVE  \/ r = m /\ (m.status = "running" => m.turns < MaxAutoTurns)
         \/ /\ r \in Machines /\ m.status = "running"
            /\ r.status = "blocked" /\ r.block = "limit"
            /\ r.turns = m.turns /\ r.intercepts = 0
<1>1. m.turns \in Nat /\ MaxAutoTurns \in Nat
  BY GoalsAssumption, SMT DEF Machines
<1>2. CASE m.status = "running" /\ m.turns >= MaxAutoTurns
  <2>1. r = [m EXCEPT !.status = "blocked", !.block = "limit", !.intercepts = 0,
                      !.checked = FALSE, !.intercept = "none", !.idle = 0]
    BY <1>2 DEF Limited
  <2>2. /\ r.goal = m.goal /\ r.status = "blocked" /\ r.blocks = m.blocks /\ r.block = "limit"
        /\ r.turns = m.turns /\ r.intercepts = 0 /\ r.intercept = "none"
        /\ r.strict = m.strict /\ r.checked = FALSE /\ r.checked \in BOOLEAN /\ r.idle = 0
    BY <2>1, SMT DEF Machines
  <2>3. Alike(r, m)
    BY <2>1, Zenon DEF Alike
  <2>4. FieldsOK(m) /\ 0 \in 0 .. MaxIdleTurns - 1 /\ 0 \in 0 .. MaxAutoTurns
    BY MachineParts
  <2>5. FieldsOK(r)
    BY <2>2, <2>4, SMT DEF FieldsOK
  <2>6. r \in Machines
    BY <2>3, <2>5, MachineMade
  <2> QED BY <1>2, <2>2, <2>6
<1>3. CASE ~(m.status = "running" /\ m.turns >= MaxAutoTurns)
  BY <1>1, <1>3, SMT DEF Limited
<1> QED BY <1>2, <1>3

\* One turn of a running goal.
LEMMA AdvancedFacts ==
  ASSUME NEW m, Fit(m), Active(m),
         NEW a \in Answers \cup {NoReply}, NEW undone \in BOOLEAN,
         NEW r, r = Advanced(m, a, undone)
  PROVE  /\ Fit(r)
         /\ r.status \in {"running", "complete", "blocked"}
         /\ r.status = "running" => r.goal = m.goal
         /\ r.status = "complete" => /\ a.mark = "complete"
                                     /\ undone => ~m.strict /\ m.intercepts > 0
                                     /\ m.strict => m.checked
         /\ r.status = "blocked" /\ r.block # "limit" =>
              a.mark = "blocked" /\ r.block = a.reason /\ r.block = m.block /\ m.blocks = 2
         /\ r.status = "running" /\ r.intercepts > 0 =>
              /\ a.mark \in {"complete", "blocked"}
              /\ m.intercepts > 0 \/ r.intercept = "todos"
         /\ r.status = "running" /\ r.checked => m.checked \/ r.intercept = "check"
         /\ r.status = "running" =>
              \/ r.blocks = 0
              \/ r.blocks = m.blocks /\ r.block = m.block
              \/ /\ a.mark = "blocked" /\ r.block = a.reason
                 /\ r.blocks = 1 \/ (r.blocks = m.blocks + 1 /\ r.block = m.block)
<1> DEFINE n == [m EXCEPT !.turns = @ + 1]
           j == Judged(n, a, undone)
           w == Nudged(j, a.tool)
<1>1. /\ n \in Machines /\ n.intercepts < n.turns /\ n.turns = m.turns + 1
      /\ n.status = "running" /\ n.goal = m.goal /\ n.goal # NoGoal
      /\ n.blocks = m.blocks /\ n.blocks <= 2 /\ n.block = m.block
      /\ n.intercepts = m.intercepts /\ n.strict = m.strict /\ n.checked = m.checked
      /\ m.blocks \in 0 .. 3
  BY GoalsAssumption, SMT DEF Fit, Running, Active, Machines
<1> HIDE DEF n
<1>2. /\ j \in Machines /\ j.intercepts <= j.turns /\ j.turns = n.turns
      /\ \/ j.status = "running" /\ j.goal = n.goal /\ j.blocks <= 2
         \/ /\ j.status = "complete" /\ a.mark = "complete"
            /\ undone => ~n.strict /\ n.intercepts > 0
            /\ n.strict => n.checked
         \/ /\ j.status = "blocked" /\ a.mark = "blocked" /\ j.block = a.reason
            /\ j.block = n.block /\ j.blocks = n.blocks + 1 /\ j.blocks = 3
      /\ j.status = "running" /\ j.intercepts > 0 =>
           /\ a.mark \in {"complete", "blocked"}
           /\ n.intercepts > 0 \/ j.intercept = "todos"
      /\ j.status = "running" /\ j.checked => n.checked \/ j.intercept = "check"
      /\ j.status = "running" =>
           \/ j.blocks = 0
           \/ j.blocks = n.blocks /\ j.block = n.block
           \/ /\ a.mark = "blocked" /\ j.block = a.reason
              /\ j.blocks = 1 \/ (j.blocks = n.blocks + 1 /\ j.block = n.block)
  BY <1>1, JudgedFacts
<1> HIDE DEF j
<1>3. /\ w \in Machines
      /\ \A k \in {"goal", "status", "turns", "blocks", "block", "intercepts", "strict", "checked"} :
           w[k] = j[k]
      /\ w.intercept = j.intercept \/ j.intercept = "none"
  BY <1>2, NudgedFacts, AnswerFacts
<1>4. /\ w.goal = j.goal /\ w.status = j.status /\ w.turns = j.turns /\ w.blocks = j.blocks
      /\ w.block = j.block /\ w.intercepts = j.intercepts /\ w.checked = j.checked
      /\ w.intercept = j.intercept \/ j.intercept = "none"
  BY <1>3
<1> HIDE DEF w
<1>5. r = Limited(w)
  BY DEF Advanced, n, j, w
<1>6. CASE r = w /\ (w.status = "running" => w.turns < MaxAutoTurns)
  <2>1. Fit(r)
    BY <1>1, <1>2, <1>3, <1>4, <1>6, SMT DEF Fit, Running
  <2> QED BY <1>1, <1>2, <1>4, <1>6, <2>1, SMT
<1>7. CASE /\ r \in Machines /\ w.status = "running"
           /\ r.status = "blocked" /\ r.block = "limit"
           /\ r.turns = w.turns /\ r.intercepts = 0
  <2>1. r.turns \in Nat
    BY <1>7, SMT DEF Machines
  <2> QED BY <1>7, <2>1, SMT DEF Fit, Running
<1> QED BY <1>3, <1>5, <1>6, <1>7, LimitedFacts

LEMMA ResetFits ==
  /\ \A goal \in Goals \cup {NoGoal} : Fit(SetTo(goal))
  /\ Fit(Reset(NoGoal, "unset"))
<1>1. MaxAutoTurns \in Nat \ {0} /\ MaxIdleTurns \in Nat \ {0}
  BY GoalsAssumption
<1>2. ASSUME NEW goal \in Goals \cup {NoGoal}, NEW status \in {"unset", "stopped", "running"},
             status = "running" => goal # NoGoal
      PROVE  Fit(Reset(goal, status))
  <2>1. Reset(goal, status) \in Machines
    BY ResetMade
  <2> QED BY <1>1, <1>2, <2>1, SMT DEF Reset, Fit, Running
<1> QED BY <1>2 DEF SetTo

LEMMA StoppedFits ==
  ASSUME NEW m, Fit(m)
  PROVE  /\ Fit(Stopped(m, "stopped")) /\ ~Active(Stopped(m, "stopped"))
         /\ Active(m) => Stopped(m, "stopped").status = "stopped"
<1> DEFINE r == Stopped(m, "stopped")
<1>1. r = [m EXCEPT !.status = IF Active(m) THEN "stopped" ELSE @,
                    !.intercept = "none", !.intercepts = 0, !.checked = FALSE, !.idle = 0]
  BY DEF Stopped
<1>m. m \in Machines
  BY DEF Fit
<1>p. FieldsOK(m) /\ 0 \in 0 .. MaxIdleTurns - 1 /\ 0 \in 0 .. MaxAutoTurns
  BY <1>m, MachineParts
<1>c. m.status # "running" \/ Active(m)
  BY DEF Fit, Active
<1> DEFINE now == IF Active(m) THEN "stopped" ELSE m.status
<1>d. r = [m EXCEPT !.status = now, !.intercept = "none", !.intercepts = 0,
                    !.checked = FALSE, !.idle = 0]
  BY <1>1, <1>m, Zenon
<1>e. now \in {"unset", "stopped", "complete", "blocked"}
  BY <1>p, <1>c DEF FieldsOK
<1> HIDE DEF r, now
<1>3. /\ r.goal = m.goal /\ r.status = now /\ r.blocks = m.blocks /\ r.block = m.block
      /\ r.turns = m.turns /\ r.intercepts = 0 /\ r.intercept = "none"
      /\ r.strict = m.strict /\ r.checked = FALSE /\ r.checked \in BOOLEAN /\ r.idle = 0
  BY <1>d, <1>m, SMT DEF Machines
<1>f. Alike(r, m)
  BY <1>d, Zenon DEF Alike
<1>g. FieldsOK(r)
  BY <1>3, <1>p, <1>e, SMT DEF FieldsOK
<1>2. r \in Machines
  BY <1>f, <1>g, <1>m, MachineMade
<1>4. m.turns \in Nat
  BY <1>p, SMT DEF FieldsOK
<1>5. r.status # "running"
  BY <1>3, <1>e
<1>6. Fit(r) /\ ~Active(r)
  BY <1>2, <1>3, <1>4, <1>5, SMT DEF Fit, Running, Active
<1>7. Active(m) => r.status = "stopped"
  BY <1>3 DEF now
<1> QED BY <1>6, <1>7 DEF r

\* A goal taken up from a file is the one the file names, counted as it was.
LEMMA RestoredFits ==
  ASSUME NEW m, Fit(m), NEW x \in Images \cup {NoState}, Running(x)
  PROVE  /\ Fit(Restored(m, x))
         /\ \/ Restored(m, x) = m /\ ~Active(x)
            \/ /\ Active(x) /\ x \in Images
               /\ LET r == Restored(m, x)
                  IN  /\ r.status = "running" /\ r.goal = x.goal /\ r.intercepts = 0
                      /\ r.checked = FALSE /\ r.checked \in BOOLEAN /\ r.blocks = x.blocks /\ r.block = x.block
<1> DEFINE r == Restored(m, x)
<1>1. CASE x.status = "running" /\ x.goal # NoGoal
  <2>1. r = [Reset(x.goal, "running") EXCEPT !.turns = x.turns, !.blocks = x.blocks,
                                             !.block = x.block, !.strict = x.strict]
    BY <1>1 DEF Restored
  <2>2. x \in Images
    BY <1>1, SMT DEF NoState
  <2>3. /\ x.goal \in Goals \cup {NoGoal} /\ x.turns \in 0 .. MaxAutoTurns /\ x.blocks \in 0 .. 3
        /\ x.block \in Reasons \cup {"none", "limit"} /\ x.strict \in BOOLEAN
    BY <2>2, SMT DEF Images
  <2>4. /\ r.status = "running" /\ r.goal = x.goal /\ r.intercepts = 0 /\ r.turns = x.turns
        /\ r.checked = FALSE /\ r.checked \in BOOLEAN /\ r.blocks = x.blocks /\ r.block = x.block
        /\ r.intercept = "none" /\ r.strict = x.strict /\ r.idle = 0
    BY <2>1, SMT DEF Reset
  <2>a. Alike(r, Reset(x.goal, "running"))
    BY <2>1, Zenon DEF Alike
  <2>b. Reset(x.goal, "running") \in Machines
    BY <2>3, ResetMade
  <2>c. 0 \in 0 .. MaxAutoTurns /\ 0 \in 0 .. MaxIdleTurns - 1
    BY GoalsAssumption, SMT
  <2>d. FieldsOK(r)
    BY <2>3, <2>4, <2>c, SMT DEF FieldsOK
  <2>5. r \in Machines
    BY <2>a, <2>b, <2>d, MachineMade
  <2> HIDE DEF r
  <2>6. Fit(r)
    BY <1>1, <2>3, <2>4, <2>5, SMT DEF Fit, Running
  <2> QED BY <1>1, <2>2, <2>4, <2>6 DEF r, Active
<1>2. CASE ~(x.status = "running" /\ x.goal # NoGoal)
  BY <1>2 DEF Restored, Active
<1> QED BY <1>1, <1>2

-----------------------------------------------------------------------------
(* What is built and written, and what the front ends still have to do.    *)

LEMMA ImageFits ==
  ASSUME NEW m, Fit(m), NEW todos \in BOOLEAN
  PROVE  LET x == Image(m, todos)
         IN  /\ x \in Images /\ Running(x)
             /\ x.goal = m.goal /\ x.status = m.status /\ x.blocks = m.blocks
             /\ x.block = m.block /\ x.open = todos
<1>1. FieldsOK(m)
  BY MachineParts DEF Fit
<1>2. Image(m, todos) \in Images
  BY <1>1, SMT DEF FieldsOK, Images, Image
<1> QED BY <1>2, SMT DEF Fit, Running, Image

LEMMA BuildFits ==
  ASSUME path \in Sessions, WritingOK, NEW t \in Threads,
         NEW m, Fit(m), NEW todos \in BOOLEAN,
         writing' = [writing EXCEPT ![t] = Built(m, todos)]
  PROVE  WritingOK'
<1> DEFINE b == [at |-> path, image |-> Image(m, todos)]
<1>1. Image(m, todos) \in Images /\ Running(Image(m, todos))
  BY ImageFits
<1>2. b \in Writes /\ b.image = Image(m, todos) /\ writing' = [writing EXCEPT ![t] = b]
  BY <1>1, SMT DEF Writes, Built
<1> HIDE DEF b
<1>3. /\ writing' \in [Threads -> Writes]
      /\ \A u \in Threads : writing'[u] = IF u = t THEN b ELSE writing[u]
  BY <1>2, SMT DEF WritingOK
<1>4. \A u \in Threads : Running(writing'[u].image)
  BY <1>1, <1>2, <1>3, Zenon DEF WritingOK
<1> QED BY <1>3, <1>4 DEF WritingOK

\* Only a written image changes a file.
LEMMA WriteFits ==
  ASSUME FileOK, WritingOK, NEW t \in Threads, Write(t)
  PROVE  /\ FileOK' /\ WritingOK'
         /\ writing[t].at \in Sessions /\ writing[t].image \in Images
         /\ \A u \in Threads : writing'[u] = IF u = t THEN Nothing ELSE writing[u]
         /\ \A s \in Sessions :
              file'[s] = IF s = writing[t].at THEN writing[t].image ELSE file[s]
<1>1. writing[t] \in [at : Sessions, image : Images]
  BY DEF WritingOK, Writes, Write
<1> DEFINE w == writing[t].image
<1>2. writing[t].at \in Sessions /\ w \in Images /\ Running(w)
  BY <1>1, SMT DEF WritingOK
<1> HIDE DEF w
<1>3. /\ file' = [file EXCEPT ![writing[t].at] = w]
      /\ writing' = [writing EXCEPT ![t] = Nothing]
  BY DEF Write, w
<1>4. Nothing \in Writes /\ Running(Nothing.image)
  BY SMT DEF Writes, Running, Nothing, NoState
<1>5. /\ writing' \in [Threads -> Writes]
      /\ \A u \in Threads : writing'[u] = IF u = t THEN Nothing ELSE writing[u]
  BY <1>3, <1>4, SMT DEF WritingOK
<1>6. /\ file' \in [Sessions -> Images \cup {NoState}]
      /\ \A s \in Sessions : file'[s] = IF s = writing[t].at THEN w ELSE file[s]
  BY <1>2, <1>3, SMT DEF FileOK
<1>7. \A s \in Sessions : Running(file'[s])
  BY <1>2, <1>6, Zenon DEF FileOK
<1>8. \A u \in Threads : Running(writing'[u].image)
  BY <1>4, <1>5, Zenon DEF WritingOK
<1> QED BY <1>2, <1>5, <1>6, <1>7, <1>8 DEF FileOK, WritingOK, w

LEMMA TakesFacts ==
  ASSUME commands \in [Frontends -> Seq(Cmds)], NEW f \in Frontends, NEW op, Takes(f, op)
  PROVE  /\ Head(commands[f]).op = op
         /\ commands' \in [Frontends -> Seq(Cmds)]
         /\ op = "set" => Head(commands[f]).goal \in Goals \cup {NoGoal}
         /\ op = "strict" => Head(commands[f]).strict \in BOOLEAN
         /\ op = "switch" => /\ Head(commands[f]).session \in Sessions
                             /\ Head(commands[f]).restore \in BOOLEAN
         /\ \A g \in Frontends : \A i \in DOMAIN commands'[g] :
              \E j \in DOMAIN commands[g] : commands'[g][i] = commands[g][j]
         /\ \E j \in DOMAIN commands[f] : Head(commands[f]) = commands[f][j]
<1>1. commands[f] \in Seq(Cmds) /\ commands[f] # <<>> /\ Head(commands[f]).op = op
  BY DEF Takes
<1>2. Head(commands[f]) \in Cmds /\ Tail(commands[f]) \in Seq(Cmds)
  BY <1>1, SMT
<1>3. commands' = [commands EXCEPT ![f] = Tail(commands[f])]
  BY DEF Takes
<1>4. commands' \in [Frontends -> Seq(Cmds)]
  BY <1>2, <1>3, SMT
<1>5. 1 \in DOMAIN commands[f] /\ Head(commands[f]) = commands[f][1]
  BY <1>1, SMT
<1>6. \A i \in DOMAIN Tail(commands[f]) :
        /\ i + 1 \in DOMAIN commands[f]
        /\ Tail(commands[f])[i] = commands[f][i + 1]
  BY <1>1, SMT
<1>7. ASSUME NEW g \in Frontends, NEW i \in DOMAIN commands'[g]
      PROVE  \E j \in DOMAIN commands[g] : commands'[g][i] = commands[g][j]
  <2>1. CASE g = f
    <3>1. commands'[g] = Tail(commands[f])
      BY <1>3, <2>1, SMT
    <3> QED BY <1>6, <1>7, <2>1, <3>1
  <2>2. CASE g # f
    <3>1. commands'[g] = commands[g]
      BY <1>3, <2>2, SMT
    <3> QED BY <1>7, <3>1
  <2> QED BY <2>1, <2>2
<1> DEFINE cmd == Head(commands[f])
<1>8. cmd \in Cmds /\ cmd.op = op
  BY <1>1, <1>2
<1> HIDE DEF cmd
<1>9. /\ op = "set" => cmd.goal \in Goals \cup {NoGoal}
      /\ op = "strict" => cmd.strict \in BOOLEAN
      /\ op = "switch" => cmd.session \in Sessions /\ cmd.restore \in BOOLEAN
  <2>1. CASE cmd \in [op : {"set"}, goal : Goals \cup {NoGoal}]
    BY <1>8, <2>1, SMT
  <2>2. CASE cmd \in [op : {"strict"}, strict : BOOLEAN]
    BY <1>8, <2>2, SMT
  <2>3. CASE cmd \in [op : {"submit", "cancel"}]
    BY <1>8, <2>3, SMT
  <2>4. CASE cmd \in [op : {"switch"}, session : Sessions, restore : BOOLEAN]
    BY <1>8, <2>4, SMT
  <2> QED BY <1>8, <2>1, <2>2, <2>3, <2>4 DEF Cmds
<1> QED BY <1>1, <1>4, <1>5, <1>7, <1>9 DEF cmd

\* What one command asks for; at most its first step names another session.
LEMMA RequestFacts ==
  ASSUME NEW request \in Requests
  PROVE  /\ request \in Seq(Cmds)
         /\ \A i \in DOMAIN request : request[i].op = "switch" => request[i] = request[1]
<1>1. ASSUME NEW x \in Goals, NEW s \in BOOLEAN,
             request = <<[op |-> "set", goal |-> x], [op |-> "strict", strict |-> s],
                         [op |-> "submit"]>>
      PROVE  /\ request \in Seq(Cmds)
             /\ \A i \in DOMAIN request : request[i].op = "switch" => request[i] = request[1]
  <2>1. /\ [op |-> "set", goal |-> x] \in Cmds /\ [op |-> "strict", strict |-> s] \in Cmds
        /\ [op |-> "submit"] \in Cmds
    BY SMT DEF Cmds
  <2>2. DOMAIN request = 1 .. 3
    BY <1>1, SMT
  <2>3. \A i \in 1 .. 3 : request[i].op # "switch"
    BY <1>1, SMT
  <2>4. request \in Seq(Cmds)
    BY <1>1, <2>1, SMT
  <2> QED BY <2>2, <2>3, <2>4
<1>2. ASSUME NEW c, c \in {[op |-> "set", goal |-> NoGoal], [op |-> "submit"], [op |-> "cancel"]}
             \/ \E s \in Sessions, r \in BOOLEAN : c = [op |-> "switch", session |-> s, restore |-> r],
             request = <<c>>
      PROVE  /\ request \in Seq(Cmds)
             /\ \A i \in DOMAIN request : request[i].op = "switch" => request[i] = request[1]
  <2>1. c \in Cmds
    BY <1>2, SMT DEF Cmds
  <2>2. request \in Seq(Cmds) /\ DOMAIN request = {1}
    BY <1>2, <2>1, SMT
  <2> QED BY <2>2
<1>3. CASE request \in {<<[op |-> "set", goal |-> x], [op |-> "strict", strict |-> s],
                          [op |-> "submit"]>> : x \in Goals, s \in BOOLEAN}
  BY <1>1, <1>3
<1>4. CASE request \in {<<[op |-> "set", goal |-> NoGoal]>>, <<[op |-> "submit"]>>,
                       <<[op |-> "cancel"]>>}
  <2>1. PICK c \in {[op |-> "set", goal |-> NoGoal], [op |-> "submit"], [op |-> "cancel"]} :
          request = <<c>>
    BY <1>4
  <2> QED BY <1>2, <2>1
<1>5. CASE request \in {<<[op |-> "switch", session |-> s, restore |-> r]>> :
                          s \in Sessions, r \in BOOLEAN}
  <2>1. PICK s \in Sessions, r \in BOOLEAN :
          request = <<[op |-> "switch", session |-> s, restore |-> r]>>
    BY <1>5
  <2> QED BY <1>2, <2>1
<1> QED BY <1>3, <1>4, <1>5 DEF Requests

-----------------------------------------------------------------------------
(* Every step keeps the types and the limits.                              *)

LEMMA SentFacts ==
  ASSUME sent \in Sent
  PROVE  /\ sent.todos \in BOOLEAN /\ sent.check \in BOOLEAN /\ sent.closed \in BOOLEAN
         /\ sent.blocked \in [Reasons -> 0 .. 3]
BY SMT DEF Sent

LEMMA SentMade ==
  ASSUME NEW x, sent \in Sent, Alike(x, sent),
         x.todos \in BOOLEAN, x.check \in BOOLEAN, x.closed \in BOOLEAN,
         x.blocked \in [Reasons -> 0 .. 3]
  PROVE  x \in Sent
BY SMT DEF Sent, Alike

LEMMA ReportedFacts ==
  ASSUME sent \in Sent, NEW reason
  PROVE  /\ Reported(reason) \in [Reasons -> 0 .. 3]
         /\ \A r \in Reasons : /\ Reported(reason)[r] >= sent.blocked[r]
                               /\ r # reason => Reported(reason)[r] = sent.blocked[r]
                               /\ r = reason /\ sent.blocked[r] < 3 =>
                                    Reported(reason)[r] = sent.blocked[r] + 1
<1>1. sent.blocked \in [Reasons -> 0 .. 3]
  BY SentFacts
<1> QED BY <1>1, SMT DEF Reported

LEMMA UntoldFacts ==
  ASSUME sent \in Sent
  PROVE  /\ Untold \in Sent /\ Untold.todos = FALSE /\ Untold.check = FALSE
         /\ Untold.closed = FALSE /\ Untold.blocked = sent.blocked
<1>1. /\ Untold.todos = FALSE /\ Untold.check = FALSE /\ Untold.closed = FALSE
      /\ Untold.blocked = sent.blocked
  BY SMT DEF Untold, Sent
<1>2. Alike(Untold, sent)
  BY Zenon DEF Untold, Alike
<1>3. Untold.todos \in BOOLEAN /\ Untold.check \in BOOLEAN /\ Untold.closed \in BOOLEAN
  BY <1>1
<1> QED BY <1>1, <1>2, <1>3, SentFacts, SentMade

LEMMA AnsweredFacts ==
  ASSUME sent \in Sent, NEW a,
         NEW x, x = [sent EXCEPT !.todos = @ /\ a.mark \notin {"continue", "none"},
                                 !.closed = FALSE, !.blocked = Reported(a.reason)]
  PROVE  /\ x \in Sent /\ x.todos = (sent.todos /\ a.mark \notin {"continue", "none"})
         /\ x.check = sent.check /\ x.closed = FALSE /\ x.blocked = Reported(a.reason)
<1> DEFINE kept == sent.todos /\ a.mark \notin {"continue", "none"}
           counts == Reported(a.reason)
           fields == {"todos", "check", "closed", "blocked"}
<1>1. x = [sent EXCEPT !.todos = kept, !.closed = FALSE, !.blocked = counts]
  BY Zenon
<1>k. kept \in BOOLEAN
  OBVIOUS
<1>d. DOMAIN sent = fields
  BY SMT DEF Sent
<1> HIDE DEF kept, counts
<1>e. x = [k \in fields |-> IF k = "blocked" THEN counts ELSE IF k = "closed" THEN FALSE
                            ELSE IF k = "todos" THEN kept ELSE sent[k]]
  BY <1>1, <1>d, Zenon
<1>2. /\ x.todos = kept /\ x.check = sent.check /\ x.closed = FALSE
      /\ x.blocked = Reported(a.reason)
  BY <1>e, Zenon DEF counts
<1>3. Alike(x, sent)
  BY <1>1, Zenon DEF Alike
<1>4. x.todos \in BOOLEAN /\ x.check \in BOOLEAN /\ x.closed \in BOOLEAN
  BY <1>2, <1>k, SentFacts
<1>5. x \in Sent
  BY <1>2, <1>3, <1>4, ReportedFacts, SentMade
<1> QED BY <1>2, <1>5 DEF kept

LEMMA ClosedFacts ==
  ASSUME sent \in Sent, NEW b \in BOOLEAN, NEW x, x = [sent EXCEPT !.closed = b]
  PROVE  /\ x \in Sent /\ x.todos = sent.todos /\ x.check = sent.check /\ x.closed = b
         /\ x.blocked = sent.blocked
<1>1. DOMAIN sent = {"todos", "check", "closed", "blocked"}
  BY SMT DEF Sent
<1>2. x = [k \in {"todos", "check", "closed", "blocked"} |-> IF k = "closed" THEN b ELSE sent[k]]
  BY <1>1, Zenon
<1>3. /\ x.todos = sent.todos /\ x.check = sent.check /\ x.closed = b
      /\ x.blocked = sent.blocked
  BY <1>2, Zenon
<1>4. Alike(x, sent)
  BY Zenon DEF Alike
<1>5. x.todos \in BOOLEAN /\ x.check \in BOOLEAN /\ x.closed \in BOOLEAN
  BY <1>3, SentFacts
<1> QED BY <1>3, <1>4, <1>5, SentFacts, SentMade

LEMMA ToldFacts ==
  ASSUME sent \in Sent, NEW t \in BOOLEAN, NEW c \in BOOLEAN,
         NEW x, x = [sent EXCEPT !.todos = t, !.check = c]
  PROVE  /\ x \in Sent /\ x.todos = t /\ x.check = c /\ x.closed = sent.closed
         /\ x.blocked = sent.blocked
<1>1. DOMAIN sent = {"todos", "check", "closed", "blocked"}
  BY SMT DEF Sent
<1>2. x = [k \in {"todos", "check", "closed", "blocked"} |->
             IF k = "check" THEN c ELSE IF k = "todos" THEN t ELSE sent[k]]
  BY <1>1, Zenon
<1>3. /\ x.todos = t /\ x.check = c /\ x.closed = sent.closed
      /\ x.blocked = sent.blocked
  BY <1>2, Zenon
<1>4. Alike(x, sent)
  BY Zenon DEF Alike
<1>5. x.todos \in BOOLEAN /\ x.check \in BOOLEAN /\ x.closed \in BOOLEAN
  BY <1>3, SentFacts
<1> QED BY <1>3, <1>4, <1>5, SentFacts, SentMade

\* The machine a strict command, a prompt taken or a restart leaves.
LEMMA EditedFits ==
  ASSUME NEW m, Fit(m), NEW b \in BOOLEAN
  PROVE  /\ Fit([m EXCEPT !.strict = b]) /\ Fit([m EXCEPT !.intercept = "none"])
         /\ [m EXCEPT !.strict = b].intercept = m.intercept
         /\ \A r \in {[m EXCEPT !.strict = b], [m EXCEPT !.intercept = "none"]} :
              /\ r.goal = m.goal /\ r.status = m.status /\ r.blocks = m.blocks
              /\ r.block = m.block /\ r.intercepts = m.intercepts /\ r.checked = m.checked
<1>1. m \in Machines
  BY DEF Fit
<1>2. ASSUME NEW r \in {[m EXCEPT !.strict = b], [m EXCEPT !.intercept = "none"]}
      PROVE  /\ r \in Machines /\ r.turns = m.turns
             /\ r.goal = m.goal /\ r.status = m.status /\ r.blocks = m.blocks
             /\ r.block = m.block /\ r.intercepts = m.intercepts /\ r.checked = m.checked
  <2>1. CASE r = [m EXCEPT !.strict = b]
    <3>1. r \in Machines
      BY <1>1, <2>1, SMT DEF Machines
    <3> QED BY <1>1, <2>1, <3>1, SMT DEF Machines
  <2>2. CASE r = [m EXCEPT !.intercept = "none"]
    <3>1. r \in Machines
      BY <1>1, <2>2, SMT DEF Machines
    <3> QED BY <1>1, <2>2, <3>1, SMT DEF Machines
  <2> QED BY <1>2, <2>1, <2>2
<1>3. ASSUME NEW r, r \in Machines, r.turns = m.turns, r.goal = m.goal, r.status = m.status,
             r.blocks = m.blocks, r.intercepts = m.intercepts
      PROVE  Fit(r)
  BY <1>3 DEF Fit, Running
<1>4. [m EXCEPT !.strict = b].intercept = m.intercept
  BY <1>1, SMT DEF Machines
<1> QED BY <1>2, <1>3, <1>4

\* The todos a session is taken up with.
LEMMA LoadedFits ==
  ASSUME FileOK, NEW s \in Sessions
  PROVE  Loaded(s) \subseteq BOOLEAN
<1>1. file[s].status \in {"complete", "blocked", "stopped"} => file[s].open \in BOOLEAN
  BY SMT DEF FileOK, Images, NoState
<1> QED BY <1>1, GoalsAssumption, Zenon DEF Loaded

LEMMA TypeStep ==
  ASSUME TypeInv, [Next]_vars
  PROVE  TypeInv'
<1>0. /\ Fit(machine) /\ FileOK /\ WritingOK /\ FlowOK
      /\ path \in Sessions /\ open \in BOOLEAN /\ sent \in Sent
      /\ commands \in [Frontends -> Seq(Cmds)] /\ reply \in Answers \cup {NoReply}
  BY DEF TypeInv, FlowOK
<1>m. ASSUME UNCHANGED machine PROVE Fit(machine')
  BY <1>0, <1>m
<1>f. ASSUME UNCHANGED file PROVE FileOK'
  BY <1>0, <1>f DEF FileOK
<1>w. ASSUME UNCHANGED writing PROVE WritingOK'
  BY <1>0, <1>w DEF WritingOK
<1>n. NoReply \in Answers \cup {NoReply}
  OBVIOUS
<1>d. Todos \subseteq BOOLEAN
  BY GoalsAssumption
<1>q. ASSUME Fit(machine'), FileOK', WritingOK', FlowOK'
      PROVE  TypeInv'
  BY <1>q DEF TypeInv
<1>fl. ASSUME path' \in Sessions, open' \in BOOLEAN, canceled' \in BOOLEAN,
              pc' \in {"idle", "turn", "failed", "advance", "complete", "todos",
                       "last", "loop", "ending"},
              reply' \in Answers \cup {NoReply},
              commands' \in [Frontends -> Seq(Cmds)], sent' \in Sent
       PROVE  FlowOK'
  BY <1>fl DEF FlowOK
<1>k. /\ canceled \in BOOLEAN
      /\ pc \in {"idle", "turn", "failed", "advance", "complete", "todos",
                 "last", "loop", "ending"}
  BY <1>0 DEF FlowOK
<1>1. ASSUME NEW f \in Frontends, Request(f) PROVE TypeInv'
  <2>1. PICK request \in Requests : commands' = [commands EXCEPT ![f] = request]
    BY <1>1 DEF Request
  <2>2. commands' \in [Frontends -> Seq(Cmds)]
    BY <1>0, <2>1, RequestFacts
  <2>3. FlowOK'
    BY <1>0, <1>1, <1>k, <2>2, <1>fl DEF Request
  <2> QED BY <1>1, <1>m, <1>f, <1>w, <1>q, <2>3 DEF Request
<1>2. ASSUME NEW f \in Frontends, SetGoal(f) PROVE TypeInv'
  <2> DEFINE goal == Head(commands[f]).goal
  <2>1. /\ commands' \in [Frontends -> Seq(Cmds)] /\ goal \in Goals \cup {NoGoal}
    BY <1>0, <1>2, TakesFacts DEF SetGoal
  <2> HIDE DEF goal
  <2>2. CASE Unchanged(machine, goal)
    <3>1. UNCHANGED <<machine, writing, sent>>
      BY <1>2, <2>2 DEF SetGoal, goal
    <3>2. FlowOK'
      BY <1>0, <1>2, <1>k, <2>1, <3>1, <1>fl DEF SetGoal
    <3> QED BY <1>2, <1>m, <1>f, <1>w, <1>q, <3>1, <3>2 DEF SetGoal
  <2>3. CASE ~Unchanged(machine, goal)
    <3>1. /\ machine' = SetTo(goal) /\ sent' = Untold
          /\ writing' = [writing EXCEPT ![f] = Built(SetTo(goal), open)]
      BY <1>2, <2>3 DEF SetGoal, goal
    <3>2. Fit(SetTo(goal))
      BY <2>1, ResetFits
    <3>3. WritingOK'
      BY <1>0, <3>1, <3>2, BuildFits DEF Threads
    <3>4. FlowOK'
      BY <1>0, <1>2, <1>k, <2>1, <3>1, <1>fl, UntoldFacts DEF SetGoal
    <3> QED BY <1>2, <1>f, <1>q, <3>1, <3>2, <3>3, <3>4 DEF SetGoal
  <2> QED BY <2>2, <2>3
<1>3. ASSUME NEW f \in Frontends, SetStrict(f) PROVE TypeInv'
  <2> DEFINE strict == Head(commands[f]).strict
             m == [machine EXCEPT !.strict = strict]
  <2>1. commands' \in [Frontends -> Seq(Cmds)] /\ strict \in BOOLEAN
    BY <1>0, <1>3, TakesFacts DEF SetStrict
  <2>2. /\ machine' = m
        /\ writing' = [writing EXCEPT ![f] = Built(m, open)]
    BY <1>3 DEF SetStrict
  <2>3. Fit(m)
    BY <1>0, <2>1, EditedFits
  <2> HIDE DEF m
  <2>4. WritingOK'
    BY <1>0, <2>2, <2>3, BuildFits DEF Threads
  <2>5. FlowOK'
    BY <1>0, <1>3, <1>k, <2>1, <1>fl DEF SetStrict
  <2> QED BY <1>3, <1>f, <1>q, <2>2, <2>3, <2>4, <2>5 DEF SetStrict
<1>4. ASSUME NEW f \in Frontends, Submit(f) PROVE TypeInv'
  <2>1. commands' \in [Frontends -> Seq(Cmds)]
    BY <1>0, <1>4, TakesFacts DEF Submit
  <2>2. pc' \in {pc, "turn"} /\ canceled' \in BOOLEAN
    BY <1>4, <1>k DEF Submit
  <2>3. FlowOK'
    BY <1>0, <1>4, <1>k, <2>1, <2>2, <1>fl DEF Submit
  <2> QED BY <1>4, <1>m, <1>f, <1>w, <1>q, <2>3 DEF Submit
<1>5. ASSUME NEW f \in Frontends, Cancel(f) PROVE TypeInv'
  <2>1. commands' \in [Frontends -> Seq(Cmds)]
    BY <1>0, <1>5, TakesFacts DEF Cancel
  <2>2. canceled' \in BOOLEAN
    BY <1>5, <1>k DEF Cancel
  <2>3. FlowOK'
    BY <1>0, <1>5, <1>k, <2>1, <2>2, <1>fl DEF Cancel
  <2>4. CASE UNCHANGED <<machine, writing>>
    BY <1>5, <1>m, <1>f, <1>w, <1>q, <2>3, <2>4 DEF Cancel
  <2>5. CASE ~UNCHANGED <<machine, writing>>
    <3>1. /\ machine' = Stopped(machine, "stopped")
          /\ writing' = [writing EXCEPT ![f] = Built(machine', open)]
      BY <1>5, <2>5 DEF Cancel
    <3>2. Fit(machine')
      BY <1>0, <3>1, StoppedFits
    <3>3. WritingOK'
      BY <1>0, <3>1, <3>2, BuildFits DEF Threads
    <3> QED BY <1>5, <1>f, <1>q, <2>3, <3>2, <3>3 DEF Cancel
  <2> QED BY <2>4, <2>5
<1>6. ASSUME NEW f \in Frontends, Switch(f) PROVE TypeInv'
  <2> DEFINE cmd == Head(commands[f])
  <2>1. /\ commands' \in [Frontends -> Seq(Cmds)] /\ cmd.session \in Sessions
    BY <1>0, <1>6, TakesFacts DEF Switch
  <2>2. CASE pc # "idle"
    <3>1. UNCHANGED <<machine, path, open, reply, sent>>
      BY <1>6, <2>2 DEF Switch
    <3>2. FlowOK'
      BY <1>0, <1>6, <1>k, <2>1, <3>1, <1>fl DEF Switch
    <3> QED BY <1>6, <1>m, <1>f, <1>w, <1>q, <3>1, <3>2 DEF Switch
  <2>3. CASE pc = "idle"
    <3>1. /\ path' = cmd.session /\ open' \in Loaded(cmd.session)
          /\ machine' = machine \/ machine' = Restored(machine, file[cmd.session])
          /\ reply' = NoReply /\ sent' \in {Untold, sent}
      BY <1>6, <2>3 DEF Switch, NoReply
    <3>2. file[cmd.session] \in Images \cup {NoState} /\ Running(file[cmd.session])
      BY <1>0, <2>1 DEF FileOK
    <3>3. Fit(machine')
      BY <1>0, <3>1, <3>2, RestoredFits
    <3>4. path' \in Sessions /\ open' \in BOOLEAN /\ sent' \in Sent
      BY <1>0, <2>1, <3>1, LoadedFits, UntoldFacts
    <3>5. FlowOK'
      BY <1>6, <1>k, <1>n, <2>1, <3>1, <3>4, <1>fl DEF Switch
    <3> QED BY <1>6, <1>f, <1>w, <1>q, <3>3, <3>5 DEF Switch
  <2> QED BY <2>2, <2>3
<1>7. ASSUME NEW f \in Frontends, Persist(f) PROVE TypeInv'
  <2>1. FileOK' /\ WritingOK'
    BY <1>0, <1>7, WriteFits DEF Persist, Threads
  <2>2. FlowOK'
    BY <1>0, <1>7, <1>k, <1>fl DEF Persist
  <2> QED BY <1>7, <1>m, <1>q, <2>1, <2>2 DEF Persist
<1>8. CASE Answer
  <2>1. PICK a \in Answers :
          /\ reply' = a
          /\ sent' = [sent EXCEPT !.todos = @ /\ a.mark \notin {"continue", "none"},
                                  !.closed = FALSE, !.blocked = Reported(a.reason)]
    BY <1>8 DEF Answer
  <2>2. sent' \in Sent
    BY <1>0, <2>1, AnsweredFacts
  <2>3. FlowOK'
    BY <1>0, <1>8, <1>k, <1>d, <2>1, <2>2, <1>fl DEF Answer
  <2> QED BY <1>8, <1>m, <1>f, <1>w, <1>q, <2>3 DEF Answer
<1>9. CASE Refuse
  <2>1. [sent EXCEPT !.blocked = Reported(reply.reason)] \in Sent
    BY <1>0, ReportedFacts, SMT DEF Sent
  <2>2. FlowOK'
    BY <1>0, <1>9, <1>k, <2>1, <1>fl DEF Refuse
  <2> QED BY <1>9, <1>m, <1>f, <1>w, <1>q, <2>2 DEF Refuse
<1>10. CASE Fail
  <2>1. [sent EXCEPT !.closed = FALSE] \in Sent
    BY <1>0, ClosedFacts
  <2>2. FlowOK'
    BY <1>0, <1>10, <1>k, <1>d, <2>1, <1>fl DEF Fail
  <2> QED BY <1>10, <1>m, <1>f, <1>w, <1>q, <2>2 DEF Fail
<1>11. CASE Advance
  <2> DEFINE m == Advanced(machine, reply, open)
  <2>1. pc' \in {"ending", "loop", "complete", "last"}
    BY <1>11 DEF Advance
  <2>2. FlowOK'
    BY <1>0, <1>11, <1>k, <2>1, <1>fl DEF Advance
  <2>3. CASE ~Active(machine)
    BY <1>11, <1>m, <1>f, <1>w, <1>q, <2>2, <2>3 DEF Advance
  <2>4. CASE Active(machine)
    <3>1. Fit(m)
      BY <1>0, <2>4, AdvancedFacts
    <3>2. machine' = m /\ (UNCHANGED writing \/ writing' = [writing EXCEPT ![Turn] = Built(m, open)])
      BY <1>11, <2>4 DEF Advance
    <3> HIDE DEF m
    <3>3. WritingOK'
      BY <1>0, <1>w, <3>1, <3>2, BuildFits DEF Threads
    <3> QED BY <1>11, <1>f, <1>q, <2>2, <3>1, <3>2, <3>3 DEF Advance
  <2> QED BY <2>3, <2>4
<1>12. CASE Complete
  <2>1. FileOK' /\ WritingOK'
    BY <1>0, <1>12, WriteFits DEF Complete, Threads
  <2>2. [sent EXCEPT !.closed = ~open] \in Sent
    BY <1>0, ClosedFacts
  <2>3. pc' \in {"todos", "ending"}
    BY <1>12 DEF Complete
  <2>4. FlowOK'
    BY <1>0, <1>12, <1>k, <2>2, <2>3, <1>fl DEF Complete
  <2> QED BY <1>12, <1>m, <1>q, <2>1, <2>4 DEF Complete
<1>13. CASE CloseTodos
  <2>1. WritingOK'
    BY <1>0, <1>13, BuildFits DEF CloseTodos, Threads
  <2>2. [sent EXCEPT !.closed = TRUE] \in Sent
    BY <1>0, ClosedFacts
  <2>3. FlowOK'
    BY <1>0, <1>13, <1>k, <2>2, <1>fl DEF CloseTodos
  <2> QED BY <1>13, <1>m, <1>f, <1>q, <2>1, <2>3 DEF CloseTodos
<1>14. CASE Last
  <2>1. FileOK' /\ WritingOK'
    BY <1>0, <1>14, WriteFits DEF Last, Threads
  <2>2. FlowOK'
    BY <1>0, <1>14, <1>k, <1>fl DEF Last
  <2> QED BY <1>14, <1>m, <1>q, <2>1, <2>2 DEF Last
<1>15. CASE Stop
  <2>1. Fit(machine')
    BY <1>0, <1>15, StoppedFits DEF Stop
  <2>2. WritingOK'
    BY <1>0, <1>15, <2>1, BuildFits DEF Stop, Threads
  <2>3. FlowOK'
    BY <1>0, <1>15, <1>k, <1>fl DEF Stop
  <2> QED BY <1>15, <1>f, <1>q, <2>1, <2>2, <2>3 DEF Stop
<1>16. CASE GiveUp
  <2>1. FlowOK'
    BY <1>0, <1>16, <1>k, <1>fl DEF GiveUp
  <2> QED BY <1>16, <1>m, <1>f, <1>w, <1>q, <2>1 DEF GiveUp
<1>17. CASE Continue
  <2>1. Fit(machine')
    BY <1>0, <1>17, EditedFits DEF Continue
  <2> DEFINE told   == sent.todos \/ machine.intercept = "todos"
             asked  == sent.check \/ machine.intercept = "check"
  <2>2. told \in BOOLEAN /\ asked \in BOOLEAN
    OBVIOUS
  <2>3. sent' = [sent EXCEPT !.todos = told, !.check = asked]
    BY <1>17, Zenon DEF Continue
  <2> HIDE DEF told, asked
  <2>4. sent' \in Sent
    BY <1>0, <2>2, <2>3, ToldFacts
  <2>5. FlowOK'
    BY <1>0, <1>17, <1>k, <2>4, <1>fl DEF Continue
  <2> QED BY <1>17, <1>f, <1>w, <1>q, <2>1, <2>5 DEF Continue
<1>18. CASE End
  <2>1. FlowOK'
    BY <1>0, <1>18, <1>k, <1>fl DEF End
  <2> QED BY <1>18, <1>m, <1>f, <1>w, <1>q, <2>1 DEF End
<1>19. CASE Restart
  <2>1. PICK torn \in SUBSET {t \in Threads : writing[t] # Nothing} :
          file' = [s \in Sessions |-> IF \E t \in torn : writing[t].at = s THEN NoState ELSE file[s]]
    BY <1>19 DEF Restart
  <2>2. \A s \in Sessions : file'[s] \in {file[s], NoState}
    BY <2>1
  <2>3. file' \in [Sessions -> Images \cup {NoState}]
    BY <1>0, <2>1 DEF FileOK
  <2>4. Running(NoState)
    BY SMT DEF Running, NoState
  <2>5. FileOK'
    BY <1>0, <2>2, <2>3, <2>4, Zenon DEF FileOK
  <2>6. file'[path] \in Images \cup {NoState} /\ Running(file'[path])
    BY <1>0, <2>2, <2>3, <2>4, Zenon DEF FileOK
  <2>7. Fit(machine')
    BY <1>19, <2>6, ResetFits, RestoredFits DEF Restart
  <2>8. file'[path].status \in {"complete", "blocked", "stopped"} => file'[path].open \in BOOLEAN
    BY <2>6, SMT DEF Images, NoState
  <2>9. open' \in BOOLEAN
    BY <1>19, <1>d, <2>8, Zenon DEF Restart
  <2>10. WritingOK'
    <3>1. writing' = [t \in Threads |-> Nothing]
      BY <1>19 DEF Restart
    <3>2. Nothing \in Writes /\ Running(Nothing.image)
      BY SMT DEF Writes, Running, Nothing, NoState
    <3> QED BY <3>1, <3>2 DEF WritingOK
  <2>11. /\ path' = path /\ canceled' = FALSE /\ pc' = "idle" /\ reply' = NoReply
         /\ sent' = Untold /\ commands' = [f \in Frontends |-> <<>>]
    BY <1>19 DEF Restart, NoReply
  <2>12. commands' \in [Frontends -> Seq(Cmds)]
    BY <2>11
  <2>13. FlowOK'
    BY <1>0, <1>n, <2>9, <2>11, <2>12, <1>fl, UntoldFacts
  <2> QED BY <1>q, <2>5, <2>7, <2>10, <2>13
<1>20. CASE UNCHANGED vars
  <2>1. FlowOK'
    BY <1>0, <1>20, <1>k, <1>fl DEF vars, core
  <2> QED BY <1>20, <1>m, <1>f, <1>w, <1>q, <2>1 DEF vars, core
<1>21. ASSUME NEW f \in Frontends, Command(f) PROVE TypeInv'
  BY <1>1, <1>2, <1>3, <1>4, <1>5, <1>6, <1>7, <1>21 DEF Command
<1>22. CASE TurnStep
  BY <1>8, <1>9, <1>10, <1>11, <1>12, <1>13, <1>14, <1>15, <1>16, <1>17, <1>18, <1>22 DEF TurnStep
<1> QED BY <1>19, <1>20, <1>21, <1>22 DEF Next

-----------------------------------------------------------------------------
(* Every step keeps the account of what the model was told and has said.   *)

Sums == [Reasons -> 0 .. 3]

\* A machine that counts nothing yet is covered by any account.
LEMMA FreshCounted ==
  ASSUME NEW x, x.blocks = 0, NEW said \in Sums
  PROVE  CountedIn(x, said)
<1> SUFFICES ASSUME x.block \in Reasons
             PROVE  x.blocks <= said[x.block]
  BY DEF CountedIn
<1>1. said[x.block] \in 0 .. 3
  BY DEF Sums
<1>2. \A n \in 0 .. 3 : 0 <= n
  OBVIOUS
<1> QED BY <1>1, <1>2

LEMMA CountedMore ==
  ASSUME NEW said \in Sums, NEW more \in Sums, \A r \in Reasons : said[r] <= more[r],
         NEW x, x.status = "running" => x.blocks \in 0 .. 3, CountedIn(x, said)
  PROVE  CountedIn(x, more)
<1> SUFFICES ASSUME x.status = "running", x.block \in Reasons
             PROVE  x.blocks <= more[x.block]
  BY DEF CountedIn
<1>1. x.blocks <= said[x.block] /\ said[x.block] <= more[x.block]
  BY DEF CountedIn
<1>2. said[x.block] \in 0 .. 3 /\ more[x.block] \in 0 .. 3 /\ x.blocks \in 0 .. 3
  BY DEF Sums
<1> QED BY <1>1, <1>2, SMT

LEMMA BlocksFacts ==
  ASSUME TypeInv
  PROVE  /\ machine.blocks \in 0 .. 3
         /\ \A s \in Sessions : file[s].status = "running" => file[s].blocks \in 0 .. 3
         /\ \A t \in Threads : writing[t].image.status = "running" =>
              writing[t].image.blocks \in 0 .. 3
         /\ sent.blocked \in Sums
<1>1. machine.blocks \in 0 .. 3
  BY MachineParts DEF TypeInv, Fit, FieldsOK
<1>2. ASSUME NEW x \in Images \cup {NoState} PROVE x.status = "running" => x.blocks \in 0 .. 3
  BY <1>2, SMT DEF Images, NoState
<1>3. ASSUME NEW s \in Sessions PROVE file[s] \in Images \cup {NoState}
  BY <1>3 DEF TypeInv, FileOK
<1>4. ASSUME NEW t \in Threads PROVE writing[t].image \in Images \cup {NoState}
  <2>1. writing[t] \in Writes
    BY <1>4 DEF TypeInv, WritingOK
  <2>2. CASE writing[t] = Nothing
    BY <2>2, SMT DEF Nothing
  <2>3. CASE writing[t] \in [at : Sessions, image : Images]
    BY <2>3, SMT
  <2> QED BY <2>1, <2>2, <2>3 DEF Writes
<1> QED BY <1>1, <1>2, <1>3, <1>4, SentFacts DEF TypeInv, FlowOK, Sums

\* Saying more spoils no count.
LEMMA SaidMore ==
  ASSUME TypeInv, ReasonInv, sent'.blocked \in Sums,
         \A r \in Reasons : sent.blocked[r] <= sent'.blocked[r]
  PROVE  /\ CountedIn(machine, sent'.blocked)
         /\ UNCHANGED file => ReasonsOnFile'
         /\ UNCHANGED writing => ReasonsBuilt'
<1>0. /\ CountedIn(machine, sent.blocked)
      /\ \A s \in Sessions : CountedIn(file[s], sent.blocked)
      /\ \A t \in Threads : CountedIn(writing[t].image, sent.blocked)
  BY DEF ReasonInv, ReasonsOnFile, ReasonsBuilt, Counted
<1>1. CountedIn(machine, sent'.blocked)
  BY <1>0, BlocksFacts, CountedMore
<1>2. \A s \in Sessions : CountedIn(file[s], sent'.blocked)
  BY <1>0, BlocksFacts, CountedMore
<1>3. \A t \in Threads : CountedIn(writing[t].image, sent'.blocked)
  BY <1>0, BlocksFacts, CountedMore
<1>4. ASSUME UNCHANGED file PROVE ReasonsOnFile'
  BY <1>2, <1>4 DEF ReasonsOnFile, Counted
<1>5. ASSUME UNCHANGED writing PROVE ReasonsBuilt'
  BY <1>3, <1>5 DEF ReasonsBuilt, Counted
<1> QED BY <1>1, <1>4, <1>5

LEMMA SaidSame ==
  ASSUME ReasonInv, sent'.blocked = sent.blocked
  PROVE  /\ UNCHANGED machine => Counted(machine)'
         /\ UNCHANGED file => ReasonsOnFile'
         /\ UNCHANGED writing => ReasonsBuilt'
BY DEF ReasonInv, ReasonsOnFile, ReasonsBuilt, Counted

\* What is built is counted as the machine it is built from.
LEMMA CountedBuild ==
  ASSUME TypeInv, ReasonInv, sent'.blocked = sent.blocked, NEW t \in Threads,
         NEW m, Fit(m), CountedIn(m, sent.blocked), NEW todos \in BOOLEAN,
         writing' = [writing EXCEPT ![t] = Built(m, todos)]
  PROVE  ReasonsBuilt'
<1> DEFINE x == Image(m, todos)
<1>1. x.status = m.status /\ x.blocks = m.blocks /\ x.block = m.block
  BY ImageFits
<1>2. CountedIn(x, sent.blocked)
  BY <1>1 DEF CountedIn
<1> HIDE DEF x
<1>3. writing' = [writing EXCEPT ![t] = [at |-> path, image |-> x]]
  BY DEF Built, x
<1>4. \A u \in Threads : writing'[u].image = IF u = t THEN x ELSE writing[u].image
  BY <1>3, SMT DEF TypeInv, WritingOK
<1>5. \A u \in Threads : CountedIn(writing[u].image, sent.blocked)
  BY DEF ReasonInv, ReasonsBuilt, Counted
<1>6. \A u \in Threads : CountedIn(writing'[u].image, sent'.blocked)
  BY <1>2, <1>4, <1>5, Zenon
<1> QED BY <1>6 DEF ReasonsBuilt, Counted

LEMMA CountedWrite ==
  ASSUME TypeInv, ReasonInv, sent'.blocked = sent.blocked, NEW t \in Threads, Write(t)
  PROVE  ReasonsOnFile' /\ ReasonsBuilt'
<1>0. /\ \A s \in Sessions : CountedIn(file[s], sent.blocked)
      /\ \A u \in Threads : CountedIn(writing[u].image, sent.blocked)
  BY DEF ReasonInv, ReasonsOnFile, ReasonsBuilt, Counted
<1>1. /\ \A u \in Threads : writing'[u] = IF u = t THEN Nothing ELSE writing[u]
      /\ \A s \in Sessions : file'[s] = IF s = writing[t].at THEN writing[t].image ELSE file[s]
  BY WriteFits DEF TypeInv
<1>2. CountedIn(Nothing.image, sent.blocked)
  BY SMT DEF CountedIn, Nothing, NoState
<1>3. \A s \in Sessions : CountedIn(file'[s], sent'.blocked)
  BY <1>0, <1>1, Zenon
<1>4. \A u \in Threads : CountedIn(writing'[u].image, sent'.blocked)
  BY <1>0, <1>1, <1>2, Zenon
<1> QED BY <1>3, <1>4 DEF ReasonsOnFile, ReasonsBuilt, Counted

\* A step that tells the model nothing and takes nothing from it.
LEMMA QuietCause ==
  ASSUME CauseInv, UNCHANGED <<machine, reply>>,
         sent'.todos = sent.todos, sent'.check = sent.check, sent'.blocked = sent.blocked,
         UNCHANGED pc \/ (pc \notin {"loop", "advance"} /\ pc' # "advance"),
         ReasonsOnFile', ReasonsBuilt'
  PROVE  CauseInv'
<1>1. ToldTodos'
  BY DEF CauseInv, ToldTodos, Dismissed
<1>2. ToldCheck'
  BY DEF CauseInv, ToldCheck
<1>3. Counted(machine)'
  BY SaidSame DEF CauseInv
<1>4. ReasonInHand'
  BY DEF CauseInv, ReasonInv, ReasonInHand
<1> QED BY <1>1, <1>2, <1>3, <1>4 DEF CauseInv, ReasonInv

\* A step after which no goal runs.
LEMMA StoppedCause ==
  ASSUME TypeInv', ~Active(machine)', ReasonsOnFile', ReasonsBuilt', pc' # "advance"
  PROVE  CauseInv'
<1>1. machine'.status # "running"
  BY DEF TypeInv, Fit, Active
<1> QED BY <1>1 DEF CauseInv, ToldTodos, ToldCheck, ReasonInv, ReasonInHand, Counted, CountedIn

\* A goal set, or taken up from a file whose count is no more than was said.
LEMMA FreshCause ==
  ASSUME TypeInv, CauseInv, sent' = Untold, pc' # "advance",
         machine'.intercepts = 0, machine'.checked = FALSE,
         CountedIn(machine', sent.blocked), ReasonsOnFile', ReasonsBuilt'
  PROVE  CauseInv'
<1>1. sent'.blocked = sent.blocked
  BY UntoldFacts DEF TypeInv, FlowOK
<1>2. ToldTodos' /\ ToldCheck'
  BY DEF ToldTodos, ToldCheck
<1>3. Counted(machine)' /\ ReasonInHand'
  BY <1>1 DEF Counted, ReasonInHand
<1> QED BY <1>2, <1>3 DEF CauseInv, ReasonInv

\* An answer is counted as said before the machine counts it.
LEMMA AnswerCause ==
  ASSUME TypeInv, CauseInv, pc = "turn", pc' = "advance", UNCHANGED <<machine, file, writing>>,
         reply' \in Answers \cup {NoReply},
         sent'.blocked = Reported(reply'.reason), sent'.check = sent.check,
         sent'.todos = sent.todos \/ Dismissed'
  PROVE  CauseInv'
<1>0. sent \in Sent /\ sent.blocked \in Sums /\ CountedIn(machine, sent.blocked) /\ Running(machine)
  BY BlocksFacts DEF TypeInv, Fit, FlowOK, CauseInv, ReasonInv, Counted
<1>1. /\ sent'.blocked \in Sums
      /\ \A r \in Reasons : /\ sent'.blocked[r] >= sent.blocked[r]
                            /\ r = reply'.reason /\ sent.blocked[r] < 3 =>
                                 sent'.blocked[r] = sent.blocked[r] + 1
  BY <1>0, ReportedFacts DEF Sums
<1>2. \A r \in Reasons : sent.blocked[r] <= sent'.blocked[r]
  BY <1>0, <1>1, SMT DEF Sums
<1>3. CountedIn(machine, sent'.blocked) /\ ReasonsOnFile' /\ ReasonsBuilt'
  BY <1>1, <1>2, SaidMore DEF CauseInv
<1>4. ToldTodos'
  BY DEF CauseInv, ToldTodos
<1>5. ToldCheck'
  BY DEF CauseInv, ToldCheck
<1>6. ReasonInHand'
  <2> SUFFICES ASSUME reply'.mark = "blocked"
               PROVE  /\ sent'.blocked[reply'.reason] >= 1
                      /\ Active(machine) /\ machine.block = reply'.reason =>
                           machine.blocks < sent'.blocked[reply'.reason]
    BY DEF ReasonInHand
  <2> DEFINE r == reply'.reason
             said == sent.blocked[r]
             more == sent'.blocked[r]
  <2>1. r \in Reasons
    BY AnswerFacts
  <2>2. said \in 0 .. 3 /\ more \in 0 .. 3 /\ more >= said /\ (said < 3 => more = said + 1)
    BY <1>0, <1>1, <2>1 DEF Sums
  <2>3. machine.blocks \in 0 .. 3 /\ (Active(machine) => machine.blocks <= 2)
    BY <1>0, BlocksFacts DEF Running, Active
  <2>4. Active(machine) /\ machine.block = r => machine.blocks <= said
    BY <1>0, <2>1 DEF CountedIn, Active
  <2> HIDE DEF r, said, more
  <2>5. more >= 1 /\ (Active(machine) /\ machine.block = r => machine.blocks < more)
    BY <2>2, <2>3, <2>4, SMT
  <2> QED BY <2>5 DEF r, more
<1> QED BY <1>3, <1>4, <1>5, <1>6 DEF CauseInv, ReasonInv, Counted

\* The machine that a turn leaves running is accounted for.
LEMMA AdvanceCause ==
  ASSUME TypeInv, CauseInv, Advance, Active(machine)
  PROVE  /\ CauseInv'
         /\ machine'.status = "complete" => /\ open => ~machine.strict /\ sent.todos
                                            /\ machine.strict => sent.check
         /\ machine'.status = "blocked" /\ machine'.block # "limit" =>
              sent.blocked[machine'.block] = 3
<1> DEFINE r == Advanced(machine, reply, open)
<1>0. /\ Fit(machine) /\ sent.blocked \in Sums /\ machine.blocks \in 0 .. 3
      /\ reply \in Answers \cup {NoReply} /\ open \in BOOLEAN
      /\ ToldTodos /\ ToldCheck /\ CountedIn(machine, sent.blocked) /\ ReasonInHand
      /\ ReasonInv
  BY BlocksFacts DEF TypeInv, FlowOK, CauseInv, ReasonInv, Counted
<1>1. /\ Fit(r)
      /\ r.status \in {"running", "complete", "blocked"}
      /\ r.status = "complete" => /\ reply.mark = "complete"
                                  /\ open => ~machine.strict /\ machine.intercepts > 0
                                  /\ machine.strict => machine.checked
      /\ r.status = "blocked" /\ r.block # "limit" =>
           /\ reply.mark = "blocked" /\ r.block = reply.reason
           /\ r.block = machine.block /\ machine.blocks = 2
      /\ r.status = "running" /\ r.intercepts > 0 =>
           /\ reply.mark \in {"complete", "blocked"}
           /\ machine.intercepts > 0 \/ r.intercept = "todos"
      /\ r.status = "running" /\ r.checked => machine.checked \/ r.intercept = "check"
      /\ r.status = "running" =>
           \/ r.blocks = 0
           \/ r.blocks = machine.blocks /\ r.block = machine.block
           \/ /\ reply.mark = "blocked" /\ r.block = reply.reason
              /\ r.blocks = 1 \/ (r.blocks = machine.blocks + 1 /\ r.block = machine.block)
  BY <1>0, AdvancedFacts
<1>2. /\ machine' = r /\ pc = "advance" /\ UNCHANGED <<file, sent, reply>>
      /\ pc' = IF r.status = "running" THEN "loop"
               ELSE IF r.status = "complete" THEN "complete" ELSE "last"
      /\ IF r.status = "running" THEN UNCHANGED writing
         ELSE writing' = [writing EXCEPT ![Turn] = Built(r, open)]
  BY DEF Advance
<1> HIDE DEF r
<1>3. machine.intercepts > 0 /\ reply.mark \in {"complete", "blocked"} => sent.todos
  BY <1>0, <1>2 DEF ToldTodos, Dismissed
<1>4. machine.checked => sent.check
  BY <1>0, <1>2 DEF ToldCheck
<1>5. ToldTodos'
  BY <1>1, <1>2, <1>3 DEF ToldTodos, Active
<1>6. ToldCheck'
  BY <1>1, <1>2, <1>4 DEF ToldCheck, Active
<1>7. CountedIn(r, sent.blocked)
  <2> SUFFICES ASSUME r.status = "running", r.block \in Reasons
               PROVE  r.blocks <= sent.blocked[r.block]
    BY DEF CountedIn
  <2>1. sent.blocked[r.block] \in 0 .. 3
    BY <1>0 DEF Sums
  <2>2. machine.block = r.block => machine.blocks <= sent.blocked[r.block]
    BY <1>0 DEF CountedIn, Active
  <2>3. reply.mark = "blocked" /\ r.block = reply.reason =>
          /\ sent.blocked[r.block] >= 1
          /\ machine.block = r.block => machine.blocks < sent.blocked[r.block]
    BY <1>0, <1>2 DEF ReasonInHand
  <2> QED BY <1>0, <1>1, <2>1, <2>2, <2>3, SMT
<1>8. ReasonsOnFile'
  BY <1>0, <1>2, SaidSame
<1>9. ReasonsBuilt'
  BY <1>0, <1>1, <1>2, <1>7, SaidSame, CountedBuild DEF Threads
<1>10. ReasonInHand'
  BY <1>2 DEF ReasonInHand
<1>11. CauseInv'
  BY <1>2, <1>5, <1>6, <1>7, <1>8, <1>9, <1>10 DEF CauseInv, ReasonInv, Counted
<1>12. ASSUME r.status = "blocked", r.block # "limit" PROVE sent.blocked[r.block] = 3
  <2>1. reply.mark = "blocked" /\ r.block = reply.reason /\ r.block = machine.block /\ machine.blocks = 2
    BY <1>1, <1>12
  <2>2. r.block \in Reasons
    BY <1>0, <2>1, AnswerFacts
  <2>3. 2 < sent.blocked[r.block]
    BY <1>0, <1>2, <2>1 DEF ReasonInHand
  <2>4. sent.blocked[r.block] \in 0 .. 3
    BY <1>0, <2>2 DEF Sums
  <2> QED BY <2>3, <2>4, SMT
<1> QED BY <1>1, <1>2, <1>3, <1>4, <1>11, <1>12

LEMMA CauseStep ==
  ASSUME TypeInv, TypeInv', CauseInv, [Next]_vars
  PROVE  /\ CauseInv'
         /\ Completes => /\ open => ~machine.strict /\ sent.todos
                         /\ machine.strict => sent.check
         /\ GivesUp => sent.blocked[machine'.block] = 3
<1> DEFINE Goal == /\ CauseInv'
                   /\ Completes => /\ open => ~machine.strict /\ sent.todos
                                   /\ machine.strict => sent.check
                   /\ GivesUp => sent.blocked[machine'.block] = 3
<1>0. /\ sent \in Sent /\ Fit(machine) /\ open \in BOOLEAN /\ ReasonInv
      /\ commands \in [Frontends -> Seq(Cmds)] /\ sent.blocked \in Sums
  BY BlocksFacts DEF TypeInv, FlowOK, CauseInv
<1>e. ASSUME CauseInv', Active(machine) => machine'.status \notin {"complete", "blocked"} PROVE Goal
  BY <1>e DEF Completes, GivesUp
<1>a. Active(machine) => machine.status \notin {"complete", "blocked"}
  BY DEF Active
\* Steps that touch neither the machine nor what was said.
<1>i. ASSUME UNCHANGED <<machine, reply>>,
             sent'.todos = sent.todos, sent'.check = sent.check, sent'.blocked = sent.blocked,
             UNCHANGED pc \/ (pc \notin {"loop", "advance"} /\ pc' # "advance"),
             ReasonsOnFile', ReasonsBuilt'
      PROVE  Goal
  BY <1>i, <1>a, <1>e, QuietCause
<1>s. UNCHANGED sent => /\ UNCHANGED file => ReasonsOnFile'
                        /\ UNCHANGED writing => ReasonsBuilt'
  BY <1>0, SaidSame
<1>1. ASSUME NEW f \in Frontends, Request(f) PROVE Goal
  BY <1>1, <1>i, <1>s DEF Request
<1>2. ASSUME NEW f \in Frontends, SetGoal(f) PROVE Goal
  <2> DEFINE goal == Head(commands[f]).goal
  <2>1. goal \in Goals \cup {NoGoal}
    BY <1>0, <1>2, TakesFacts DEF SetGoal
  <2> HIDE DEF goal
  <2>2. CASE Unchanged(machine, goal)
    <3>1. UNCHANGED <<machine, writing, sent, pc, reply, file>>
      BY <1>2, <2>2 DEF SetGoal, goal
    <3> QED BY <3>1, <1>i, <1>s
  <2>3. CASE ~Unchanged(machine, goal)
    <3>1. /\ machine' = SetTo(goal) /\ sent' = Untold
          /\ writing' = [writing EXCEPT ![f] = Built(SetTo(goal), open)]
          /\ UNCHANGED <<file, pc, reply>>
      BY <1>2, <2>3 DEF SetGoal, goal
    <3> DEFINE m == SetTo(goal)
    <3>2. /\ Fit(m) /\ m.intercepts = 0 /\ m.checked = FALSE /\ m.blocks = 0
          /\ m.status \in {"running", "stopped"}
      <4>1. Fit(m)
        BY <2>1, ResetFits
      <4> QED BY <4>1, SMT DEF SetTo, Reset
    <3> HIDE DEF m
    <3>3. CountedIn(m, sent.blocked)
      BY <1>0, <3>2, FreshCounted
    <3>4. sent'.blocked = sent.blocked
      BY <1>0, <3>1, UntoldFacts
    <3>5. ReasonsOnFile' /\ ReasonsBuilt'
      BY <1>0, <3>1, <3>2, <3>3, <3>4, SaidSame, CountedBuild DEF Threads, m
    <3>6. ToldTodos' /\ ToldCheck'
      BY <3>1, <3>2 DEF ToldTodos, ToldCheck, m
    <3>7. ReasonInHand'
      <4> SUFFICES ASSUME pc = "advance", reply.mark = "blocked"
                   PROVE  /\ sent.blocked[reply.reason] >= 1
                          /\ 0 < sent.blocked[reply.reason]
        BY <3>1, <3>2, <3>4 DEF ReasonInHand, m
      <4>1. sent.blocked[reply.reason] >= 1 /\ reply.reason \in Reasons
        BY <1>0, AnswerFacts DEF ReasonInv, ReasonInHand, TypeInv, FlowOK
      <4>2. sent.blocked[reply.reason] \in 0 .. 3
        BY <1>0, <4>1 DEF Sums
      <4> QED BY <4>1, <4>2, SMT
    <3>8. CauseInv'
      BY <3>1, <3>3, <3>4, <3>5, <3>6, <3>7 DEF CauseInv, ReasonInv, Counted, m
    <3> QED BY <3>1, <3>2, <3>8, <1>e DEF m
  <2> QED BY <2>2, <2>3
<1>3. ASSUME NEW f \in Frontends, SetStrict(f) PROVE Goal
  <2> DEFINE strict == Head(commands[f]).strict
             m == [machine EXCEPT !.strict = strict]
  <2>1. strict \in BOOLEAN
    BY <1>0, <1>3, TakesFacts DEF SetStrict
  <2>2. /\ machine' = m /\ writing' = [writing EXCEPT ![f] = Built(m, open)]
        /\ UNCHANGED <<file, pc, reply, sent>>
    BY <1>3 DEF SetStrict
  <2>3. /\ Fit(m) /\ m.goal = machine.goal /\ m.status = machine.status
        /\ m.blocks = machine.blocks /\ m.block = machine.block
        /\ m.intercepts = machine.intercepts /\ m.checked = machine.checked
        /\ m.intercept = machine.intercept
    BY <1>0, <2>1, EditedFits
  <2> HIDE DEF m
  <2>4. CountedIn(m, sent.blocked)
    BY <1>0, <2>3 DEF CountedIn, ReasonInv, Counted
  <2>5. ReasonsOnFile' /\ ReasonsBuilt'
    BY <1>0, <2>2, <2>3, <2>4, SaidSame, CountedBuild DEF Threads
  <2>6. ToldTodos' /\ ToldCheck'
    BY <2>2, <2>3 DEF CauseInv, ToldTodos, ToldCheck, Active, Dismissed
  <2>7. ReasonInHand'
    BY <1>0, <2>2, <2>3 DEF ReasonInv, ReasonInHand, Active
  <2>8. CauseInv'
    BY <2>2, <2>4, <2>5, <2>6, <2>7 DEF CauseInv, ReasonInv, Counted
  <2> QED BY <2>2, <2>3, <2>8, <1>a, <1>e
<1>4. ASSUME NEW f \in Frontends, Submit(f) PROVE Goal
  <2>1. UNCHANGED pc \/ (pc = "idle" /\ pc' = "turn")
    BY <1>4 DEF Submit
  <2> QED BY <1>4, <2>1, <1>i, <1>s DEF Submit
<1>5. ASSUME NEW f \in Frontends, Cancel(f) PROVE Goal
  <2>1. CASE UNCHANGED <<machine, writing>>
    BY <1>5, <2>1, <1>i, <1>s DEF Cancel
  <2>2. CASE ~UNCHANGED <<machine, writing>>
    <3>1. /\ machine' = Stopped(machine, "stopped") /\ pc = "idle"
          /\ writing' = [writing EXCEPT ![f] = Built(machine', open)]
          /\ UNCHANGED <<file, pc, sent>>
      BY <1>5, <2>2 DEF Cancel
    <3>2. Fit(machine') /\ ~Active(machine')
      BY <1>0, <3>1, StoppedFits
    <3>3. machine'.status # "running"
      BY <3>2 DEF Fit, Active
    <3>4. CountedIn(machine', sent.blocked)
      BY <3>3 DEF CountedIn
    <3>5. ReasonsOnFile' /\ ReasonsBuilt'
      BY <1>0, <3>1, <3>2, <3>4, SaidSame, CountedBuild DEF Threads
    <3>6. CauseInv'
      BY <3>1, <3>2, <3>5, StoppedCause
    <3>7. Active(machine) => machine'.status = "stopped"
      BY <1>0, <3>1, StoppedFits
    <3> QED BY <3>6, <3>7, <1>e
  <2> QED BY <2>1, <2>2
<1>6. ASSUME NEW f \in Frontends, Switch(f) PROVE Goal
  <2> DEFINE cmd == Head(commands[f])
  <2>1. cmd.session \in Sessions
    BY <1>0, <1>6, TakesFacts DEF Switch
  <2>2. CASE pc # "idle"
    BY <1>6, <2>2, <1>i, <1>s DEF Switch
  <2>3. CASE pc = "idle"
    <3>1. /\ machine' = machine \/ machine' = Restored(machine, file[cmd.session])
          /\ sent' = IF machine' # machine THEN Untold ELSE sent
          /\ reply' = NoReply /\ UNCHANGED <<file, writing, pc>>
      BY <1>6, <2>3 DEF Switch, NoReply
    <3>2. sent'.blocked = sent.blocked
      BY <1>0, <3>1, UntoldFacts
    <3>3. ReasonsOnFile' /\ ReasonsBuilt'
      BY <1>0, <3>1, <3>2, SaidSame
    <3>4. CASE machine' = machine
      <4>1. ToldTodos' /\ ToldCheck'
        BY <2>3, <3>1, <3>4 DEF CauseInv, ToldTodos, ToldCheck
      <4>2. ReasonInHand'
        BY <2>3, <3>1 DEF ReasonInHand
      <4>3. Counted(machine)'
        BY <1>0, <3>2, <3>4, SaidSame
      <4>4. CauseInv'
        BY <3>3, <4>1, <4>2, <4>3 DEF CauseInv, ReasonInv
      <4> QED BY <3>4, <4>4, <1>a, <1>e
    <3>5. CASE machine' # machine
      <4>1. file[cmd.session] \in Images \cup {NoState} /\ Running(file[cmd.session])
        BY <2>1 DEF TypeInv, FileOK
      <4>2. /\ machine'.status = "running" /\ machine'.intercepts = 0 /\ machine'.checked = FALSE
            /\ machine'.blocks = file[cmd.session].blocks
            /\ machine'.block = file[cmd.session].block
            /\ file[cmd.session].status = "running"
        <5>1. machine' = Restored(machine, file[cmd.session])
          BY <3>1, <3>5
        <5> QED BY <1>0, <3>5, <4>1, <5>1, RestoredFits DEF Active
      <4>3. CountedIn(machine', sent.blocked)
        BY <1>0, <2>1, <4>2 DEF CountedIn, Counted, ReasonInv, ReasonsOnFile
      <4>4. CauseInv'
        BY <2>3, <3>1, <3>3, <3>5, <4>2, <4>3, FreshCause
      <4> QED BY <4>2, <4>4, <1>e
    <3> QED BY <3>4, <3>5
  <2> QED BY <2>2, <2>3
<1>7. ASSUME NEW f \in Frontends, Persist(f) PROVE Goal
  <2>1. ReasonsOnFile' /\ ReasonsBuilt'
    BY <1>0, <1>7, CountedWrite DEF Persist, Threads
  <2> QED BY <1>7, <2>1, <1>i DEF Persist
<1>8. CASE Answer
  <2>1. PICK a \in Answers :
          /\ reply' = a
          /\ sent' = [sent EXCEPT !.todos = @ /\ a.mark \notin {"continue", "none"},
                                  !.closed = FALSE, !.blocked = Reported(a.reason)]
    BY <1>8 DEF Answer
  <2>2. /\ sent'.todos = (sent.todos /\ a.mark \notin {"continue", "none"})
        /\ sent'.check = sent.check /\ sent'.blocked = Reported(a.reason)
    BY <1>0, <2>1, AnsweredFacts
  <2>3. sent'.todos = sent.todos \/ Dismissed'
    BY <1>0, <2>1, <2>2, SentFacts DEF Dismissed
  <2>4. CauseInv'
    BY <1>8, <2>1, <2>2, <2>3, AnswerCause DEF Answer
  <2> QED BY <1>8, <2>4, <1>a, <1>e DEF Answer
<1>9. CASE Refuse
  <2>1. /\ sent'.todos = sent.todos /\ sent'.check = sent.check
        /\ sent'.blocked = Reported(reply.reason)
    BY <1>0, <1>9, SMT DEF Refuse, Sent
  <2>2. reply \in Answers \cup {NoReply}
    BY DEF TypeInv, FlowOK
  <2>3. CauseInv'
    BY <1>9, <2>1, <2>2, AnswerCause DEF Refuse
  <2> QED BY <1>9, <2>3, <1>a, <1>e DEF Refuse
<1>10. CASE Fail
  <2>1. /\ sent'.todos = sent.todos /\ sent'.check = sent.check
        /\ sent'.blocked = sent.blocked
    BY <1>0, <1>10, ClosedFacts DEF Fail
  <2> QED BY <1>0, <1>10, <2>1, <1>i, SaidSame DEF Fail
<1>11. CASE Advance
  <2>1. CASE Active(machine)
    BY <1>11, <2>1, AdvanceCause DEF Completes, GivesUp
  <2>2. CASE ~Active(machine)
    <3>1. UNCHANGED <<machine, writing, file, sent>> /\ pc' = "ending"
      BY <1>11, <2>2 DEF Advance
    <3>2. ~Active(machine)'
      BY <2>2, <3>1 DEF Active
    <3>3. CauseInv'
      BY <1>s, <3>1, <3>2, StoppedCause
    <3> QED BY <2>2, <3>3, <1>e
  <2> QED BY <2>1, <2>2
<1>12. CASE Complete
  <2>1. /\ sent'.todos = sent.todos /\ sent'.check = sent.check
        /\ sent'.blocked = sent.blocked
    BY <1>0, <1>12, ClosedFacts DEF Complete
  <2>2. ReasonsOnFile' /\ ReasonsBuilt'
    BY <1>0, <1>12, <2>1, CountedWrite DEF Complete, Threads
  <2>3. pc = "complete" /\ pc' \in {"todos", "ending"}
    BY <1>12 DEF Complete
  <2> QED BY <1>12, <2>1, <2>2, <2>3, <1>i DEF Complete
<1>13. CASE CloseTodos
  <2>1. /\ sent'.todos = sent.todos /\ sent'.check = sent.check
        /\ sent'.blocked = sent.blocked
    BY <1>0, <1>13, ClosedFacts DEF CloseTodos
  <2>2. CountedIn(machine, sent.blocked)
    BY <1>0 DEF ReasonInv, Counted
  <2>3. ReasonsOnFile' /\ ReasonsBuilt'
    BY <1>0, <1>13, <2>1, <2>2, SaidSame, CountedBuild DEF CloseTodos, Threads
  <2> QED BY <1>13, <2>1, <2>3, <1>i DEF CloseTodos
<1>14. CASE Last
  <2>1. ReasonsOnFile' /\ ReasonsBuilt'
    BY <1>0, <1>14, CountedWrite DEF Last, Threads
  <2> QED BY <1>14, <2>1, <1>i DEF Last
<1>15. CASE Stop
  <2>1. /\ machine' = Stopped(machine, "stopped")
        /\ writing' = [writing EXCEPT ![Turn] = Built(machine', open)]
        /\ pc' = "last" /\ UNCHANGED <<file, sent>>
    BY <1>15 DEF Stop
  <2>2. Fit(machine') /\ ~Active(machine') /\ (Active(machine) => machine'.status = "stopped")
    BY <1>0, <2>1, StoppedFits
  <2>3. machine'.status # "running"
    BY <2>2 DEF Fit, Active
  <2>4. CountedIn(machine', sent.blocked)
    BY <2>3 DEF CountedIn
  <2>5. ReasonsOnFile' /\ ReasonsBuilt'
    BY <1>0, <2>1, <2>2, <2>4, SaidSame, CountedBuild DEF Threads
  <2>6. CauseInv'
    BY <2>1, <2>2, <2>5, StoppedCause
  <2> QED BY <2>2, <2>6, <1>e
<1>16. CASE GiveUp
  BY <1>16, <1>i, <1>s DEF GiveUp
<1>17. CASE Continue
  <2> DEFINE m     == [machine EXCEPT !.intercept = "none"]
             told  == sent.todos \/ machine.intercept = "todos"
             asked == sent.check \/ machine.intercept = "check"
  <2>1. /\ machine' = m /\ pc = "loop" /\ pc' = "turn" /\ UNCHANGED <<file, writing, reply>>
        /\ sent' = [sent EXCEPT !.todos = told, !.check = asked]
    BY <1>17, Zenon DEF Continue
  <2>2. /\ m.goal = machine.goal /\ m.status = machine.status
        /\ m.blocks = machine.blocks /\ m.block = machine.block
        /\ m.intercepts = machine.intercepts /\ m.checked = machine.checked
    BY <1>0, EditedFits
  <2> HIDE DEF m
  <2>3. told \in BOOLEAN /\ asked \in BOOLEAN
    OBVIOUS
  <2>4. sent'.todos = told /\ sent'.check = asked /\ sent'.blocked = sent.blocked
    <3> HIDE DEF told, asked
    <3> QED BY <1>0, <2>1, <2>3, ToldFacts
  <2>5. ToldTodos' /\ ToldCheck'
    BY <2>1, <2>2, <2>4 DEF CauseInv, ToldTodos, ToldCheck, Active
  <2>6. CountedIn(m, sent.blocked)
    BY <1>0, <2>2 DEF CountedIn, ReasonInv, Counted
  <2>7. ReasonInHand'
    BY <2>1 DEF ReasonInHand
  <2>8. ReasonsOnFile' /\ ReasonsBuilt'
    BY <1>0, <2>1, <2>4, SaidSame
  <2>9. CauseInv'
    BY <2>1, <2>4, <2>5, <2>6, <2>7, <2>8 DEF CauseInv, ReasonInv, Counted
  <2> QED BY <2>1, <2>2, <2>9, <1>a, <1>e
<1>18. CASE End
  BY <1>18, <1>i, <1>s DEF End
<1>19. CASE Restart
  <2>1. PICK torn \in SUBSET {t \in Threads : writing[t] # Nothing} :
          file' = [s \in Sessions |-> IF \E t \in torn : writing[t].at = s THEN NoState ELSE file[s]]
    BY <1>19 DEF Restart
  <2>2. \A s \in Sessions : file'[s] \in {file[s], NoState}
    BY <2>1
  <2>3. /\ machine' = Restored(Reset(NoGoal, "unset"), file'[path]) /\ sent' = Untold
        /\ writing' = [t \in Threads |-> Nothing] /\ pc' = "idle"
    BY <1>19 DEF Restart
  <2>4. /\ path \in Sessions /\ file'[path] \in Images \cup {NoState} /\ Running(file'[path])
    <3>1. path \in Sessions
      BY DEF TypeInv, FlowOK
    <3> QED BY <3>1 DEF TypeInv, FileOK
  <2>5. CountedIn(NoState, sent.blocked) /\ CountedIn(Nothing.image, sent.blocked)
    BY SMT DEF CountedIn, NoState, Nothing
  <2>6. sent'.blocked = sent.blocked
    BY <1>0, <2>3, UntoldFacts
  <2>7. \A s \in Sessions : CountedIn(file'[s], sent.blocked)
    BY <1>0, <2>2, <2>5, Zenon DEF ReasonInv, ReasonsOnFile, Counted
  <2>8. ReasonsOnFile' /\ ReasonsBuilt'
    BY <2>3, <2>5, <2>6, <2>7 DEF ReasonsOnFile, ReasonsBuilt, Counted
  <2> DEFINE fresh == Reset(NoGoal, "unset")
  <2>9. /\ Fit(fresh) /\ fresh.intercepts = 0 /\ fresh.checked = FALSE /\ fresh.status = "unset"
    <3>1. Fit(fresh)
      BY ResetFits
    <3> QED BY <3>1, SMT DEF Reset
  <2> HIDE DEF fresh
  <2>10. /\ machine'.intercepts = 0 /\ machine'.checked = FALSE
         /\ machine'.status \notin {"complete", "blocked"}
         /\ machine'.status = "running" =>
              /\ file'[path].status = "running" /\ machine'.blocks = file'[path].blocks
              /\ machine'.block = file'[path].block
    <3>1. machine' = Restored(fresh, file'[path])
      BY <2>3 DEF fresh
    <3> QED BY <2>4, <2>9, <3>1, RestoredFits DEF Active
  <2>11. CountedIn(machine', sent.blocked)
    BY <2>4, <2>7, <2>10 DEF CountedIn
  <2>12. CauseInv'
    BY <2>3, <2>8, <2>10, <2>11, FreshCause
  <2> QED BY <2>10, <2>12, <1>e
<1>20. CASE UNCHANGED vars
  BY <1>20, <1>i, <1>s DEF vars, core
<1>21. ASSUME NEW f \in Frontends, Command(f) PROVE Goal
  BY <1>1, <1>2, <1>3, <1>4, <1>5, <1>6, <1>7, <1>21 DEF Command
<1>22. CASE TurnStep
  BY <1>8, <1>9, <1>10, <1>11, <1>12, <1>13, <1>14, <1>15, <1>16, <1>17, <1>18, <1>22 DEF TurnStep
<1> QED BY <1>19, <1>20, <1>21, <1>22 DEF Next

-----------------------------------------------------------------------------
(* Every step keeps the file current, up to the first overlap.             *)

\* What stays current when the machine's goal stays and nothing new is closed.
LEMMA KeptCurrent ==
  ASSUME Composed(machine') = Composed(machine), sent'.closed => sent.closed
  PROVE  /\ UNCHANGED <<writing, path>> /\ BuiltIsCurrent => BuiltIsCurrent'
         /\ \A x : Current(x) => /\ Composed(machine') = Composed(x)
                                 /\ x.status = "complete" /\ sent'.closed => x.open = FALSE
<1>1. \A x : Current(x) => /\ Composed(machine') = Composed(x)
                           /\ x.status = "complete" /\ sent'.closed => x.open = FALSE
  BY DEF Current
<1>2. ASSUME UNCHANGED <<writing, path>>, BuiltIsCurrent
      PROVE  BuiltIsCurrent'
  BY <1>1, <1>2 DEF BuiltIsCurrent, Current
<1> QED BY <1>1, <1>2

\* A step that builds and writes nothing.
LEMMA QuietFile ==
  ASSUME FileInv, TurnWrites', ~raced' => ~raced, UNCHANGED <<writing, file, path>>,
         ~raced' => /\ Composed(machine') = Composed(machine)
                    /\ sent'.closed => sent.closed /\ open' = open
                    /\ Elsewhere'
  PROVE  FileInv'
<1> SUFFICES ASSUME ~raced'
             PROVE  /\ ~Overlapping' /\ (sent'.closed => open' = FALSE) /\ Elsewhere'
                    /\ BuiltIsCurrent'
                    /\ Still' /\ file'[path'] # NoState => Current(file[path])'
  BY DEF FileInv, WrittenInv
<1>1. /\ ~Overlapping /\ (sent.closed => open = FALSE) /\ BuiltIsCurrent
      /\ Still /\ file[path] # NoState => Current(file[path])
  BY DEF FileInv, WrittenInv
<1>2. ~Overlapping' /\ (Still' => Still)
  BY <1>1 DEF Overlapping, Still
<1>3. BuiltIsCurrent'
  BY <1>1, KeptCurrent
<1>4. Still' /\ file'[path'] # NoState => Current(file[path])'
  BY <1>1, <1>2, KeptCurrent DEF Current
<1> QED BY <1>1, <1>2, <1>3, <1>4

\* A step that builds the bytes of the machine it leaves.
LEMMA BuildFile ==
  ASSUME TypeInv, FileInv, TurnWrites', ~raced' => ~raced, raced' = (raced \/ Overlapping' \/ path' # path),
         NEW t \in Threads, Fit(machine'), NEW todos \in BOOLEAN,
         writing' = [writing EXCEPT ![t] = Built(machine', todos)], UNCHANGED <<file, path>>,
         ~raced' => /\ sent'.closed => todos = FALSE /\ open' = FALSE
                    /\ Elsewhere'
  PROVE  FileInv'
<1> SUFFICES ASSUME ~raced'
             PROVE  /\ ~Overlapping' /\ (sent'.closed => open' = FALSE) /\ Elsewhere'
                    /\ BuiltIsCurrent'
                    /\ Still' /\ file'[path'] # NoState => Current(file[path])'
  BY DEF FileInv, WrittenInv
<1>1. ~Overlapping'
  OBVIOUS
<1> DEFINE x == Image(machine', todos)
<1>2. x \in Images /\ x.goal = machine'.goal /\ x.status = machine'.status /\ x.open = todos
  BY ImageFits
<1> HIDE DEF x
<1>3. writing' = [writing EXCEPT ![t] = [at |-> path, image |-> x]]
  BY DEF Built, x
<1>4. \A u \in Threads : writing'[u] = IF u = t THEN [at |-> path, image |-> x] ELSE writing[u]
  BY <1>3, SMT DEF TypeInv, WritingOK
<1>5. [at |-> path, image |-> x].at = path /\ [at |-> path, image |-> x].image = x
  BY SMT
<1>6. [at |-> path, image |-> x] # Nothing
  <2>1. path \in Sessions /\ x # NoState
    BY <1>2, SMT DEF TypeInv, FlowOK, Images, NoState
  <2> QED BY <1>5, <2>1, SMT DEF Nothing
<1>7. \A u \in Threads : u # t => writing'[u] = Nothing
  BY <1>1, <1>4, <1>6 DEF Overlapping
<1>8. /\ Composed(machine') = Composed(x)
      /\ x.status = "complete" /\ sent'.closed => x.open = FALSE
  BY <1>2 DEF Composed, Active
<1>9. BuiltIsCurrent'
  BY <1>4, <1>5, <1>7, <1>8 DEF BuiltIsCurrent, Current
<1>10. ~Still'
  BY <1>4, <1>6 DEF Still
<1> QED BY <1>1, <1>9, <1>10

\* A step that writes what it has built.
LEMMA WriteFile ==
  ASSUME TypeInv, FileInv, TurnWrites', ~raced' => ~raced, NEW t \in Threads, Write(t),
         UNCHANGED <<machine, path, open>>,
         ~raced' => /\ sent'.closed => open = FALSE
                    /\ Elsewhere'
                    /\ \/ sent'.closed = sent.closed
                       \/ writing[t].image.open = open
  PROVE  FileInv'
<1> SUFFICES ASSUME ~raced'
             PROVE  /\ ~Overlapping' /\ (sent'.closed => open' = FALSE) /\ Elsewhere'
                    /\ BuiltIsCurrent'
                    /\ Still' /\ file'[path'] # NoState => Current(file[path])'
  BY DEF FileInv, WrittenInv
<1>1. ~Overlapping /\ BuiltIsCurrent
  BY DEF FileInv, WrittenInv
<1>2. /\ \A u \in Threads : writing'[u] = IF u = t THEN Nothing ELSE writing[u]
      /\ \A s \in Sessions :
           file'[s] = IF s = writing[t].at THEN writing[t].image ELSE file[s]
      /\ writing[t].at \in Sessions /\ writing[t] # Nothing
  BY WriteFits DEF TypeInv, Write
<1>3. \A u \in Threads : writing'[u] = Nothing
  BY <1>1, <1>2 DEF Overlapping
<1>4. writing[t].at = path /\ Current(writing[t].image)
  BY <1>1, <1>2 DEF BuiltIsCurrent
<1>5. file'[path] = writing[t].image
  BY <1>2, <1>4
<1>6. Current(file[path])'
  BY <1>4, <1>5 DEF Current
<1> QED BY <1>3, <1>6 DEF Overlapping, BuiltIsCurrent, Still

\* Front ends that go on with their commands, in the session they were in.
LEMMA GoneElsewhere ==
  ASSUME TypeInv, Elsewhere, UNCHANGED path, NEW f \in Frontends, NEW op, Takes(f, op)
  PROVE  Elsewhere'
<1>1. \A g \in Frontends : \A i \in DOMAIN commands'[g] :
        \E j \in DOMAIN commands[g] : commands'[g][i] = commands[g][j]
  BY TakesFacts DEF TypeInv, FlowOK
<1> QED BY <1>1 DEF Elsewhere

LEMMA EditedComposed ==
  ASSUME NEW m, Fit(m)
  PROVE  /\ Composed([m EXCEPT !.intercept = "none"]) = Composed(m)
         /\ \A b \in BOOLEAN : Composed([m EXCEPT !.strict = b]) = Composed(m)
<1>1. ASSUME NEW r, r.goal = m.goal, r.status = m.status PROVE Composed(r) = Composed(m)
  BY <1>1 DEF Composed, Active
<1> QED BY <1>1, EditedFits

LEMMA FileStep ==
  ASSUME TypeInv, TypeInv', FileInv, raced \in BOOLEAN, [Next]_vars
  PROVE  FileInv'
<1>0. /\ sent \in Sent /\ Fit(machine) /\ Fit(machine') /\ open \in BOOLEAN
      /\ path \in Sessions /\ commands \in [Frontends -> Seq(Cmds)]
      /\ writing \in [Threads -> Writes] /\ TurnWrites
  BY DEF TypeInv, FlowOK, WritingOK, FileInv
<1>t. Turn \in Threads /\ \A f \in Frontends : f \in Threads /\ f # Turn
  BY TurnIsNoFrontend DEF Threads
<1>c. CASE UNCHANGED vars
  <2>1. TurnWrites' /\ (Elsewhere => Elsewhere')
    BY <1>0, <1>c DEF vars, core, TurnWrites, Elsewhere
  <2>2. ~raced => Elsewhere
    BY DEF FileInv, WrittenInv
  <2> QED BY <1>c, <2>1, <2>2, QuietFile DEF vars, core
<1> SUFFICES ASSUME Next PROVE FileInv'
  BY <1>c
<1>r. raced' = (raced \/ Overlapping' \/ path' # path)
  BY DEF Next
<1>w. /\ ~raced' => ~raced
      /\ ~raced' => path' = path /\ ~Overlapping'
  BY <1>r
<1>e. ~raced => Elsewhere /\ (sent.closed => open = FALSE)
  BY DEF FileInv, WrittenInv
<1>k. ASSUME ~raced', NEW f \in Frontends, NEW op, Takes(f, op) PROVE Elsewhere'
  BY <1>k, <1>w, <1>e, GoneElsewhere
<1>n. ASSUME ~raced', UNCHANGED commands PROVE Elsewhere'
  BY <1>n, <1>w, <1>e DEF Elsewhere
\* A front end's bytes are not the turn's.
<1>b. ASSUME NEW f \in Frontends, NEW b, writing' = [writing EXCEPT ![f] = b], UNCHANGED <<pc, open>>
      PROVE  TurnWrites'
  <2>1. writing'[Turn] = writing[Turn]
    BY <1>0, <1>t, <1>b
  <2> QED BY <1>0, <1>b, <2>1 DEF TurnWrites
<1>1. ASSUME NEW f \in Frontends, Request(f) PROVE FileInv'
  <2>1. TurnWrites'
    BY <1>0, <1>1 DEF Request, TurnWrites
  <2>2. PICK request \in Requests :
          /\ request[1].op = "switch" => request[1].session # path
          /\ commands' = [commands EXCEPT ![f] = request]
    BY <1>1 DEF Request
  <2>3. ASSUME ~raced' PROVE Elsewhere'
    <3>1. Elsewhere /\ path' = path
      BY <2>3, <1>w, <1>e
    <3>2. \A g \in Frontends : commands'[g] = IF g = f THEN request ELSE commands[g]
      BY <1>0, <2>2, SMT
    <3>3. \A i \in DOMAIN request : request[i].op = "switch" => request[i].session # path
      BY <2>2, RequestFacts
    <3> QED BY <3>1, <3>2, <3>3 DEF Elsewhere
  <2> QED BY <1>1, <1>w, <2>1, <2>3, QuietFile DEF Request
<1>2. ASSUME NEW f \in Frontends, SetGoal(f) PROVE FileInv'
  <2> DEFINE goal == Head(commands[f]).goal
  <2>1. Takes(f, "set") /\ UNCHANGED <<path, file, open, pc>>
    BY <1>2 DEF SetGoal
  <2>2. CASE Unchanged(machine, goal)
    <3>1. UNCHANGED <<machine, writing, sent>>
      BY <1>2, <2>2 DEF SetGoal
    <3>2. TurnWrites'
      BY <1>0, <2>1, <3>1 DEF TurnWrites
    <3> QED BY <1>w, <1>k, <2>1, <3>1, <3>2, QuietFile
  <2>3. CASE ~Unchanged(machine, goal)
    <3>1. /\ sent' = Untold
          /\ writing' = [writing EXCEPT ![f] = Built(machine', open)]
      BY <1>2, <2>3 DEF SetGoal
    <3>2. sent'.closed = FALSE
      BY <1>0, <3>1, UntoldFacts
    <3> QED BY <1>0, <1>t, <1>r, <1>w, <1>k, <1>b, <2>1, <3>1, <3>2, BuildFile
  <2> QED BY <2>2, <2>3
<1>3. ASSUME NEW f \in Frontends, SetStrict(f) PROVE FileInv'
  <2>1. /\ Takes(f, "strict") /\ UNCHANGED <<path, file, open, pc, sent>>
        /\ writing' = [writing EXCEPT ![f] = Built(machine', open)]
    BY <1>3 DEF SetStrict
  <2> QED BY <1>0, <1>t, <1>r, <1>w, <1>k, <1>e, <1>b, <2>1, BuildFile
<1>4. ASSUME NEW f \in Frontends, Submit(f) PROVE FileInv'
  <2>1. UNCHANGED pc \/ (pc = "idle" /\ pc' = "turn")
    BY <1>4 DEF Submit
  <2>2. TurnWrites'
    BY <1>0, <1>4, <2>1 DEF Submit, TurnWrites
  <2> QED BY <1>4, <1>w, <1>k, <2>2, QuietFile DEF Submit
<1>5. ASSUME NEW f \in Frontends, Cancel(f) PROVE FileInv'
  <2>1. Takes(f, "cancel") /\ UNCHANGED <<path, file, open, pc, sent>>
    BY <1>5 DEF Cancel
  <2>2. CASE UNCHANGED <<machine, writing>>
    <3>1. TurnWrites'
      BY <1>0, <2>1, <2>2 DEF TurnWrites
    <3> QED BY <1>w, <1>k, <2>1, <2>2, <3>1, QuietFile
  <2>3. CASE ~UNCHANGED <<machine, writing>>
    <3>1. writing' = [writing EXCEPT ![f] = Built(machine', open)]
      BY <1>5, <2>3 DEF Cancel
    <3> QED BY <1>0, <1>t, <1>r, <1>w, <1>k, <1>e, <1>b, <2>1, <3>1, BuildFile
  <2> QED BY <2>2, <2>3
<1>6. ASSUME NEW f \in Frontends, Switch(f) PROVE FileInv'
  <2> DEFINE cmd == Head(commands[f])
  <2>1. /\ Takes(f, "switch") /\ UNCHANGED <<file, pc, writing>>
    BY <1>6 DEF Switch
  <2>2. CASE pc # "idle"
    <3>1. UNCHANGED <<machine, path, open, sent>>
      BY <1>6, <2>2 DEF Switch
    <3>2. TurnWrites'
      BY <1>0, <2>1, <3>1 DEF TurnWrites
    <3> QED BY <1>w, <1>k, <2>1, <3>1, <3>2, QuietFile
  <2>3. CASE pc = "idle"
    \* The session changes, so nothing is claimed of its file any more.
    <3>1. path' = cmd.session
      BY <1>6, <2>3 DEF Switch
    <3>2. PICK j \in DOMAIN commands[f] : cmd = commands[f][j]
      BY <1>0, <2>1, TakesFacts
    <3>3. cmd.op = "switch"
      BY <2>1 DEF Takes
    <3>4. ~raced => cmd.session # path
      BY <1>e, <3>2, <3>3 DEF Elsewhere
    <3>5. raced'
      BY <1>w, <3>1, <3>4
    <3>6. TurnWrites'
      BY <1>0, <2>1, <2>3 DEF TurnWrites
    <3> QED BY <3>5, <3>6 DEF FileInv, WrittenInv
  <2> QED BY <2>2, <2>3
<1>7. ASSUME NEW f \in Frontends, Persist(f) PROVE FileInv'
  <2>1. Write(f) /\ UNCHANGED <<machine, path, open, pc, commands, sent>>
    BY <1>7 DEF Persist
  <2>2. writing' = [writing EXCEPT ![f] = Nothing]
    BY <2>1 DEF Write
  <2>3. TurnWrites'
    BY <1>b, <2>1, <2>2
  <2> QED BY <1>t, <1>w, <1>e, <1>n, <2>1, <2>3, WriteFile
<1>8. CASE Answer
  <2>1. PICK a \in Answers :
          sent' = [sent EXCEPT !.todos = @ /\ a.mark \notin {"continue", "none"},
                               !.closed = FALSE, !.blocked = Reported(a.reason)]
    BY <1>8 DEF Answer
  <2>2. sent'.closed = FALSE
    BY <1>0, <2>1, AnsweredFacts
  <2>3. TurnWrites'
    BY <1>0, <1>8 DEF Answer, TurnWrites
  <2> QED BY <1>8, <1>w, <1>n, <2>2, <2>3, QuietFile DEF Answer
<1>9. CASE Refuse
  <2>1. sent'.closed = sent.closed
    BY <1>0, <1>9, SMT DEF Refuse, Sent
  <2>2. TurnWrites'
    BY <1>0, <1>9 DEF Refuse, TurnWrites
  <2> QED BY <1>9, <1>w, <1>n, <2>1, <2>2, QuietFile DEF Refuse
<1>10. CASE Fail
  <2>1. sent'.closed = FALSE
    BY <1>0, <1>10, ClosedFacts DEF Fail
  <2>2. TurnWrites'
    BY <1>0, <1>10 DEF Fail, TurnWrites
  <2> QED BY <1>10, <1>w, <1>n, <2>1, <2>2, QuietFile DEF Fail
<1>11. CASE Advance
  <2> DEFINE m == Advanced(machine, reply, open)
  <2>1. /\ pc = "advance" /\ UNCHANGED <<path, file, open, commands, sent>>
    BY <1>11 DEF Advance
  <2>2. CASE ~Active(machine)
    <3>1. UNCHANGED <<machine, writing>> /\ pc' = "ending"
      BY <1>11, <2>2 DEF Advance
    <3>2. TurnWrites'
      BY <1>0, <2>1, <3>1 DEF TurnWrites
    <3> QED BY <1>w, <1>n, <2>1, <3>1, <3>2, QuietFile
  <2>3. CASE Active(machine) /\ m.status = "running"
    <3>1. machine' = m /\ pc' = "loop" /\ UNCHANGED writing
      BY <1>11, <2>3 DEF Advance
    <3>2. m.goal = machine.goal
      BY <1>0, <2>3, AdvancedFacts DEF TypeInv, FlowOK
    <3>3. Composed(machine') = Composed(machine)
      BY <2>3, <3>1, <3>2 DEF Composed, Active
    <3>4. TurnWrites'
      BY <1>0, <2>1, <3>1 DEF TurnWrites
    <3> QED BY <1>w, <1>n, <2>1, <3>1, <3>3, <3>4, QuietFile
  <2>4. CASE Active(machine) /\ m.status # "running"
    <3>1. /\ machine' = m /\ pc' \in {"complete", "last"}
          /\ writing' = [writing EXCEPT ![Turn] = Built(machine', open)]
      BY <1>11, <2>4 DEF Advance
    <3>2. writing'[Turn] # Nothing /\ writing'[Turn].image.open = open
      <4> DEFINE x == Image(machine', open)
      <4>1. x \in Images /\ x.open = open
        BY <1>0, ImageFits
      <4> HIDE DEF x
      <4>2. writing'[Turn] = [at |-> path, image |-> x]
        BY <1>0, <1>t, <3>1 DEF Built, x
      <4>3. x # NoState
        BY <4>1, SMT DEF Images, NoState
      <4> QED BY <4>1, <4>2, <4>3, SMT DEF Nothing
    <3>3. TurnWrites'
      BY <2>1, <3>1, <3>2 DEF TurnWrites
    <3> QED BY <1>0, <1>t, <1>r, <1>w, <1>e, <1>n, <2>1, <3>1, <3>3, BuildFile
  <2> QED BY <2>2, <2>3, <2>4
<1>12. CASE Complete
  <2>1. /\ pc = "complete" /\ Write(Turn) /\ UNCHANGED <<machine, path, open, commands>>
        /\ pc' \in {"todos", "ending"}
    BY <1>12 DEF Complete
  <2>2. sent'.closed = ~open
    BY <1>0, <1>12, ClosedFacts DEF Complete
  <2>3. writing'[Turn] = Nothing
    BY <1>0, <1>t, <2>1 DEF Write
  <2>4. TurnWrites'
    BY <2>1, <2>3 DEF TurnWrites
  <2>5. writing[Turn].image.open = open
    BY <1>0, <2>1 DEF TurnWrites
  <2> QED BY <1>0, <1>t, <1>w, <1>n, <2>1, <2>2, <2>4, <2>5, WriteFile
<1>13. CASE CloseTodos
  <2>1. /\ pc' = "last" /\ open' = FALSE /\ UNCHANGED <<machine, path, file, commands>>
        /\ writing' = [writing EXCEPT ![Turn] = Built(machine', FALSE)]
    BY <1>13 DEF CloseTodos
  <2>2. writing'[Turn] # Nothing
    <3> DEFINE x == Image(machine', FALSE)
    <3>1. x \in Images
      BY <1>0, ImageFits
    <3> HIDE DEF x
    <3>2. writing'[Turn] = [at |-> path, image |-> x]
      BY <1>0, <1>t, <2>1 DEF Built, x
    <3>3. x # NoState
      BY <3>1, SMT DEF Images, NoState
    <3> QED BY <3>2, <3>3, SMT DEF Nothing
  <2>3. TurnWrites'
    BY <2>1, <2>2 DEF TurnWrites
  <2> QED BY <1>0, <1>t, <1>r, <1>w, <1>n, <2>1, <2>3, BuildFile
<1>14. CASE Last
  <2>1. /\ pc = "last" /\ Write(Turn) /\ UNCHANGED <<machine, path, open, commands, sent>>
        /\ pc' = "ending"
    BY <1>14 DEF Last
  <2>2. writing'[Turn] = Nothing
    BY <1>0, <1>t, <2>1 DEF Write
  <2>3. TurnWrites'
    BY <2>1, <2>2 DEF TurnWrites
  <2> QED BY <1>0, <1>t, <1>w, <1>e, <1>n, <2>1, <2>3, WriteFile
<1>15. CASE Stop
  <2>1. /\ pc' = "last" /\ UNCHANGED <<path, file, open, commands, sent>>
        /\ writing' = [writing EXCEPT ![Turn] = Built(machine', open)]
    BY <1>15 DEF Stop
  <2>2. writing'[Turn] # Nothing
    <3> DEFINE x == Image(machine', open)
    <3>1. x \in Images
      BY <1>0, ImageFits
    <3> HIDE DEF x
    <3>2. writing'[Turn] = [at |-> path, image |-> x]
      BY <1>0, <1>t, <2>1 DEF Built, x
    <3>3. x # NoState
      BY <3>1, SMT DEF Images, NoState
    <3> QED BY <3>2, <3>3, SMT DEF Nothing
  <2>3. TurnWrites'
    BY <2>1, <2>2 DEF TurnWrites
  <2> QED BY <1>0, <1>t, <1>r, <1>w, <1>e, <1>n, <2>1, <2>3, BuildFile
<1>16. CASE GiveUp
  <2>1. TurnWrites'
    BY <1>0, <1>16 DEF GiveUp, TurnWrites
  <2> QED BY <1>16, <1>w, <1>n, <2>1, QuietFile DEF GiveUp
<1>17. CASE Continue
  <2>1. /\ pc = "loop" /\ pc' = "turn"
        /\ machine' = [machine EXCEPT !.intercept = "none"]
        /\ UNCHANGED <<path, file, open, commands, writing>>
    BY <1>17 DEF Continue
  <2> DEFINE told  == sent.todos \/ machine.intercept = "todos"
             asked == sent.check \/ machine.intercept = "check"
  <2>2. told \in BOOLEAN /\ asked \in BOOLEAN
    OBVIOUS
  <2>3. sent' = [sent EXCEPT !.todos = told, !.check = asked]
    BY <1>17, Zenon DEF Continue
  <2> HIDE DEF told, asked
  <2>4. sent'.closed = sent.closed
    BY <1>0, <2>2, <2>3, ToldFacts
  <2>5. Composed(machine') = Composed(machine)
    BY <1>0, <2>1, EditedComposed
  <2>6. TurnWrites'
    BY <1>0, <2>1 DEF TurnWrites
  <2> QED BY <1>w, <1>n, <2>1, <2>4, <2>5, <2>6, QuietFile
<1>18. CASE End
  <2>1. TurnWrites'
    BY <1>0, <1>18 DEF End, TurnWrites
  <2> QED BY <1>18, <1>w, <1>n, <2>1, QuietFile DEF End
<1>19. CASE Restart
  <2>1. /\ machine' = Restored(Reset(NoGoal, "unset"), file'[path]) /\ sent' = Untold
        /\ writing' = [t \in Threads |-> Nothing] /\ pc' = "idle" /\ path' = path
        /\ commands' = [f \in Frontends |-> <<>>]
    BY <1>19 DEF Restart
  <2>2. \A t \in Threads : writing'[t] = Nothing
    BY <2>1
  <2>3. TurnWrites'
    BY <1>t, <2>1, <2>2 DEF TurnWrites
  <2>4. sent'.closed = FALSE
    BY <1>0, <2>1, UntoldFacts
  <2>5. Composed(machine') = Composed(file'[path])
    <3> DEFINE fresh == Reset(NoGoal, "unset")
               x == file'[path]
    <3>1. Fit(fresh) /\ ~Active(fresh)
      <4>1. Fit(fresh)
        BY ResetFits
      <4> QED BY <4>1, SMT DEF Reset, Active
    <3>2. x \in Images \cup {NoState} /\ Running(x)
      BY <1>0 DEF TypeInv, FileOK
    <3>3. machine' = Restored(fresh, x)
      BY <2>1
    <3> HIDE DEF fresh, x
    <3>4. \/ machine' = fresh /\ ~Active(x)
          \/ Active(x) /\ machine'.status = "running" /\ machine'.goal = x.goal
      BY <3>1, <3>2, <3>3, RestoredFits
    <3>5. Composed(machine') = Composed(x)
      BY <3>1, <3>4 DEF Composed, Active
    <3> QED BY <3>5 DEF x
  <2>6. Elsewhere'
    BY <2>1, SMT DEF Elsewhere
  <2> QED BY <1>w, <2>1, <2>2, <2>3, <2>4, <2>5, <2>6
        DEF FileInv, WrittenInv, BuiltIsCurrent, Current, Overlapping
<1>20. ASSUME NEW f \in Frontends, Command(f) PROVE FileInv'
  BY <1>1, <1>2, <1>3, <1>4, <1>5, <1>6, <1>7, <1>20 DEF Command
<1>21. CASE TurnStep
  BY <1>8, <1>9, <1>10, <1>11, <1>12, <1>13, <1>14, <1>15, <1>16, <1>17, <1>18, <1>21 DEF TurnStep
<1> QED BY <1>19, <1>20, <1>21 DEF Next

-----------------------------------------------------------------------------
(* The theorems.                                                           *)

LEMMA InitInv == Init => Inv
<1> SUFFICES ASSUME Init PROVE Inv
  OBVIOUS
<1>1. /\ machine = Reset(NoGoal, "unset") /\ path \in Sessions
      /\ file = [s \in Sessions |-> NoState] /\ open = FALSE
      /\ pc = "idle" /\ canceled = FALSE /\ reply = NoReply
      /\ commands = [f \in Frontends |-> <<>>]
      /\ writing = [t \in Threads |-> Nothing]
      /\ sent = [todos |-> FALSE, check |-> FALSE, closed |-> FALSE,
                 blocked |-> [r \in Reasons |-> 0]]
      /\ raced = FALSE
  BY DEF Init, NoReply
<1>2. /\ Fit(machine) /\ machine.status = "unset" /\ machine.goal = NoGoal
  <2>1. Fit(machine)
    BY <1>1, ResetFits
  <2> QED BY <1>1, <2>1, SMT DEF Reset
<1>3. /\ Running(NoState) /\ NoState.status # "running" /\ Nothing.image = NoState
  BY SMT DEF Running, NoState, Nothing
<1>4. FileOK
  BY <1>1, <1>3 DEF FileOK
<1>5. WritingOK
  BY <1>1, <1>3 DEF WritingOK, Writes
<1>6. sent \in Sent
  BY <1>1, SMT DEF Sent
<1>7. FlowOK
  <2>1. commands \in [Frontends -> Seq(Cmds)]
    BY <1>1
  <2>2. reply \in Answers \cup {NoReply}
    BY <1>1
  <2> QED BY <1>1, <1>6, <2>1, <2>2, Zenon DEF FlowOK
<1>8. CauseInv
  BY <1>1, <1>2, <1>3
     DEF CauseInv, ToldTodos, ToldCheck, ReasonInv, ReasonsOnFile, ReasonsBuilt, ReasonInHand,
         Counted, CountedIn, Active
<1>9. sent.closed = FALSE
  BY <1>1, SMT
<1>10. /\ \A t \in Threads : writing[t] = Nothing
       /\ \A f \in Frontends : commands[f] = <<>>
       /\ \A s \in Sessions : file[s] = NoState
       /\ Turn \in Threads
  BY <1>1 DEF Threads
<1>11. Elsewhere
  BY <1>10, SMT DEF Elsewhere
<1>12. FileInv
  BY <1>1, <1>9, <1>10, <1>11
     DEF FileInv, TurnWrites, WrittenInv, Overlapping, BuiltIsCurrent, Still
<1> QED BY <1>1, <1>2, <1>4, <1>5, <1>7, <1>8, <1>12 DEF Inv, TypeInv

LEMMA RacedStep ==
  ASSUME raced \in BOOLEAN, [Next]_vars
  PROVE  raced' \in BOOLEAN
BY DEF Next, vars

LEMMA Invariance == Spec => []Inv
<1>1. Inv /\ [Next]_vars => Inv'
  BY TypeStep, CauseStep, FileStep, RacedStep DEF Inv
<1> QED BY InitInv, <1>1, PTL DEF Spec

\* The machine stays within its limits, and no file ever holds what no machine
\* could be in (goal.go, advance and buildStateLocked).
THEOREM TypeCorrect == Spec => []TypeOK
<1>1. Inv => TypeOK
  BY DEF Inv, TypeInv, Fit, FileOK, FlowOK, TypeOK
<1> QED BY Invariance, <1>1, PTL

\* Up to the first overlap of two writes, and in one session, the goal a restart
\* would resume is the goal that is running, and the todos the end of a goal has
\* closed stay closed in its file (persistGoalState at each of its callers).
THEOREM FileIsKept == Spec => []FileIsCurrent
<1>1. Inv => FileIsCurrent
  BY DEF Inv, FileInv, WrittenInv, FileIsCurrent, Quiet, Still, Current
<1> QED BY Invariance, <1>1, PTL

\* A goal is complete only after the prompts the code owes it, and given up
\* only for a reason three turns have ended with (goal.go, advance).
THEOREM EndsForCause == Spec => GoalEndsForCause
<1>1. Inv /\ Inv' /\ [Next]_vars =>
        [/\ Completes => /\ open => ~machine.strict /\ sent.todos
                         /\ machine.strict => sent.check
         /\ GivesUp => sent.blocked[machine'.block] = 3]_vars
  BY CauseStep DEF Inv
<1> QED BY Invariance, <1>1, PTL DEF Spec, GoalEndsForCause
=============================================================================
