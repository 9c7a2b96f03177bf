--------------------------- MODULE ApprovalProofs ---------------------------
(***************************************************************************)
(* The prompts, for any number of turns, calls and mode changes.  What the *)
(* user is told and answers hangs on promptMu: only its holder has a       *)
(* prompt, an id names one call, and what a drain or an answer leaves in a *)
(* reply channel was meant for the call that reads it.                     *)
(***************************************************************************)
EXTENDS Approval, TLAPS

\* promptMu is held by the one call that registers its prompt or waits on it.
Locked == \A c \in Call : pc[c] \in {"locked", "waiting"} <=> holder = c

\* An id was given out once, and to a call that has asked.
IDsUnique ==
    /\ \A c \in Call : prompt[c] <= nextID
    /\ \A c, d \in Call : prompt[c] = prompt[d] /\ prompt[c] # NoPrompt => c = d

Ordinary == {"writer", "ruled"}

\* A posture's reply, in a channel or on its way, is for a tool permission.
AutoIsOrdinary ==
    /\ \A s \in Setters : \A c \in setter[s].drained : kind[c] \in Ordinary
    /\ \A c \in Call : reply[c].answer = "auto" => kind[c] \in Ordinary

GrantsGrantable == granted \subseteq {"writer", "ruled", "trust"}

\* A call whose answer is on its way is no longer pending.
AnsweredIsResolved ==
    \A p \in pending : /\ reply[p.call] = NoReply
                       /\ \A s \in Setters : p.call \notin setter[s].drained

\* A reply, in its channel or on its way, is for a call that has asked.
Asked(c) == pc[c] \in {"waiting", "answered", "done"}

AnsweredHasAsked ==
    /\ \A c \in Call : reply[c] # NoReply => Asked(c)
    /\ \A s \in Setters : \A c \in setter[s].drained : Asked(c)

PromptInv ==
    Locked /\ IDsUnique /\ PendingIsAwaited /\ AnsweredIsResolved /\ AnsweredHasAsked

AnswerInv == AnswerIsForItsCall /\ AutoIsOrdinary /\ GrantsGrantable /\ FreshDecisionIsTheUsers

Inv == TypeOK /\ PromptInv /\ AnswerInv

-----------------------------------------------------------------------------
(* Types.                                                                  *)

LEMMA TypeInit == Init => TypeOK
<1> SUFFICES ASSUME Init PROVE TypeOK
  OBVIOUS
<1> USE DEF Init
<1>1. /\ kind \in [Call -> AllKinds] /\ pc \in [Call -> PC]
      /\ outcome \in [Call -> Outcome] /\ prompt \in [Call -> Nat]
      /\ reply \in [Call -> Reply \cup {NoReply}]
  BY SMT DEF AllKinds, PC, Outcome, NoPrompt
<1>2. setter \in [Setters -> [pc : {"idle", "set", "built"}, built : {"ask", "allow"},
                              drained : SUBSET Call]]
  BY SMT DEF Asleep
<1>3. /\ canceler \in [pc : {"idle", "read", "cleared"}, turn : 0..MaxTurns]
      /\ turn \in 0..MaxTurns
  BY BoundsAssumption, SMT
<1>4. planAutoApprove \in BOOLEAN
  OBVIOUS
<1> QED BY <1>1, <1>2, <1>3, <1>4, SMT DEF TypeOK, NoCall

LEMMA TypeTurn ==
  ASSUME TypeOK, StartTurn \/ PlanDecided \/ EndTurn
  PROVE  TypeOK'
<1> USE DEF TypeOK, postureVars, promptVars
<1>1. CASE StartTurn
  BY <1>1, BoundsAssumption, SMT DEF StartTurn
<1>2. CASE PlanDecided
  BY <1>2, SMT DEF PlanDecided, Said
<1>3. CASE EndTurn
  <2>1. planAutoApprove' \in BOOLEAN
    BY <1>3 DEF EndTurn
  <2> QED BY <1>3, <2>1, SMT DEF EndTurn
<1> QED BY <1>1, <1>2, <1>3

LEMMA TypeCall ==
  ASSUME TypeOK, NEW c \in Call,
         ProposePlan(c) \/ (\E k \in Kinds : CallTool(c, k)) \/ Proceed(c)
  PROVE  TypeOK'
<1> USE DEF TypeOK, turnVars, postureVars, promptVars
<1>a. ASSUME NEW k \in AllKinds, Enter(c, k)
      PROVE  kind' \in [Call -> AllKinds] /\ pc' \in [Call -> PC] /\ outcome' \in [Call -> Outcome]
  BY <1>a, SMT DEF Enter, PC, Outcome
<1>1. CASE ProposePlan(c)
  BY <1>1, <1>a DEF ProposePlan, AllKinds
<1>2. ASSUME NEW k \in Kinds, CallTool(c, k) PROVE TypeOK'
  BY <1>2, <1>a, KindsAssumption DEF CallTool
<1>3. CASE TakePromptMu(c)
  BY <1>3, SMT DEF TakePromptMu, PC, Outcome
<1>4. CASE Register(c)
  <2>1. [id |-> NewID, call |-> c] \in Pending
    BY SMT DEF Pending, NewID
  <2> QED BY <1>4, <2>1, SMT DEF Register, NewID, PC
<1>5. CASE Receive(c)
  <2>1. reply[c].answer \in Outcome
    BY <1>5, SMT DEF Receive, Reply, NoReply, Outcome
  <2> QED BY <1>5, <2>1, SMT DEF Receive, PC
<1>6. CASE Grant(c)
  BY <1>6, SMT DEF Grant, PC
<1>7. CASE GiveUp(c)
  BY <1>7, SMT DEF GiveUp, PC, Outcome
<1> QED BY <1>1, <1>2, <1>3, <1>4, <1>5, <1>6, <1>7 DEF Proceed

LEMMA TypeRespond ==
  ASSUME TypeOK, NEW c \in Call, NEW a \in Answer, Respond(c, a)
  PROVE  TypeOK'
<1> USE DEF TypeOK, turnVars, postureVars
<1>1. [answer |-> a, about |-> c] \in Reply
  BY SMT DEF Reply
<1>2. reply' \in [Call -> Reply \cup {NoReply}]
  BY <1>1, SMT DEF Respond
<1> QED BY <1>2, SMT DEF Respond

LEMMA TypeSetter ==
  ASSUME TypeOK, NEW s \in Setters,
         (\E m \in Mode : SetMode(s, m)) \/ BuildGate(s) \/ InstallGate(s)
  PROVE  TypeOK'
<1> USE DEF TypeOK, turnVars, promptVars
<1>1. ASSUME NEW m \in Mode, SetMode(s, m) PROVE TypeOK'
  <2>1. Drained(m) \subseteq Call
    BY SMT DEF Drained, Pending
  <2> QED BY <1>1, <2>1, SMT DEF SetMode
<1>2. CASE BuildGate(s)
  <2>1. setter[s].drained \subseteq Call
    BY SMT
  <2> QED BY <1>2, <2>1, SMT DEF BuildGate
<1>3. CASE InstallGate(s)
  <2>1. \A c \in Call : [answer |-> "auto", about |-> c] \in Reply
    BY SMT DEF Reply
  <2>2. reply' \in [Call -> Reply \cup {NoReply}]
    BY <1>3, <2>1, SMT DEF InstallGate
  <2> QED BY <1>3, <2>2, SMT DEF InstallGate, Asleep
<1> QED BY <1>1, <1>2, <1>3

LEMMA TypeCancel ==
  ASSUME TypeOK, CancelRead \/ CancelClear \/ CancelContext
  PROVE  TypeOK'
<1> USE DEF TypeOK, turnVars, promptVars, postureVars
<1>1. CASE CancelRead
  BY <1>1, SMT DEF CancelRead
<1>2. CASE CancelClear
  BY <1>2, SMT DEF CancelClear
<1>3. CASE CancelContext
  <2>1. canceler.turn \in 0..MaxTurns
    BY SMT
  <2>2. canceler' \in [pc : {"idle", "read", "cleared"}, turn : 0..MaxTurns]
    BY <1>3, BoundsAssumption, SMT DEF CancelContext
  <2>3. aborted' \subseteq 0..MaxTurns
    BY <1>3, <2>1, Zenon DEF CancelContext
  <2> QED BY <1>3, <2>2, <2>3 DEF CancelContext
<1> QED BY <1>1, <1>2, <1>3

LEMMA TypeStep == TypeOK /\ [Next]_vars => TypeOK'
<1> SUFFICES ASSUME TypeOK, [Next]_vars PROVE TypeOK'
  OBVIOUS
<1>1. CASE UNCHANGED vars
  BY <1>1 DEF TypeOK, vars, turnVars, promptVars, postureVars
<1>2. CASE Next
  BY <1>2, TypeTurn, TypeCall, TypeRespond, TypeSetter, TypeCancel DEF Next
<1> QED BY <1>1, <1>2

-----------------------------------------------------------------------------
(* promptMu and the ids.                                                   *)

LEMMA PromptInit == Init => PromptInv
<1> SUFFICES ASSUME Init PROVE PromptInv
  OBVIOUS
<1>1. \A c \in Call : c # NoCall
  BY SMT DEF Call, NoCall
<1>2. Locked
  BY <1>1 DEF Init, Locked
<1>3. IDsUnique
  BY SMT DEF Init, IDsUnique, NoPrompt
<1>4. AnsweredHasAsked
  BY DEF Init, AnsweredHasAsked, Asleep
<1> QED BY <1>2, <1>3, <1>4 DEF Init, PromptInv, PendingIsAwaited, AnsweredIsResolved

\* A call enters only when it has never asked: nothing of it is held, pending or
\* answered.
LEMMA PromptEnter ==
  ASSUME TypeOK, PromptInv, NEW c \in Call, NEW k \in AllKinds, pc[c] = "none", Enter(c, k),
         UNCHANGED <<promptVars, reply, holder, setter>>
  PROVE  PromptInv'
<1>1. \A d \in Call : d # c => pc'[d] = pc[d]
  BY SMT DEF Enter, TypeOK
<1>2. pc'[c] \in {"queued", "done"}
  BY SMT DEF Enter, TypeOK
<1>3. Locked'
  BY <1>1, <1>2, SMT DEF PromptInv, Locked
<1>4. PendingIsAwaited'
  BY <1>1, SMT DEF PromptInv, PendingIsAwaited, Waiting, TypeOK, Pending, promptVars
<1>5. AnsweredHasAsked'
  BY <1>1, SMT DEF PromptInv, AnsweredHasAsked, Asked, TypeOK
<1> QED BY <1>3, <1>4, <1>5 DEF PromptInv, IDsUnique, AnsweredIsResolved, promptVars

LEMMA PromptTake ==
  ASSUME TypeOK, PromptInv, NEW c \in Call, TakePromptMu(c)
  PROVE  PromptInv'
<1>0. c # NoCall
  BY SMT DEF Call, NoCall
<1>1. \A d \in Call : d # c => pc'[d] = pc[d]
  BY SMT DEF TakePromptMu, TypeOK
<1>2. Locked'
  <2>1. holder = NoCall /\ \A d \in Call : pc[d] \notin {"locked", "waiting"}
    BY SMT DEF TakePromptMu, MayTake, PromptInv, Locked, NoCall, Call
  <2>2. CASE PreApproved(kind[c])
    <3>1. pc'[c] = "done" /\ holder' = NoCall
      BY <2>1, <2>2, SMT DEF TakePromptMu, TypeOK
    <3> QED BY <1>1, <2>1, <3>1, SMT DEF Locked, NoCall, Call
  <2>3. CASE ~PreApproved(kind[c])
    <3>1. pc'[c] = "locked" /\ holder' = c
      BY <2>3, SMT DEF TakePromptMu, TypeOK
    <3> QED BY <1>1, <2>1, <3>1, SMT DEF Locked
  <2> QED BY <2>2, <2>3
<1>3. PendingIsAwaited'
  BY <1>1, SMT DEF TakePromptMu, PromptInv, PendingIsAwaited, Waiting, TypeOK, Pending, promptVars
<1>4. AnsweredHasAsked'
  BY <1>1, SMT DEF TakePromptMu, PromptInv, AnsweredHasAsked, Asked, TypeOK, postureVars
<1> QED BY <1>2, <1>3, <1>4 DEF TakePromptMu, PromptInv, IDsUnique, AnsweredIsResolved, promptVars, postureVars

\* The new id is above every other, and the channel of a call that only now
\* gets a prompt is empty.
LEMMA PromptRegister ==
  ASSUME TypeOK, PromptInv, NEW c \in Call, Register(c)
  PROVE  PromptInv'
<1> USE DEF PromptInv
<1>0. reply[c] = NoReply /\ \A s \in Setters : c \notin setter[s].drained
  BY SMT DEF Register, AnsweredHasAsked, Asked
<1>1. \A d \in Call : d # c => pc'[d] = pc[d] /\ prompt'[d] = prompt[d]
  BY SMT DEF Register, TypeOK
<1>2. pc'[c] = "waiting" /\ prompt'[c] = nextID + 1 /\ nextID' = nextID + 1 /\ nextID \in Nat
  BY SMT DEF Register, TypeOK, NewID
<1>3. Locked'
  BY <1>1, <1>2, SMT DEF Register, Locked
<1>4. IDsUnique'
  BY <1>1, <1>2, SMT DEF IDsUnique, TypeOK
<1>5. \A p \in pending : p.call # c /\ p.call \in Call
  BY SMT DEF Register, PendingIsAwaited, Waiting, TypeOK, Pending
<1>6. pending' = pending \cup {[id |-> nextID + 1, call |-> c]}
  BY SMT DEF Register, NewID
<1>7. PendingIsAwaited'
  BY <1>1, <1>2, <1>5, <1>6, SMT DEF PendingIsAwaited, Waiting
<1>8. AnsweredIsResolved'
  BY <1>0, <1>6, SMT DEF Register, AnsweredIsResolved, postureVars
<1>9. AnsweredHasAsked'
  BY <1>1, <1>2, SMT DEF Register, AnsweredHasAsked, Asked, TypeOK, postureVars
<1> QED BY <1>3, <1>4, <1>7, <1>8, <1>9

\* The waiter leaves with its reply, its entry gone since it was answered.
LEMMA PromptReceive ==
  ASSUME TypeOK, PromptInv, NEW c \in Call, Receive(c)
  PROVE  PromptInv'
<1> USE DEF PromptInv
<1>0. c # NoCall /\ holder = c
  BY SMT DEF Call, NoCall, Receive, Locked
<1>1. \A d \in Call : d # c => pc'[d] = pc[d] /\ reply'[d] = reply[d]
  BY SMT DEF Receive, TypeOK
<1>2. \A p \in pending : p.call # c /\ p.call \in Call
  BY SMT DEF Receive, AnsweredIsResolved, TypeOK, Pending
<1>3. Locked'
  BY <1>0, <1>1, SMT DEF Receive, Locked, NoCall, Call, TypeOK
<1>4. PendingIsAwaited'
  BY <1>1, <1>2, SMT DEF Receive, PendingIsAwaited, Waiting, promptVars
<1>5. AnsweredIsResolved'
  BY <1>1, <1>2, SMT DEF Receive, AnsweredIsResolved, promptVars, postureVars
<1>6. AnsweredHasAsked'
  BY <1>1, SMT DEF Receive, AnsweredHasAsked, Asked, TypeOK, postureVars
<1> QED BY <1>3, <1>4, <1>5, <1>6 DEF Receive, IDsUnique, promptVars

LEMMA PromptGrant ==
  ASSUME TypeOK, PromptInv, NEW c \in Call, Grant(c)
  PROVE  PromptInv'
<1> USE DEF PromptInv
<1>1. \A d \in Call : d # c => pc'[d] = pc[d]
  BY SMT DEF Grant, TypeOK
<1>2. Locked'
  BY <1>1, SMT DEF Grant, Locked, TypeOK
<1>3. PendingIsAwaited'
  BY <1>1, SMT DEF Grant, PendingIsAwaited, Waiting, TypeOK, Pending, promptVars
<1>4. AnsweredHasAsked'
  BY <1>1, SMT DEF Grant, AnsweredHasAsked, Asked, TypeOK, postureVars
<1> QED BY <1>2, <1>3, <1>4 DEF Grant, IDsUnique, AnsweredIsResolved, promptVars, postureVars

\* A waiter that gives up takes its entry along.
LEMMA PromptGiveUp ==
  ASSUME TypeOK, PromptInv, NEW c \in Call, GiveUp(c)
  PROVE  PromptInv'
<1> USE DEF PromptInv
<1>0. c # NoCall /\ holder = c
  BY SMT DEF Call, NoCall, GiveUp, Locked
<1>1. \A d \in Call : d # c => pc'[d] = pc[d]
  BY SMT DEF GiveUp, TypeOK
<1>2. \A p \in pending' : p \in pending /\ p.call # c /\ p.call \in Call
  BY SMT DEF GiveUp, Dropped, PendingIsAwaited, TypeOK, Pending
<1>3. Locked'
  BY <1>0, <1>1, SMT DEF GiveUp, Locked, NoCall, Call, TypeOK
<1>4. PendingIsAwaited'
  BY <1>1, <1>2, SMT DEF GiveUp, PendingIsAwaited, Waiting
<1>5. AnsweredIsResolved'
  BY <1>2, SMT DEF GiveUp, AnsweredIsResolved, postureVars
<1>6. AnsweredHasAsked'
  BY <1>1, SMT DEF GiveUp, AnsweredHasAsked, Asked, TypeOK, postureVars
<1> QED BY <1>3, <1>4, <1>5, <1>6 DEF GiveUp, IDsUnique

\* An answer reaches the one call its prompt was shown for.
LEMMA RespondReachesItsCall ==
  ASSUME TypeOK, PromptInv, NEW c \in Call, NEW a \in Answer, Respond(c, a)
  PROVE  /\ Waiting(c)
         /\ \A p \in pending : p.id = prompt[c] <=> p.call = c
         /\ reply' = [d \in Call |-> IF d = c THEN [answer |-> a, about |-> c] ELSE reply[d]]
         /\ \A p \in pending' : p \in pending /\ p.call # c
<1> USE DEF PromptInv
<1>1. \A p \in pending : p.id = prompt[c] <=> p.call = c
  BY SMT DEF Respond, PendingIsAwaited, IDsUnique, TypeOK, Pending
<1>2. PICK p \in pending : p.id = prompt[c]
  BY DEF Respond
<1>3. p.call = c /\ Waiting(c)
  BY <1>1, <1>2 DEF PendingIsAwaited
<1>4. reply' = [d \in Call |-> IF d = c THEN [answer |-> a, about |-> c] ELSE reply[d]]
  <2>1. \A d \in Call : (\E q \in pending : q.id = prompt[c] /\ q.call = d) <=> d = c
    BY <1>1, <1>2, <1>3
  <2> QED BY <2>1 DEF Respond
<1>5. \A q \in pending' : q \in pending /\ q.call # c
  BY <1>1 DEF Respond, Resolved
<1> QED BY <1>1, <1>3, <1>4, <1>5

LEMMA PromptRespond ==
  ASSUME TypeOK, PromptInv, NEW c \in Call, NEW a \in Answer, Respond(c, a)
  PROVE  PromptInv'
<1> USE DEF PromptInv
<1>1. /\ Waiting(c)
      /\ reply' = [d \in Call |-> IF d = c THEN [answer |-> a, about |-> c] ELSE reply[d]]
  BY RespondReachesItsCall
<1>2. \A p \in pending' : p \in pending /\ p.call # c /\ p.call \in Call
  BY RespondReachesItsCall, SMT DEF TypeOK, Pending
<1>3. PendingIsAwaited'
  BY <1>2 DEF Respond, PendingIsAwaited, Waiting
<1>4. AnsweredIsResolved'
  BY <1>1, <1>2, SMT DEF Respond, AnsweredIsResolved, TypeOK, postureVars
<1>5. AnsweredHasAsked'
  BY <1>1, SMT DEF Respond, AnsweredHasAsked, Asked, Waiting, TypeOK, postureVars
<1> QED BY <1>3, <1>4, <1>5 DEF Respond, Locked, IDsUnique

\* What a change of posture drains is a call that waits for a tool permission.
LEMMA DrainedWaits ==
  ASSUME TypeOK, PromptInv, NEW m \in Mode
  PROVE  \A c \in Drained(m) :
            /\ c \in Call /\ Waiting(c) /\ kind[c] \in Ordinary
            /\ \E p \in pending : p.call = c
<1> SUFFICES ASSUME NEW c \in Drained(m)
             PROVE  /\ c \in Call /\ Waiting(c) /\ kind[c] \in Ordinary
                    /\ \E p \in pending : p.call = c
  OBVIOUS
<1>1. PICK p \in pending : p.call = c
  BY DEF Drained
<1>2. c \in Call
  BY <1>1, SMT DEF TypeOK, Pending
<1>3. Waiting(c)
  BY <1>1 DEF PromptInv, PendingIsAwaited
<1> QED BY <1>1, <1>2, <1>3 DEF Drained, Ordinary

LEMMA PromptSetter ==
  ASSUME TypeOK, PromptInv, NEW s \in Setters,
         (\E m \in Mode : SetMode(s, m)) \/ BuildGate(s) \/ InstallGate(s)
  PROVE  PromptInv'
<1> USE DEF PromptInv, promptVars
<1>1. ASSUME NEW m \in Mode, SetMode(s, m) PROVE PromptInv'
  <2>1. \A c \in Drained(m) : c \in Call /\ Waiting(c)
    BY DrainedWaits
  <2>2. \A t \in Setters : setter'[t].drained =
                              IF t = s THEN Drained(m) ELSE setter[t].drained
    BY <1>1, SMT DEF SetMode, TypeOK
  <2>3. \A p \in pending' : p \in pending /\ p.call \notin Drained(m)
    BY <1>1 DEF SetMode
  <2>4. PendingIsAwaited'
    BY <1>1, <2>3 DEF SetMode, PendingIsAwaited, Waiting
  <2>5. AnsweredIsResolved'
    BY <1>1, <2>2, <2>3, SMT DEF SetMode, AnsweredIsResolved
  <2>6. AnsweredHasAsked'
    BY <1>1, <2>1, <2>2, SMT DEF SetMode, AnsweredHasAsked, Asked, Waiting
  <2> QED BY <1>1, <2>4, <2>5, <2>6 DEF SetMode, Locked, IDsUnique
<1>2. CASE BuildGate(s)
  <2>1. \A t \in Setters : setter'[t].drained = setter[t].drained
    BY <1>2, SMT DEF BuildGate, TypeOK
  <2> QED BY <1>2, <2>1
          DEF BuildGate, Locked, IDsUnique, PendingIsAwaited, Waiting, AnsweredIsResolved,
              AnsweredHasAsked, Asked
<1>3. CASE InstallGate(s)
  <2>1. \A t \in Setters : setter'[t].drained \subseteq setter[t].drained
    BY <1>3, SMT DEF InstallGate, Asleep, TypeOK
  <2>2. \A c \in Call : reply'[c] = IF c \in setter[s].drained
                                    THEN [answer |-> "auto", about |-> c] ELSE reply[c]
    BY <1>3 DEF InstallGate
  <2>3. \A p \in pending : p.call \in Call
    BY SMT DEF TypeOK, Pending
  <2>4. AnsweredIsResolved'
    BY <1>3, <2>1, <2>2, <2>3 DEF InstallGate, AnsweredIsResolved
  <2>5. AnsweredHasAsked'
    BY <1>3, <2>1, <2>2 DEF InstallGate, AnsweredHasAsked, Asked
  <2> QED BY <1>3, <2>4, <2>5 DEF InstallGate, Locked, IDsUnique, PendingIsAwaited, Waiting
<1> QED BY <1>1, <1>2, <1>3

LEMMA PromptStep == TypeOK /\ PromptInv /\ [Next]_vars => PromptInv'
<1> SUFFICES ASSUME TypeOK, PromptInv, [Next]_vars PROVE PromptInv'
  OBVIOUS
<1> USE DEF PromptInv, Locked, IDsUnique, PendingIsAwaited, Waiting, AnsweredIsResolved,
            AnsweredHasAsked, Asked, promptVars, postureVars
<1>1. CASE UNCHANGED vars
  BY <1>1 DEF vars
<1>2. CASE StartTurn \/ PlanDecided \/ EndTurn
  BY <1>2 DEF StartTurn, PlanDecided, EndTurn
<1>3. CASE CancelRead \/ CancelContext
  BY <1>3 DEF CancelRead, CancelContext
<1>4. CASE CancelClear
  BY <1>4 DEF CancelClear
<1>5. ASSUME NEW c \in Call, ProposePlan(c) PROVE PromptInv'
  <2>1. pc[c] = "none" /\ "plan" \in AllKinds
    BY <1>5 DEF ProposePlan, Next1, AllKinds
  <2> QED BY <1>5, <2>1, PromptEnter DEF ProposePlan
<1>6. ASSUME NEW c \in Call, NEW k \in Kinds, CallTool(c, k) PROVE PromptInv'
  <2>1. pc[c] = "none" /\ k \in AllKinds
    BY <1>6, KindsAssumption DEF CallTool, Next1
  <2> QED BY <1>6, <2>1, PromptEnter DEF CallTool
<1>7. ASSUME NEW c \in Call, Proceed(c) PROVE PromptInv'
  BY <1>7, PromptTake, PromptRegister, PromptReceive, PromptGrant, PromptGiveUp DEF Proceed
<1>8. ASSUME NEW c \in Call, NEW a \in Answer, Respond(c, a) PROVE PromptInv'
  BY <1>8, PromptRespond
<1>9. ASSUME NEW s \in Setters, (\E m \in Mode : SetMode(s, m)) \/ BuildGate(s) \/ InstallGate(s)
      PROVE  PromptInv'
  BY <1>9, PromptSetter
<1> QED BY <1>1, <1>2, <1>3, <1>4, <1>5, <1>6, <1>7, <1>8, <1>9 DEF Next

-----------------------------------------------------------------------------
(* Who decided.                                                            *)

LEMMA AnswerInit == Init => AnswerInv
  BY DEF Init, AnswerInv, AnswerIsForItsCall, AutoIsOrdinary, GrantsGrantable,
         FreshDecisionIsTheUsers, Asleep, NoReply

LEMMA AnswerEnter ==
  ASSUME TypeOK, PromptInv, AnswerInv, NEW c \in Call, NEW k \in AllKinds,
         pc[c] = "none", Enter(c, k), UNCHANGED <<reply, granted, setter>>
  PROVE  AnswerInv'
<1> USE DEF AnswerInv
<1>1. reply[c] = NoReply /\ \A s \in Setters : c \notin setter[s].drained
  BY DEF PromptInv, AnsweredHasAsked, Asked
<1>2. \A d \in Call : d # c => kind'[d] = kind[d] /\ outcome'[d] = outcome[d]
  BY SMT DEF Enter, TypeOK
<1>3. kind'[c] = k
  BY SMT DEF Enter, TypeOK
<1>4. AutoIsOrdinary'
  <2>1. reply[c].answer # "auto"
    BY <1>1 DEF NoReply
  <2>2. \A s \in Setters : \A d \in setter[s].drained : d \in Call
    BY SMT DEF TypeOK
  <2> QED BY <1>1, <1>2, <2>1, <2>2 DEF AutoIsOrdinary
<1>5. /\ outcome'[c] \in {"auto", "grant", "none"}
      /\ outcome'[c] = "auto" => k \in Ordinary
      /\ outcome'[c] = "grant" => k \in granted
  BY SMT DEF Enter, TypeOK, AllowedByGate, Bypassed, Ordinary
<1>6. FreshDecisionIsTheUsers'
  BY <1>2, <1>3, <1>5 DEF FreshDecisionIsTheUsers, Ordinary, GrantsGrantable
<1> QED BY <1>4, <1>6 DEF AnswerIsForItsCall, GrantsGrantable

LEMMA AnswerProceed ==
  ASSUME TypeOK, PromptInv, AnswerInv, NEW c \in Call, Proceed(c)
  PROVE  AnswerInv'
<1> USE DEF AnswerInv
<1>1. CASE TakePromptMu(c)
  <2>1. /\ \A d \in Call : d # c => outcome'[d] = outcome[d]
        /\ \/ outcome'[c] = outcome[c]
           \/ outcome'[c] = "auto" /\ Bypassed(kind[c])
           \/ outcome'[c] = "grant" /\ kind[c] \in granted
    BY <1>1, SMT DEF TakePromptMu, PreApproved, TypeOK
  <2>2. FreshDecisionIsTheUsers'
    BY <1>1, <2>1 DEF TakePromptMu, Bypassed, FreshDecisionIsTheUsers, GrantsGrantable
  <2> QED BY <1>1, <2>2
          DEF TakePromptMu, AnswerIsForItsCall, AutoIsOrdinary, GrantsGrantable, postureVars
<1>2. CASE Register(c)
  BY <1>2 DEF Register, AnswerIsForItsCall, AutoIsOrdinary, GrantsGrantable,
              FreshDecisionIsTheUsers, postureVars
<1>3. CASE Receive(c)
  <2>1. \A d \in Call : d # c => outcome'[d] = outcome[d] /\ reply'[d] = reply[d]
    BY <1>3, SMT DEF Receive, TypeOK
  <2>2. reply'[c] = NoReply /\ outcome'[c] = reply[c].answer
    BY <1>3, SMT DEF Receive, TypeOK
  <2>3. outcome'[c] # "grant"
    BY <1>3, <2>2, SMT DEF Receive, TypeOK, Reply, NoReply, Answer
  <2>4. FreshDecisionIsTheUsers'
    BY <1>3, <2>1, <2>2, <2>3 DEF Receive, FreshDecisionIsTheUsers, AutoIsOrdinary, Ordinary
  <2>5. AutoIsOrdinary'
    BY <1>3, <2>1, <2>2 DEF Receive, AutoIsOrdinary, NoReply, postureVars
  <2> QED BY <1>3, <2>1, <2>2, <2>4, <2>5 DEF Receive, AnswerIsForItsCall, GrantsGrantable
<1>4. CASE Grant(c)
  BY <1>4 DEF Grant, Grantable, AnswerIsForItsCall, AutoIsOrdinary, GrantsGrantable,
              FreshDecisionIsTheUsers, postureVars
<1>5. CASE GiveUp(c)
  <2>1. \A d \in Call : outcome'[d] = IF d = c THEN "aborted" ELSE outcome[d]
    BY <1>5, SMT DEF GiveUp, TypeOK
  <2> QED BY <1>5, <2>1 DEF GiveUp, AnswerIsForItsCall, AutoIsOrdinary, GrantsGrantable,
                            FreshDecisionIsTheUsers, postureVars
<1> QED BY <1>1, <1>2, <1>3, <1>4, <1>5 DEF Proceed

LEMMA AnswerRespond ==
  ASSUME TypeOK, PromptInv, AnswerInv, NEW c \in Call, NEW a \in Answer, Respond(c, a)
  PROVE  AnswerInv'
<1> USE DEF AnswerInv
<1>1. reply' = [d \in Call |-> IF d = c THEN [answer |-> a, about |-> c] ELSE reply[d]]
  BY RespondReachesItsCall
<1>2. a # "auto"
  BY DEF Answer
<1>3. AnswerIsForItsCall'
  BY <1>1, SMT DEF AnswerIsForItsCall
<1>4. \A d \in Call : reply'[d].answer = "auto" => reply[d].answer = "auto"
  BY <1>1, <1>2, SMT
<1> QED BY <1>3, <1>4 DEF Respond, AutoIsOrdinary, GrantsGrantable, FreshDecisionIsTheUsers, postureVars

LEMMA AnswerSetter ==
  ASSUME TypeOK, PromptInv, AnswerInv, NEW s \in Setters,
         (\E m \in Mode : SetMode(s, m)) \/ BuildGate(s) \/ InstallGate(s)
  PROVE  AnswerInv'
<1> USE DEF AnswerInv
<1>1. ASSUME NEW m \in Mode, SetMode(s, m) PROVE AnswerInv'
  <2>1. \A t \in Setters : setter'[t].drained =
                              IF t = s THEN Drained(m) ELSE setter[t].drained
    BY <1>1, SMT DEF SetMode, TypeOK
  <2> QED BY <1>1, <2>1, DrainedWaits
          DEF SetMode, AnswerIsForItsCall, AutoIsOrdinary, GrantsGrantable, FreshDecisionIsTheUsers
<1>2. CASE BuildGate(s)
  <2>1. \A t \in Setters : setter'[t].drained = setter[t].drained
    BY <1>2, SMT DEF BuildGate, TypeOK
  <2> QED BY <1>2, <2>1
          DEF BuildGate, AnswerIsForItsCall, AutoIsOrdinary, GrantsGrantable, FreshDecisionIsTheUsers
<1>3. CASE InstallGate(s)
  <2>1. \A t \in Setters : setter'[t].drained \subseteq setter[t].drained
    BY <1>3, SMT DEF InstallGate, Asleep, TypeOK
  <2>2. \A c \in Call : reply'[c] = IF c \in setter[s].drained
                                    THEN [answer |-> "auto", about |-> c] ELSE reply[c]
    BY <1>3 DEF InstallGate
  <2>3. \A c \in Call : reply'[c] # NoReply => reply'[c].about = c
    <3> TAKE c \in Call
    <3>1. CASE c \in setter[s].drained
      <4>1. reply'[c] = [answer |-> "auto", about |-> c]
        BY <2>2, <3>1
      <4> QED BY <4>1, SMT
    <3>2. CASE c \notin setter[s].drained
      BY <2>2, <3>2 DEF AnswerIsForItsCall
    <3> QED BY <3>1, <3>2
  <2>4. AutoIsOrdinary'
    BY <1>3, <2>1, <2>2 DEF InstallGate, AutoIsOrdinary
  <2> QED BY <1>3, <2>3, <2>4
          DEF InstallGate, AnswerIsForItsCall, NoReply, GrantsGrantable, FreshDecisionIsTheUsers
<1> QED BY <1>1, <1>2, <1>3

LEMMA AnswerStep == TypeOK /\ PromptInv /\ AnswerInv /\ [Next]_vars => AnswerInv'
<1> SUFFICES ASSUME TypeOK, PromptInv, AnswerInv, [Next]_vars PROVE AnswerInv'
  OBVIOUS
<1> USE DEF AnswerInv, AnswerIsForItsCall, AutoIsOrdinary, GrantsGrantable,
            FreshDecisionIsTheUsers, postureVars
<1>1. CASE UNCHANGED vars
  BY <1>1 DEF vars
<1>2. CASE StartTurn \/ PlanDecided \/ EndTurn
  BY <1>2 DEF StartTurn, PlanDecided, EndTurn
<1>3. CASE CancelRead \/ CancelClear \/ CancelContext
  BY <1>3 DEF CancelRead, CancelClear, CancelContext
<1>4. ASSUME NEW c \in Call, ProposePlan(c) PROVE AnswerInv'
  <2>1. pc[c] = "none" /\ "plan" \in AllKinds
    BY <1>4 DEF ProposePlan, Next1, AllKinds
  <2> QED BY <1>4, <2>1, AnswerEnter DEF ProposePlan
<1>5. ASSUME NEW c \in Call, NEW k \in Kinds, CallTool(c, k) PROVE AnswerInv'
  <2>1. pc[c] = "none" /\ k \in AllKinds
    BY <1>5, KindsAssumption DEF CallTool, Next1
  <2> QED BY <1>5, <2>1, AnswerEnter DEF CallTool
<1>6. ASSUME NEW c \in Call, Proceed(c) PROVE AnswerInv'
  BY <1>6, AnswerProceed
<1>7. ASSUME NEW c \in Call, NEW a \in Answer, Respond(c, a) PROVE AnswerInv'
  BY <1>7, AnswerRespond
<1>8. ASSUME NEW s \in Setters, (\E m \in Mode : SetMode(s, m)) \/ BuildGate(s) \/ InstallGate(s)
      PROVE  AnswerInv'
  BY <1>8, AnswerSetter
<1> QED BY <1>1, <1>2, <1>3, <1>4, <1>5, <1>6, <1>7, <1>8 DEF Next

-----------------------------------------------------------------------------
(* The window of an approved plan.                                         *)

\* The plan that opened the window is a call that has returned: nothing that
\* happens to the calls after it takes its answer back.
WindowInv ==
    planAutoApprove =>
        /\ phase = "executing"
        /\ \E c \in Call : kind[c] = "plan" /\ pc[c] = "done" /\ Said(c)

LEMMA WindowStep == TypeOK /\ WindowInv /\ [Next]_vars => WindowInv'
<1> SUFFICES ASSUME TypeOK, WindowInv, [Next]_vars, planAutoApprove' PROVE WindowInv'
  BY DEF WindowInv
\* Enough: the window was open, the phase is the same, and calls that are done stay as they are.
<1>a. ASSUME planAutoApprove, phase' = phase,
             \A c \in Call : pc[c] = "done" =>
                 pc'[c] = pc[c] /\ kind'[c] = kind[c] /\ outcome'[c] = outcome[c]
      PROVE  WindowInv'
  BY <1>a DEF WindowInv, Said
<1>b. ASSUME NEW c \in Call, NEW k, pc[c] = "none", Enter(c, k), NEW d \in Call, pc[d] = "done"
      PROVE  pc'[d] = pc[d] /\ kind'[d] = kind[d] /\ outcome'[d] = outcome[d]
  <2>1. d # c
    BY <1>b
  <2> QED BY <1>b, <2>1, SMT DEF Enter, TypeOK
<1>1. CASE UNCHANGED vars
  BY <1>1, <1>a DEF vars, turnVars
<1>2. CASE StartTurn
  BY <1>2 DEF StartTurn, WindowInv
<1>3. CASE PlanDecided
  BY <1>3 DEF PlanDecided, WindowInv, Said
<1>4. CASE EndTurn
  BY <1>4 DEF EndTurn
<1>5. CASE CancelRead \/ CancelClear \/ CancelContext
  BY <1>5, <1>a DEF CancelRead, CancelClear, CancelContext, turnVars
<1>6. ASSUME NEW c \in Call, ProposePlan(c) PROVE WindowInv'
  BY <1>6 DEF ProposePlan, WindowInv
<1>7. ASSUME NEW c \in Call, NEW k \in Kinds, CallTool(c, k) PROVE WindowInv'
  BY <1>7, <1>a, <1>b DEF CallTool, Next1, turnVars
<1>8. ASSUME NEW c \in Call, Proceed(c) PROVE WindowInv'
  <2>1. planAutoApprove /\ phase' = phase /\ kind' = kind
    BY <1>8 DEF Proceed, TakePromptMu, Register, Receive, Grant, GiveUp, turnVars
  <2>2. pc[c] # "done"
    BY <1>8 DEF Proceed, TakePromptMu, Register, Receive, Grant, GiveUp
  <2>3. ASSUME NEW d \in Call, d # c PROVE pc'[d] = pc[d] /\ outcome'[d] = outcome[d]
    <3>1. CASE TakePromptMu(c)
      BY <2>3, <3>1, SMT DEF TakePromptMu, TypeOK
    <3>2. CASE Register(c) \/ Receive(c) \/ Grant(c) \/ GiveUp(c)
      BY <2>3, <3>2, SMT DEF Register, Receive, Grant, GiveUp, TypeOK
    <3> QED BY <1>8, <3>1, <3>2 DEF Proceed
  <2> QED BY <1>a, <2>1, <2>2, <2>3
<1>9. ASSUME NEW c \in Call, NEW a \in Answer, Respond(c, a) PROVE WindowInv'
  BY <1>9, <1>a DEF Respond, turnVars
<1>10. ASSUME NEW s \in Setters, (\E m \in Mode : SetMode(s, m)) \/ BuildGate(s) \/ InstallGate(s)
       PROVE  WindowInv'
  BY <1>10, <1>a DEF SetMode, BuildGate, InstallGate, turnVars
<1> QED BY <1>1, <1>2, <1>3, <1>4, <1>5, <1>6, <1>7, <1>8, <1>9, <1>10 DEF Next

-----------------------------------------------------------------------------
(* The theorems.                                                           *)

LEMMA InvHolds == Spec => []Inv
<1>1. Init => Inv
  BY TypeInit, PromptInit, AnswerInit DEF Inv
<1>2. Inv /\ [Next]_vars => Inv'
  BY TypeStep, PromptStep, AnswerStep DEF Inv
<1> QED BY <1>1, <1>2, PTL DEF Spec

\* approval.go: the manager's state and that of its callers keep their shape.
THEOREM TypeCorrect == Spec => []TypeOK
<1>1. Inv => TypeOK
  BY DEF Inv
<1> QED BY <1>1, InvHolds, PTL

\* promptMu: at most one prompt is pending, and its call waits for it.
THEOREM OnePromptAtATime == Spec => [](OnePrompt /\ PendingIsAwaited)
<1>1. Inv => PendingIsAwaited
  BY DEF Inv, PromptInv
<1>2. Inv => OnePrompt
  <2> SUFFICES ASSUME Inv, NEW p \in pending, NEW q \in pending PROVE p = q
    BY DEF OnePrompt
  <2>1. p \in Pending /\ q \in Pending
    BY DEF Inv, TypeOK
  <2>2. p.call \in Call /\ q.call \in Call
    BY <2>1, SMT DEF Pending
  <2>3. p.call = holder /\ q.call = holder
    BY <2>2 DEF Inv, PromptInv, PendingIsAwaited, Waiting, Locked
  <2>4. p.id = q.id
    BY <2>3 DEF Inv, PromptInv, PendingIsAwaited
  <2> QED BY <2>1, <2>3, <2>4, SMT DEF Pending
<1> QED BY <1>1, <1>2, InvHolds, PTL

\* Approve and AnswerQuestion: an answer, however late or often it is given, decides
\* the call it was given for or nothing.
THEOREM AnswersReachTheirCall == Spec => []AnswerIsForItsCall
<1>1. Inv => AnswerIsForItsCall
  BY DEF Inv, AnswerInv
<1> QED BY <1>1, InvHolds, PTL

\* drainLocked and the grants: no posture decides for the user what is the user's.
THEOREM AnswersAreTheUsers == Spec => []FreshDecisionIsTheUsers
<1>1. Inv => FreshDecisionIsTheUsers
  BY DEF Inv, AnswerInv
<1> QED BY <1>1, InvHolds, PTL

\* planAutoApprove: writes run unasked only while a plan the user let through is executed.
THEOREM WindowWasApproved == Spec => []WindowIsApproved
<1>1. Init => WindowInv
  BY DEF Init, WindowInv
<1>2. WindowInv => WindowIsApproved
  BY DEF WindowInv, WindowIsApproved, Said
<1> QED BY <1>1, <1>2, WindowStep, TypeCorrect, PTL DEF Spec
=============================================================================
