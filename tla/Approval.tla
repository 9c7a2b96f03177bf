------------------------------ MODULE Approval ------------------------------
(***************************************************************************)
(* The prompts of internal/control: approvalManager (approval.go) and the  *)
(* Controller operations that block on it or change it (controller.go,     *)
(* turn_orchestrator.go).  The tool calls of a turn ask for leave, one     *)
(* prompt at a time; the user answers, late, twice or never; another       *)
(* request changes the approval posture or cancels the turn meanwhile; a   *)
(* deadline may pass.                                                      *)
(*                                                                         *)
(* A tool call is a number, its scope the kind of decision it needs.  The  *)
(* guardian's review, the remembered rules written to the configuration    *)
(* and the texts of prompts are left out.                                  *)
(***************************************************************************)
EXTENDS Integers, FiniteSets

CONSTANTS
    MaxTurns,   \* bound: turns started
    MaxCalls,   \* bound: tool calls that may need a decision
    Kinds,      \* the kinds of decision that come up
    Setters     \* requests that call SetToolApprovalMode, each any number of times

ASSUME BoundsAssumption == MaxTurns \in Nat /\ MaxCalls \in Nat

\* A write under no rule; a read-only tool under an ask rule; the trust in a
\* read-only hint while planning; the `ask` tool; and leaving plan mode.
AllKinds == {"writer", "ruled", "trust", "question", "plan"}
ASSUME KindsAssumption == Kinds \subseteq AllKinds

VARIABLES
    timed,      \* approvalTimeout > 0, fixed at construction
    phase,      \* the turn: not running, calling tools, deciding on its plan, ...
    turn,       \* ghost: the number of the latest turn
    aborted,    \* ghost: the turns whose context was cancelled
    canceler,   \* the Cancel call in progress and the turn whose cancel it holds
    kind,       \* what each call needs
    pc,         \* how far each call is in requestApproval or Ask
    outcome,    \* what it was told
    prompt,     \* the id its prompt was registered under
    reply,      \* its reply channel, of capacity one
    pending,    \* the entries of a.approvals and a.asks
    nextID,
    holder,     \* the call that holds promptMu
    granted,    \* a.granted
    planAutoApprove,
    mode,       \* a.toolApprovalMode
    gate,       \* what the executor's gate does with a write under no rule
    setter      \* the SetToolApprovalMode calls

turnVars == <<phase, turn, aborted, planAutoApprove>>
promptVars == <<prompt, pending, nextID>>
postureVars == <<mode, gate, setter>>
vars == <<timed, turnVars, canceler, kind, pc, outcome, promptVars, reply,
          holder, granted, postureVars>>

Call == 1..MaxCalls
NoCall == 0
NoPrompt == 0
Mode == {"ask", "auto", "yolo"}
Answer == {"yes", "session", "no"}

\* A reply, and as a ghost the call whose prompt was answered with it.
Reply == [answer : Answer \cup {"auto"}, about : Call]
NoReply == [answer |-> "none", about |-> NoCall]

PC == {"none", "queued", "locked", "waiting", "answered", "done"}
Outcome == Answer \cup {"none", "auto", "grant", "aborted"}
Pending == [id : Nat \ {0}, call : Call]
Asleep == [pc |-> "idle", built |-> "ask", drained |-> {}]

Init ==
    /\ timed \in BOOLEAN
    /\ phase = "off"
    /\ turn = 0
    /\ aborted = {}
    /\ canceler = [pc |-> "idle", turn |-> 0]
    /\ kind = [c \in Call |-> "writer"]
    /\ pc = [c \in Call |-> "none"]
    /\ outcome = [c \in Call |-> "none"]
    /\ prompt = [c \in Call |-> NoPrompt]
    /\ reply = [c \in Call |-> NoReply]
    /\ pending = {}
    /\ nextID = 0
    /\ holder = NoCall
    /\ granted = {}
    /\ planAutoApprove = FALSE
    /\ mode \in Mode
    /\ gate = IF mode = "ask" THEN "ask" ELSE "allow"
    /\ setter = [s \in Setters |-> Asleep]

-----------------------------------------------------------------------------
(* What needs no prompt.                                                   *)

\* YOLO and the window of an approved plan answer tool permissions only.
Bypassed(k) == k \in {"writer", "ruled"} /\ (mode = "yolo" \/ planAutoApprove)

\* Leaving plan mode and questions are never covered by a session grant.
Grantable(k) == k \in {"writer", "ruled", "trust"}

\* The gate's writer fallback lets a write through before anybody is asked.
AllowedByGate(k) == k = "writer" /\ gate = "allow"

PreApproved(k) == Bypassed(k) \/ k \in granted

Active == {c \in Call : pc[c] \notin {"none", "done"}}

-----------------------------------------------------------------------------
(* The turn and its calls.                                                 *)

StartTurn ==
    /\ phase = "off"
    /\ turn < MaxTurns
    /\ turn' = turn + 1
    /\ phase' = "tools"
    /\ UNCHANGED <<timed, aborted, planAutoApprove, canceler, kind, pc, outcome,
                   promptVars, reply, holder, granted, postureVars>>

\* Read-only calls run side by side, a writer runs alone (executeBatch).
Alongside(k) ==
    Active = {} \/ \A q \in {k} \cup {kind[c] : c \in Active} : q \in {"ruled", "trust", "question"}

Next1(c) == pc[c] = "none" /\ \A d \in Call : pc[d] = "none" => c <= d

\* The call is decided without a prompt, or goes to wait for promptMu.
Enter(c, k) ==
    /\ kind' = [kind EXCEPT ![c] = k]
    /\ LET settled == IF AllowedByGate(k) \/ Bypassed(k) THEN "auto"
                      ELSE IF k \in granted THEN "grant" ELSE "none"
       IN /\ outcome' = [outcome EXCEPT ![c] = settled]
          /\ pc' = [pc EXCEPT ![c] = IF settled = "none" THEN "queued" ELSE "done"]

\* A tool call reaches the gate, one launched before a cancel perhaps after it.
\* Nothing is trusted once the plan is approved.
CallTool(c, k) ==
    /\ phase \in {"tools", "executing"}
    /\ k # "plan"
    /\ phase = "executing" => k # "trust"
    /\ Next1(c) /\ Alongside(k)
    /\ Enter(c, k)
    /\ UNCHANGED <<timed, turnVars, canceler, promptVars, reply, holder, granted, postureVars>>

\* The turn ends in plan mode with a proposal.
ProposePlan(c) ==
    /\ phase = "tools"
    /\ Active = {}
    /\ Next1(c)
    /\ Enter(c, "plan")
    /\ phase' = "planned"
    /\ UNCHANGED <<timed, turn, aborted, planAutoApprove, canceler,
                   promptVars, reply, holder, granted, postureVars>>

\* Mutant: only an aborted wait leaves the plan unapproved.
SaidAnything(c) == outcome[c] # "aborted"

Said(c) == outcome[c] \in {"yes", "session"}

\* A plan the user let through opens the window in which writes need no prompt.
PlanDecided ==
    /\ phase = "planned"
    /\ Active = {}
    /\ \E c \in Call :
         /\ kind[c] = "plan" /\ pc[c] = "done"
         /\ \A d \in Call : pc[d] # "none" => d <= c
         /\ phase' = IF Said(c) THEN "executing" ELSE "ending"
         /\ planAutoApprove' = Said(c)
    /\ UNCHANGED <<timed, turn, aborted, canceler, kind, pc, outcome,
                   promptVars, reply, holder, granted, postureVars>>

\* The turn returns when all its calls have; the window closes with it.
EndTurn ==
    /\ phase \in {"tools", "executing", "ending"}
    /\ Active = {}
    /\ phase' = "off"
    /\ planAutoApprove' = FALSE
    /\ UNCHANGED <<timed, turn, aborted, canceler, kind, pc, outcome,
                   promptVars, reply, holder, granted, postureVars>>

-----------------------------------------------------------------------------
(* requestApproval and Ask.                                                *)

\* Mutant: prompts are not serialised.
MayTakeAlways(c) == TRUE

\* promptMu is free.
MayTake(c) == holder = NoCall

\* With promptMu held the bypass and the grants are looked at again.
TakePromptMu(c) ==
    /\ pc[c] = "queued"
    /\ MayTake(c)
    /\ IF PreApproved(kind[c])
       THEN /\ pc' = [pc EXCEPT ![c] = "done"]
            /\ outcome' = [outcome EXCEPT ![c] = IF Bypassed(kind[c]) THEN "auto" ELSE "grant"]
            /\ UNCHANGED holder
       ELSE /\ pc' = [pc EXCEPT ![c] = "locked"]
            /\ holder' = c
            /\ UNCHANGED outcome
    /\ UNCHANGED <<timed, turnVars, canceler, kind, promptVars, reply, granted, postureVars>>

\* Mutant: an id is free again once its prompt is gone.
ReusedID == 1 + Cardinality(pending)

NewID == nextID + 1

\* register: the entry is made and shown, in a critical section of its own.
Register(c) ==
    /\ pc[c] = "locked"
    /\ nextID' = nextID + 1
    /\ prompt' = [prompt EXCEPT ![c] = NewID]
    /\ pending' = pending \cup {[id |-> NewID, call |-> c]}
    /\ pc' = [pc EXCEPT ![c] = "waiting"]
    /\ UNCHANGED <<timed, turnVars, canceler, kind, outcome, reply, holder, granted, postureVars>>

\* The reply arrives; promptMu is released ...
Receive(c) ==
    /\ pc[c] = "waiting"
    /\ reply[c] # NoReply
    /\ outcome' = [outcome EXCEPT ![c] = reply[c].answer]
    /\ reply' = [reply EXCEPT ![c] = NoReply]
    /\ pc' = [pc EXCEPT ![c] = "answered"]
    /\ holder' = NoCall
    /\ UNCHANGED <<timed, turnVars, canceler, kind, promptVars, granted, postureVars>>

\* ... and only then a grant for the session is recorded.
Grant(c) ==
    /\ pc[c] = "answered"
    /\ pc' = [pc EXCEPT ![c] = "done"]
    /\ granted' = IF outcome[c] = "session" /\ Grantable(kind[c])
                  THEN granted \cup {kind[c]} ELSE granted
    /\ UNCHANGED <<timed, turnVars, canceler, kind, outcome, promptVars, reply, holder, postureVars>>

\* Mutant: the wait is not bounded by approvalTimeout.
ContextDoneOnCancel == turn \in aborted

\* waitContext: the turn's context, under a deadline if there is one.
ContextDone == timed \/ turn \in aborted

Dropped(c) == {p \in pending : p.id = prompt[c]}

\* The wait's context ends first, or together with an answer.
GiveUp(c) ==
    /\ pc[c] = "waiting"
    /\ ContextDone
    /\ pending' = pending \ Dropped(c)
    /\ outcome' = [outcome EXCEPT ![c] = "aborted"]
    /\ pc' = [pc EXCEPT ![c] = "done"]
    /\ holder' = NoCall
    /\ UNCHANGED <<timed, turnVars, canceler, kind, prompt, nextID, reply, granted, postureVars>>

-----------------------------------------------------------------------------
(* The user.                                                               *)

\* What resolve and resolveAsk take out of the maps.
Resolved(id) == {p \in pending : p.id = id}

\* Approve or AnswerQuestion, from a frontend that shows call c: at once, late,
\* or again.  An id without an entry is ignored.
Respond(c, a) ==
    /\ prompt[c] # NoPrompt
    /\ kind[c] \in {"plan", "question"} => a # "session"
    /\ \E p \in pending : p.id = prompt[c] /\ reply[p.call] = NoReply
    /\ reply' = [d \in Call |-> IF \E p \in pending : p.id = prompt[c] /\ p.call = d
                                THEN [answer |-> a, about |-> c] ELSE reply[d]]
    /\ pending' = pending \ Resolved(prompt[c])
    /\ UNCHANGED <<timed, turnVars, canceler, kind, pc, outcome, prompt, nextID,
                   holder, granted, postureVars>>

-----------------------------------------------------------------------------
(* SetToolApprovalMode.                                                    *)

\* Mutant: a posture answers every prompt.
DrainedAll(m) == IF m = "ask" THEN {} ELSE {p.call : p \in pending}

\* drainLocked: auto answers the prompts the writer fallback would have, YOLO
\* every tool permission; neither answers a trust decision, a plan or a question.
Drained(m) ==
    {c \in {p.call : p \in pending} :
        \/ m = "yolo" /\ kind[c] \in {"writer", "ruled"}
        \/ m = "auto" /\ kind[c] = "writer"}

\* setMode, under the manager's lock.
SetMode(s, m) ==
    /\ setter[s].pc = "idle"
    /\ mode' = m
    /\ pending' = {p \in pending : p.call \notin Drained(m)}
    /\ setter' = [setter EXCEPT ![s] = [pc |-> "set", built |-> "ask", drained |-> Drained(m)]]
    /\ UNCHANGED <<timed, turnVars, canceler, kind, pc, outcome, prompt, nextID,
                   reply, holder, granted, gate>>

\* newInteractiveGate reads the mode again ...
BuildGate(s) ==
    /\ setter[s].pc = "set"
    /\ setter' = [setter EXCEPT ![s] = [pc |-> "built",
                                        built |-> IF mode = "ask" THEN "ask" ELSE "allow",
                                        drained |-> setter[s].drained]]
    /\ UNCHANGED <<timed, turnVars, canceler, kind, pc, outcome, promptVars,
                   reply, holder, granted, mode, gate>>

\* ... SetGate installs what was built, and the drained prompts get their reply,
\* on channels that must have room for it.
InstallGate(s) ==
    /\ setter[s].pc = "built"
    /\ gate' = setter[s].built
    /\ \A c \in setter[s].drained : reply[c] = NoReply
    /\ reply' = [c \in Call |-> IF c \in setter[s].drained
                                THEN [answer |-> "auto", about |-> c] ELSE reply[c]]
    /\ setter' = [setter EXCEPT ![s] = Asleep]
    /\ UNCHANGED <<timed, turnVars, canceler, kind, pc, outcome, promptVars,
                   holder, granted, mode>>

-----------------------------------------------------------------------------
(* Cancel.                                                                 *)

\* The cancel function of the running turn is read under c.mu ...
CancelRead ==
    /\ canceler.pc = "idle"
    /\ phase # "off"
    /\ canceler' = [pc |-> "read", turn |-> turn]
    /\ UNCHANGED <<timed, turnVars, kind, pc, outcome, promptVars, reply, holder, granted, postureVars>>

\* ... clearAll drops whatever is pending by then ...
CancelClear ==
    /\ canceler.pc = "read"
    /\ pending' = {}
    /\ canceler' = [canceler EXCEPT !.pc = "cleared"]
    /\ UNCHANGED <<timed, turnVars, kind, pc, outcome, prompt, nextID, reply, holder, granted, postureVars>>

\* ... and the function is called.
CancelContext ==
    /\ canceler.pc = "cleared"
    /\ aborted' = aborted \cup {canceler.turn}
    /\ canceler' = [pc |-> "idle", turn |-> 0]
    /\ UNCHANGED <<timed, phase, turn, planAutoApprove, kind, pc, outcome, promptVars, reply,
                   holder, granted, postureVars>>

-----------------------------------------------------------------------------

Proceed(c) == TakePromptMu(c) \/ Register(c) \/ Receive(c) \/ Grant(c) \/ GiveUp(c)

Next ==
    \/ StartTurn \/ PlanDecided \/ EndTurn
    \/ \E c \in Call : \/ \E k \in Kinds : CallTool(c, k)
                       \/ "plan" \in Kinds /\ ProposePlan(c)
                       \/ Proceed(c)
                       \/ \E a \in Answer : Respond(c, a)
    \/ \E s \in Setters : \/ \E m \in Mode : SetMode(s, m)
                          \/ BuildGate(s) \/ InstallGate(s)
    \/ CancelRead \/ CancelClear \/ CancelContext

Spec == Init /\ [][Next]_vars

(* Goroutines that can run do; the deadline of a bounded wait passes.  The *)
(* model need not call tools, and no user has to answer or cancel.         *)
Fairness ==
    /\ \A c \in Call : WF_vars(Proceed(c))
    /\ \A s \in Setters : WF_vars(BuildGate(s)) /\ WF_vars(InstallGate(s))
    /\ WF_vars(CancelClear) /\ WF_vars(CancelContext)

FairSpec == Spec /\ Fairness

-----------------------------------------------------------------------------
(* What the prompts promise.                                               *)

Waiting(c) == pc[c] = "waiting"

TypeOK ==
    /\ timed \in BOOLEAN
    /\ phase \in {"off", "tools", "planned", "executing", "ending"}
    /\ turn \in 0..MaxTurns
    /\ aborted \subseteq 0..MaxTurns
    /\ canceler \in [pc : {"idle", "read", "cleared"}, turn : 0..MaxTurns]
    /\ kind \in [Call -> AllKinds]
    /\ pc \in [Call -> PC]
    /\ outcome \in [Call -> Outcome]
    /\ nextID \in Nat
    /\ prompt \in [Call -> Nat]
    /\ reply \in [Call -> Reply \cup {NoReply}]
    /\ pending \subseteq Pending
    /\ holder \in Call \cup {NoCall}
    /\ granted \subseteq AllKinds
    /\ planAutoApprove \in BOOLEAN
    /\ mode \in Mode
    /\ gate \in {"ask", "allow"}
    /\ setter \in [Setters -> [pc : {"idle", "set", "built"}, built : {"ask", "allow"},
                                drained : SUBSET Call]]

(* "At most one user decision is in flight": there is never more than one   *)
(* prompt to show, and none that nobody waits for any more, so that        *)
(* PendingPrompt and ReplayPendingPrompts do not show a dead one.          *)
OnePrompt == \A p, q \in pending : p = q
PendingIsAwaited == \A p \in pending : Waiting(p.call) /\ prompt[p.call] = p.id

(* An answer decides the call its prompt was shown for and no other, however *)
(* late or how often it is given: "unknown/expired IDs are ignored".        *)
AnswerIsForItsCall ==
    \A c \in Call : reply[c] # NoReply => reply[c].about = c

(* Only the user leaves plan mode, answers a question or trusts a read-only *)
(* hint: no change of posture, while the prompt is pending or before,       *)
(* answers for them, though a trust granted for the session may stand.      *)
FreshDecisionIsTheUsers ==
    \A c \in Call :
        /\ kind[c] \in {"trust", "question", "plan"} => outcome[c] # "auto"
        /\ kind[c] \in {"question", "plan"} => outcome[c] # "grant"

(* Writes run unasked only in the "execution turn" of a plan that the user  *)
(* let through: not on a refusal, a timeout or a cancel, and no later turn  *)
(* inherits it.                                                            *)
WindowIsApproved ==
    planAutoApprove =>
        /\ phase = "executing"
        /\ \E c \in Call : kind[c] = "plan" /\ outcome[c] \in {"yes", "session"}

(* "Bot/headless frontends set it so a walked-away user can't wedge the     *)
(* session forever": under a deadline every call is decided, whatever the   *)
(* prompts before it in the queue.                                         *)
DeadlineFreesEveryCall ==
    \A c \in Call : (timed /\ pc[c] = "queued") ~> (pc[c] = "done")

=============================================================================
