----------------------------- MODULE BotGateway -----------------------------
(***************************************************************************)
(* The instant-messaging gateway of internal/bot, for one session key: the *)
(* SessionManager that lets one turn at a time run and queues the messages *)
(* that arrive meanwhile (session.go), the dispatch loop that handles the  *)
(* messages of a connection one after another, and the runTurn goroutines  *)
(* it starts (gateway.go).  All of their state is kept by session key, so  *)
(* sessions do not interact.                                               *)
(*                                                                         *)
(* A message is its arrival number, its text left out; a turn is named by  *)
(* the first message of its batch.  Of the controller the model has what   *)
(* the gateway relies on: RunTurn refuses a second turn, Steer queues      *)
(* guidance for the running one (control/controller.go, agent/agent.go).   *)
(* Prompts, reactions and allow-lists are left out, and so is the runtime  *)
(* of a session (workspace, model, attached file): it does not change, and *)
(* a controller once built stays (getOrCreateSession would rebuild it).    *)
(***************************************************************************)
EXTENDS Integers, Sequences, FiniteSets

CONSTANTS
    MaxMessages,  \* bound: messages received
    MaxCommands,  \* bound: slash commands received
    Cap,          \* queue_cap
    Drops,        \* the values queue_drop may have
    Modes,        \* the queue modes the session may be in
    StopAllowed   \* the user may send /stop

ASSUME BoundsAssumption == MaxMessages \in Nat /\ MaxCommands \in Nat
ASSUME CapAssumption == Cap \in Nat \ {0}
ASSUME DropsAssumption == Drops \subseteq {"new", "old", "summarize"}
ASSUME ModesAssumption == Modes \subseteq {"steer", "followup", "collect", "interrupt"}
ASSUME StopAssumption == StopAllowed \in BOOLEAN

VARIABLES
    received,   \* messages received so far
    commands,   \* slash commands received so far
    stops,      \* ghost: how many of them released the session by force
    dispatch,   \* how far handleMessage is with the latest message
    drop,       \* queue_drop, which is fixed when the gateway starts
    mode,       \* the session's queue mode
    active,     \* sm.active[key]
    pending,    \* sm.pending[key]
    dropped,    \* the messages summarized in sm.dropped[key]
    noted,      \* ghost: dropped messages a later turn was told of
    turn,       \* the goroutine that runs a batch
    batch,      \* the messages merged into it
    loose,      \* turns the controller started itself, without the session lock
    built,      \* gw.controllers has the session
    canceler,   \* the turn whose cancel function is in state.cancel
    cancelled,  \* turns whose context is cancelled
    running,    \* the turn the controller runs
    steers,     \* the agent's steer queue
    fate        \* ghost: what became of a message

queueVars == <<active, pending, dropped, noted>>
turnVars == <<turn, batch, loose>>
controlVars == <<built, canceler, cancelled, running, steers>>
dispatchVars == <<received, commands, stops, dispatch, mode, drop>>
vars == <<dispatchVars, queueVars, turnVars, controlVars, fate>>

Message == 1..MaxMessages
None == 0

TurnPC == {"none", "submitted", "starting", "ready", "armed", "running",
           "ending", "cleared", "finished", "gone"}
DispatchPC == {"idle", "received", "steer", "steering", "guide", "cancel",
               "replace", "acquire", "release"}
Fate == {"none", "run", "guided", "dropped", "displaced", "rejected", "replaced",
         "busy", "failed", "stopped", "cleared", "vanished", "orphaned"}
Entry == [first : Message, msgs : SUBSET Message, mode : {"followup", "collect"}]

\* The message being handled.
Current == received

\* fate with every message of ms given the fate f.
Decided(ms, f) == [m \in Message |-> IF m \in ms THEN f ELSE fate[m]]

Init ==
    /\ received = 0
    /\ commands = 0
    /\ stops = 0
    /\ dispatch = "idle"
    /\ drop \in Drops
    /\ mode \in Modes
    /\ active = FALSE
    /\ pending = <<>>
    /\ dropped = {}
    /\ noted = {}
    /\ turn = [m \in Message |-> "none"]
    /\ batch = [m \in Message |-> {}]
    /\ loose = {}
    /\ built = FALSE
    /\ canceler = None
    /\ cancelled = {}
    /\ running = None
    /\ steers = <<>>
    /\ fate = [m \in Message |-> "none"]

-----------------------------------------------------------------------------
(* handleMessage, on the connection's dispatch goroutine.                  *)

Receive ==
    /\ dispatch = "idle"
    /\ received < MaxMessages
    /\ received' = received + 1
    /\ dispatch' = "received"
    /\ UNCHANGED <<commands, stops, mode, drop, queueVars, turnVars, controlVars, fate>>

\* The queue mode and IsActive are read.
CheckActive ==
    /\ dispatch = "received"
    /\ dispatch' = CASE active /\ mode = "steer"     -> "steer"
                     [] active /\ mode = "interrupt" -> "cancel"
                     [] OTHER                        -> "acquire"
    /\ UNCHANGED <<received, commands, stops, mode, drop, queueVars, turnVars, controlVars, fate>>

\* steerActiveSession: without a controller, or without a text once the media
\* were fetched, the message is queued after all.
FindController ==
    /\ dispatch = "steer"
    /\ \/ built /\ dispatch' = "steering"
       \/ dispatch' = "acquire"
    /\ UNCHANGED <<received, commands, stops, mode, drop, queueVars, turnVars, controlVars, fate>>

\* Controller.Steer reads c.running.  When nothing runs the text becomes a turn
\* of its own, submitted on a goroutine of its own.
SteerCheck ==
    /\ dispatch = "steering"
    /\ IF running # None
       THEN dispatch' = "guide" /\ UNCHANGED turnVars
       ELSE /\ dispatch' = "idle"
            /\ turn' = [turn EXCEPT ![Current] = "submitted"]
            /\ batch' = [batch EXCEPT ![Current] = {Current}]
            /\ loose' = loose \cup {Current}
    /\ UNCHANGED <<received, commands, stops, mode, drop, queueVars, controlVars, fate>>

\* Agent.Steer, after c.mu has been released.
Guide ==
    /\ dispatch = "guide"
    /\ steers' = Append(steers, Current)
    /\ dispatch' = "idle"
    /\ UNCHANGED <<received, commands, stops, mode, drop, queueVars, turnVars,
                   built, canceler, cancelled, running, fate>>

\* What cancelActiveSession and /stop cancel: the function in state.cancel, of
\* whichever turn stored it last.
Target == IF canceler # None THEN {canceler} ELSE {running} \ {None}

\* cancelActiveSession, for a message that interrupts.
CancelActive ==
    /\ dispatch = "cancel"
    /\ cancelled' = IF built THEN cancelled \cup Target ELSE cancelled
    /\ dispatch' = "replace"
    /\ UNCHANGED <<received, commands, stops, mode, drop, queueVars, turnVars,
                   built, canceler, running, steers, fate>>

QueuedMessages == UNION {pending[i].msgs : i \in DOMAIN pending}

\* ReplacePending.  Its caller takes the message for queued, also when the
\* session was free and is now marked active.
Replace ==
    /\ dispatch = "replace"
    /\ dispatch' = "idle"
    /\ IF active
       THEN /\ pending' = <<[first |-> Current, msgs |-> {Current}, mode |-> "followup"]>>
            /\ dropped' = {}
            /\ fate' = Decided(QueuedMessages \cup dropped, "replaced")
            /\ UNCHANGED active
       ELSE /\ active' = TRUE
            /\ fate' = Decided({Current}, "orphaned")
            /\ UNCHANGED <<pending, dropped>>
    /\ UNCHANGED <<received, commands, stops, mode, drop, noted, turnVars, controlVars>>

\* Mutant: the session lock is not looked at.
MayAcquireAlways == TRUE

MayAcquire == ~active

\* TryAcquireWithQueue on a free session, and the goroutine of its turn.
Acquire ==
    /\ dispatch = "acquire"
    /\ MayAcquire
    /\ dispatch' = "idle"
    /\ active' = TRUE
    /\ turn' = [turn EXCEPT ![Current] = "starting"]
    /\ batch' = [batch EXCEPT ![Current] = {Current}]
    /\ UNCHANGED <<received, commands, stops, mode, drop, pending, dropped, noted,
                   loose, controlVars, fate>>

Full == Len(pending) >= Cap

\* TryAcquireWithQueue on a busy session that turns new messages away.
Reject ==
    /\ dispatch = "acquire"
    /\ active
    /\ Full /\ drop = "new"
    /\ dispatch' = "idle"
    /\ fate' = Decided({Current}, "rejected")
    /\ UNCHANGED <<received, commands, stops, mode, drop, queueVars, turnVars, controlVars>>

\* The queue with room for one more; the oldest entry goes first.
Room == IF Full THEN Tail(pending) ELSE pending
Displaced == IF Full THEN Head(pending).msgs ELSE {}

Appended(q, m) ==
    Append(q, [first |-> m, msgs |-> {m},
               mode |-> IF mode = "collect" THEN "collect" ELSE "followup"])

\* Within the debounce window a message joins the last entry.
Merged(q, m) ==
    [q EXCEPT ![Len(q)] = [first |-> q[Len(q)].first,
                           msgs |-> q[Len(q)].msgs \cup {m}, mode |-> "collect"]]

\* TryAcquireWithQueue on a busy session.
Enqueue ==
    /\ dispatch = "acquire"
    /\ active
    /\ ~(Full /\ drop = "new")
    /\ dispatch' = "idle"
    /\ \/ pending' = Appended(Room, Current)
       \/ mode = "collect" /\ Room # <<>> /\ pending' = Merged(Room, Current)
    /\ dropped' = IF drop = "summarize" THEN dropped \cup Displaced ELSE dropped
    /\ fate' = Decided(Displaced, IF drop = "summarize" THEN "dropped" ELSE "displaced")
    /\ UNCHANGED <<received, commands, stops, mode, drop, active, noted, turnVars, controlVars>>

-----------------------------------------------------------------------------
(* Slash commands bypass the queue.                                        *)

Command ==
    /\ dispatch = "idle"
    /\ commands < MaxCommands
    /\ commands' = commands + 1

SetQueueMode(q) ==
    /\ Command
    /\ mode' = q
    /\ UNCHANGED <<received, stops, dispatch, drop, queueVars, turnVars, controlVars, fate>>

\* /stop: the cancel function stored last is called ...
Stop ==
    /\ StopAllowed
    /\ Command
    /\ cancelled' = IF built THEN cancelled \cup ({canceler} \ {None}) ELSE cancelled
    /\ dispatch' = "release"
    /\ UNCHANGED <<received, stops, mode, drop, queueVars, turnVars,
                   built, canceler, running, steers, fate>>

\* ... and the session is given free, whatever the turn is doing.
ForceRelease ==
    /\ dispatch = "release"
    /\ dispatch' = "idle"
    /\ stops' = stops + 1
    /\ active' = FALSE
    /\ pending' = <<>>
    /\ dropped' = {}
    /\ fate' = Decided(QueuedMessages \cup dropped, "stopped")
    /\ UNCHANGED <<received, commands, mode, drop, noted, turnVars, controlVars>>

-----------------------------------------------------------------------------
(* runTurn.                                                                *)

Goes(m, from, to) == turn[m] = from /\ turn' = [turn EXCEPT ![m] = to]

\* getOrCreateSession finds the controller or builds it ...
Open(m) ==
    /\ Goes(m, "starting", "ready")
    /\ built' = TRUE
    /\ UNCHANGED <<dispatchVars, queueVars, batch, loose,
                   canceler, cancelled, running, steers, fate>>

\* ... or fails to, which the user is told.
FailToOpen(m) ==
    /\ ~built
    /\ Goes(m, "starting", "finished")
    /\ fate' = Decided(batch[m], "failed")
    /\ UNCHANGED <<dispatchVars, queueVars, batch, loose, controlVars>>

\* The turn's cancel function is stored, once its media are fetched.
Arm(m) ==
    /\ Goes(m, "ready", "armed")
    /\ canceler' = m
    /\ UNCHANGED <<dispatchVars, queueVars, batch, loose,
                   built, cancelled, running, steers, fate>>

\* Controller.RunTurn refuses to run beside another turn.
Enter(m) ==
    /\ running = None
    /\ Goes(m, "armed", "running")
    /\ running' = m
    /\ fate' = Decided(batch[m], "run")
    /\ UNCHANGED <<dispatchVars, queueVars, batch, loose,
                   built, canceler, cancelled, steers>>

Refused(m) ==
    /\ running # None
    /\ Goes(m, "armed", "finished")
    /\ fate' = Decided(batch[m], "busy")
    /\ UNCHANGED <<dispatchVars, queueVars, batch, loose, controlVars>>

\* runGuarded, for a turn the controller started itself: silent when refused.
Submit(m) ==
    /\ IF running = None
       THEN Goes(m, "submitted", "running") /\ running' = m /\ fate' = Decided({m}, "run")
       ELSE Goes(m, "submitted", "gone") /\ fate' = Decided({m}, "vanished") /\ UNCHANGED running
    /\ UNCHANGED <<dispatchVars, queueVars, batch, loose, built, canceler, cancelled, steers>>

\* The agent's loop takes up guidance between two requests to the model ...
Consume(m) ==
    /\ turn[m] = "running"
    /\ steers # <<>>
    /\ steers' = Tail(steers)
    /\ fate' = Decided({Head(steers)}, "guided")
    /\ UNCHANGED <<dispatchVars, queueVars, turnVars, built, canceler, cancelled, running>>

\* ... gives a final answer when there is none, or returns with an error.
Answer(m) ==
    /\ steers = <<>>
    /\ Goes(m, "running", "ending")
    /\ UNCHANGED <<dispatchVars, queueVars, batch, loose, controlVars, fate>>

Abort(m) ==
    /\ Goes(m, "running", "ending")
    /\ UNCHANGED <<dispatchVars, queueVars, batch, loose, controlVars, fate>>

\* clearSteerQueue, as Run returns.
Clear(m) ==
    /\ Goes(m, "ending", "cleared")
    /\ steers' = <<>>
    /\ fate' = Decided({steers[i] : i \in DOMAIN steers}, "cleared")
    /\ UNCHANGED <<dispatchVars, queueVars, batch, loose, built, canceler, cancelled, running>>

\* RunTurn, or the goroutine of runGuarded, is done.
Leave(m) ==
    /\ Goes(m, "cleared", IF m \in loose THEN "gone" ELSE "finished")
    /\ running' = None
    /\ UNCHANGED <<dispatchVars, queueVars, batch, loose,
                   built, canceler, cancelled, steers, fate>>

\* Mutant: the newest entry is taken first.
NextNewest == pending[Len(pending)]

\* What Release hands to the next turn: the oldest entry, or all of them merged.
NextBatch ==
    IF Head(pending).mode = "followup" THEN Head(pending)
    ELSE [first |-> Head(pending).first, msgs |-> QueuedMessages, mode |-> "collect"]

\* Mutant: the entry that was taken stays.
RestAll == pending

Rest == IF Head(pending).mode = "followup" THEN Tail(pending) ELSE <<>>

\* The dropped messages the next turn is told of.
Told == dropped

\* A session with nothing queued is given free.
KeepsLock == active /\ pending # <<>>

\* The deferred Release, after which the goroutine runs the next batch.
Release(m) ==
    /\ turn[m] = "finished"
    /\ active' = KeepsLock
    /\ dropped' = {}
    /\ IF pending = <<>>
       THEN /\ turn' = [turn EXCEPT ![m] = "gone"]
            /\ UNCHANGED <<pending, noted, batch>>
       ELSE /\ turn' = [turn EXCEPT ![m] = "gone", ![NextBatch.first] = "starting"]
            /\ batch' = [batch EXCEPT ![NextBatch.first] = NextBatch.msgs]
            /\ pending' = Rest
            /\ noted' = noted \cup Told
    /\ UNCHANGED <<dispatchVars, loose, controlVars, fate>>

-----------------------------------------------------------------------------

Handle ==
    \/ CheckActive \/ FindController \/ SteerCheck \/ Guide
    \/ CancelActive \/ Replace \/ Acquire \/ Reject \/ Enqueue \/ ForceRelease

Proceed(m) ==
    \/ Open(m) \/ FailToOpen(m) \/ Arm(m) \/ Enter(m) \/ Refused(m) \/ Submit(m)
    \/ Answer(m) \/ Abort(m) \/ Clear(m) \/ Leave(m) \/ Release(m)

Next ==
    \/ Receive \/ Handle \/ Stop
    \/ \E q \in Modes : SetQueueMode(q)
    \/ \E m \in Message : Proceed(m) \/ Consume(m)

Spec == Init /\ [][Next]_vars

(* The dispatch goroutine and every turn's goroutine run on, and the body of *)
(* a turn returns: its prompts have a deadline (approvalTimeout).  Messages  *)
(* and commands need not come.                                              *)
Fairness == WF_vars(Handle) /\ \A m \in Message : WF_vars(Proceed(m))

FairSpec == Spec /\ Fairness

-----------------------------------------------------------------------------
(* What the gateway promises.                                              *)

\* The goroutines that will call Release.
Alive == {m \in Message : m \notin loose /\
            turn[m] \in {"starting", "ready", "armed", "running", "ending",
                         "cleared", "finished"}}

(* "queue_cap and queue_drop bound backlog growth": the queue never holds  *)
(* more than its cap.                                                      *)
TypeOK ==
    /\ received \in 0..MaxMessages
    /\ commands \in 0..MaxCommands
    /\ stops \in 0..commands
    /\ dispatch \in DispatchPC
    /\ drop \in Drops
    /\ mode \in Modes
    /\ active \in BOOLEAN
    /\ pending \in Seq(Entry) /\ Len(pending) <= Cap
    /\ dropped \subseteq Message
    /\ noted \subseteq Message
    /\ turn \in [Message -> TurnPC]
    /\ batch \in [Message -> SUBSET Message]
    /\ loose \subseteq Message
    /\ built \in BOOLEAN
    /\ canceler \in Message \cup {None}
    /\ cancelled \subseteq Message
    /\ running \in Message \cup {None}
    /\ steers \in Seq(Message)
    /\ fate \in [Message -> Fate]

\* ReplacePending found the session free and marked it active for a message
\* that no goroutine runs.
Orphaned == \E m \in Message : fate[m] = "orphaned"

(* A session that is marked active has a goroutine that will release it, or  *)
(* was orphaned: its lock is not lost by a batch that fails to start, a turn *)
(* that is refused, or a release that races with a new message.              *)
LockHasHolder == active => Alive # {} \/ Orphaned

(* "Per-session serialization is still held by the session lock": one turn  *)
(* at a time, until a /stop takes the lock from a turn that still runs.     *)
OneTurnUntilStopped == stops = 0 => \A m, n \in Alive : m = n

(* Messages are run in the order they came in: whatever waits is newer than *)
(* the batch of any turn that was started under the lock, and the queue is  *)
(* in order, however entries are merged, displaced and released.            *)
TurnsInOrder ==
    /\ \A i \in DOMAIN pending, m \in Message \ loose :
          turn[m] # "none" => \A a \in batch[m], b \in pending[i].msgs : a < b
    /\ \A i, j \in DOMAIN pending :
          i < j => \A a \in pending[i].msgs, b \in pending[j].msgs : a < b

(* With queue_drop = summarize no message is dropped in silence: the next    *)
(* turn is told, and there is a next turn to be told.                       *)
DroppedIsNoted ==
    /\ \A m \in Message : fate[m] = "dropped" => m \in dropped \cup noted
    /\ dropped # {} => pending # <<>>

(* A queued message does not wait for ever, unless the session was orphaned: *)
(* it is handed to a turn, or the queue's limit, a message that interrupts   *)
(* or a /stop takes it out.                                                  *)
QueuedMessageLeaves ==
    \A m \in Message : (m \in QueuedMessages) ~> (m \notin QueuedMessages \/ Orphaned)
=============================================================================
