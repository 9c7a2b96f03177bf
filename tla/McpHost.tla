------------------------------- MODULE McpHost -------------------------------
(***************************************************************************)
(* The MCP host (internal/plugin: plugin.go, lazy.go) and the sessions that*)
(* share it (control/mcp.go, boot.go), for one server.                     *)
(*                                                                         *)
(* Every session that boots registers placeholders and starts the server   *)
(* in the background; its user connects, disconnects or hides it.  All of  *)
(* them go through Host.Add, which lets one caller at a time spawn the     *)
(* server and hands its result to the others.  Host.Close ends it all.     *)
(*                                                                         *)
(* The tools of a server are one name, "tool"; a session that has no       *)
(* cached schema shows "connect" until the server is up.  Sessions kick    *)
(* their spawn when they boot, so a placeholder never spawns the server    *)
(* itself: lazySpawn.state is where its goroutine is.  The failure list,   *)
(* prompts, resources and statistics are left out.                         *)
(***************************************************************************)
EXTENDS Naturals, FiniteSets

CONSTANTS
    Tabs,       \* the sessions that share the host
    Users,      \* those whose user connects, disconnects or hides the server
    MaxSpawns   \* bound: attempts to spawn the server

ASSUME McpHostAssumption == Users \subseteq Tabs /\ MaxSpawns \in Nat

Spawns  == 1 .. MaxSpawns
Names   == {"connect", "tool"}
Nothing == [n \in Names |-> {}]

\* Who calls Host.Add: a session's background goroutine, or its user.
Callers == (Tabs \X {"bg"}) \cup (Users \X {"user"})
Bg(t)   == <<t, "bg">>
User(t) == <<t, "user">>

VARIABLES
    pc,         \* where each caller is
    mine,       \* the spawn it owns or waits for; then the one whose tools it adds
    got,        \* what Host.Add returned to it: "tools", "already" or "failed"
    spawning,   \* Host.spawning: the spawn under way, or 0
    spawns,     \* the spawns so far
    result,     \* what each spawn published to those that wait for it
    server,     \* the process of each spawn; a connected one is in Host.clients
    closing,    \* Host.Close: "open", "closed" once it began, "returned"
    phase,      \* boot of each session: "new", "placing" its placeholders, "up"
    stub,       \* the session had no cached schema
    registry,   \* what a session has under each name: {}, {0} for a placeholder,
                \* {n} for the tool of spawn n
    suspended,  \* the sessions that hide the server (Registry.suspended)
    dropping,   \* the sessions that disconnect it and have yet to drop its tools
    removed     \* history: a connected server was disconnected

addVars == <<mine, got, spawning, spawns, result, server>>
tabVars == <<phase, stub, registry, suspended, dropping, removed>>
vars    == <<pc, addVars, closing, tabVars>>

Connected == {n \in Spawns : server[n] = "connected"}
Adding    == {"check", "claim", "wait", "start", "handshake", "end"}
Running(t) == pc[Bg(t)] \notin {"off", "done"}

Init ==
    /\ pc = [c \in Callers |-> "off"]
    /\ mine = [c \in Callers |-> 0]
    /\ got = [c \in Callers |-> "failed"]
    /\ spawning = 0 /\ spawns = 0
    /\ result = [n \in Spawns |-> "pending"]
    /\ server = [n \in Spawns |-> "none"]
    /\ closing = "open"
    /\ phase = [t \in Tabs |-> "new"]
    /\ stub = [t \in Tabs |-> FALSE]
    /\ registry = [t \in Tabs |-> Nothing]
    /\ suspended = {} /\ dropping = {}
    /\ removed = FALSE

-----------------------------------------------------------------------------
(* Host.Add                                                                *)

Goes(c, where) == pc' = [pc EXCEPT ![c] = where]

\* The owner's outcome, to be published by endSpawn before it returns.
Ends(c, outcome) == got' = [got EXCEPT ![c] = outcome] /\ Goes(c, "end")

Returns(c, outcome) == got' = [got EXCEPT ![c] = outcome] /\ Goes(c, "got")

\* The server may be there already.  (Close leaves its clients in the list, but
\* ToolsFor refuses them then: a caller that comes later fails either way.)
Check(c) ==
    /\ pc[c] = "check"
    /\ \/ Connected # {} /\ Returns(c, "already")
       \/ Connected = {} /\ Goes(c, "claim") /\ UNCHANGED got
    /\ UNCHANGED <<mine, spawning, spawns, result, server, closing, tabVars>>

\* beginSpawn: the first caller owns the spawn, the others wait for it.
Claim(c) ==
    /\ pc[c] = "claim"
    /\ \/ /\ spawning # 0
          /\ mine' = [mine EXCEPT ![c] = spawning]
          /\ Goes(c, "wait")
          /\ UNCHANGED <<spawning, spawns>>
       \/ /\ spawning = 0 /\ spawns < MaxSpawns
          /\ spawns' = spawns + 1
          /\ spawning' = spawns + 1
          /\ mine' = [mine EXCEPT ![c] = spawns + 1]
          /\ Goes(c, "start")
    /\ UNCHANGED <<got, result, server, closing, tabVars>>

\* Mutant: a caller takes the tools of a spawn that failed.
AwaitedBlindly(c) ==
    /\ pc[c] = "wait"
    /\ result[mine[c]] # "pending"
    /\ Returns(c, "tools")
    /\ UNCHANGED <<mine, spawning, spawns, result, server, closing, tabVars>>

\* A caller that waited returns what the owner did.
Awaited(c) ==
    /\ pc[c] = "wait"
    /\ result[mine[c]] # "pending"
    /\ Returns(c, result[mine[c]])
    /\ UNCHANGED <<mine, spawning, spawns, result, server, closing, tabVars>>

\* The context of a caller that waits is cancelled, by Close or with its session.
GivesUp(c) ==
    /\ pc[c] = "wait"
    /\ Returns(c, "failed")
    /\ UNCHANGED <<mine, spawning, spawns, result, server, closing, tabVars>>

\* Mutant: the owner does not look again whether the server is connected.
StartAnyway(c) ==
    /\ pc[c] = "start"
    /\ \/ closing # "open" /\ Ends(c, "failed") /\ UNCHANGED server
       \/ /\ closing = "open"
          /\ server' = [server EXCEPT ![mine[c]] = "starting"]
          /\ Goes(c, "handshake") /\ UNCHANGED got
    /\ UNCHANGED <<mine, spawning, spawns, result, closing, tabVars>>

\* The owner looks again, then starts the process.
Start(c) ==
    /\ pc[c] = "start"
    /\ \/ Connected # {} /\ Ends(c, "already") /\ UNCHANGED server
       \/ Connected = {} /\ closing # "open" /\ Ends(c, "failed") /\ UNCHANGED server
       \/ /\ Connected = {} /\ closing = "open"
          /\ server' = [server EXCEPT ![mine[c]] = "starting"]
          /\ Goes(c, "handshake") /\ UNCHANGED got
    /\ UNCHANGED <<mine, spawning, spawns, result, closing, tabVars>>

\* Mutant: a handshake that fails leaves the spawn claimed.
FailsClaimed(c) ==
    /\ pc[c] = "handshake"
    /\ server' = [server EXCEPT ![mine[c]] = "gone"]
    /\ Returns(c, "failed")
    /\ UNCHANGED <<mine, spawning, spawns, result, closing, tabVars>>

\* initialize or tools/list fails, times out or is cancelled: the process is
\* closed.
Fails(c) ==
    /\ pc[c] = "handshake"
    /\ server' = [server EXCEPT ![mine[c]] = "gone"]
    /\ Ends(c, "failed")
    /\ UNCHANGED <<mine, spawning, spawns, result, closing, tabVars>>

\* Mutant: a server is connected to a host that was closed meanwhile.
ConnectsLate(c) ==
    /\ pc[c] = "handshake"
    /\ server' = [server EXCEPT ![mine[c]] = "connected"]
    /\ Ends(c, "tools")
    /\ UNCHANGED <<mine, spawning, spawns, result, closing, tabVars>>

\* addConnectedWithLifecycle: unless the host was closed or the name taken
\* during the handshake, the server is connected.
Connects(c) ==
    /\ pc[c] = "handshake"
    /\ LET outcome == CASE closing # "open" -> "failed"
                         [] closing = "open" /\ Connected # {} -> "already"
                         [] OTHER -> "tools"
       IN  /\ Ends(c, outcome)
           /\ server' = [server EXCEPT ![mine[c]] =
                            IF outcome = "tools" THEN "connected" ELSE "gone"]
    /\ UNCHANGED <<mine, spawning, spawns, result, closing, tabVars>>

\* Mutant: the claim is kept after the result was published.
EndSpawnKeepsClaim(c) ==
    /\ pc[c] = "end"
    /\ result' = [result EXCEPT ![mine[c]] = got[c]]
    /\ Goes(c, "got")
    /\ UNCHANGED <<mine, got, spawning, spawns, server, closing, tabVars>>

EndSpawn(c) ==
    /\ pc[c] = "end"
    /\ result' = [result EXCEPT ![mine[c]] = got[c]]
    /\ spawning' = 0
    /\ Goes(c, "got")
    /\ UNCHANGED <<mine, got, spawns, server, closing, tabVars>>

\* What a call does of itself.
Proceeds(c) ==
    \/ Check(c) \/ Claim(c) \/ Awaited(c)
    \/ Start(c) \/ Fails(c) \/ Connects(c) \/ EndSpawn(c)

Add(c) == Proceeds(c) \/ GivesUp(c)

-----------------------------------------------------------------------------
(* The sessions.                                                           *)

\* Room for one more spawn, should this caller make it.
Room == spawns + Cardinality({c \in Callers : pc[c] \in {"check", "claim"}}) < MaxSpawns

\* Registry.Add
With(reg, t, name, what) ==
    IF t \in suspended THEN reg ELSE [reg EXCEPT ![t][name] = what]

Without(reg, t) == [reg EXCEPT ![t] = Nothing]

\* Registering the server: its tools when it is connected and lists them, else
\* a spawn that is kicked before the placeholders are in the registry.
Boot(t) ==
    /\ phase[t] = "new"
    /\ \/ /\ Connected # {} /\ closing = "open"
          /\ \E n \in Connected : registry' = With(registry, t, "tool", {n})
          /\ phase' = [phase EXCEPT ![t] = "up"]
          /\ UNCHANGED <<pc, stub>>
       \/ /\ Room
          /\ \E cached \in BOOLEAN : stub' = [stub EXCEPT ![t] = ~cached]
          /\ phase' = [phase EXCEPT ![t] = "placing"]
          /\ Goes(Bg(t), IF closing = "open" THEN "check" ELSE "done")
          /\ UNCHANGED registry
    /\ UNCHANGED <<addVars, closing, suspended, dropping, removed>>

Place(t) ==
    /\ phase[t] = "placing"
    /\ phase' = [phase EXCEPT ![t] = "up"]
    /\ registry' = With(registry, t, IF stub[t] THEN "connect" ELSE "tool", {0})
    /\ UNCHANGED <<pc, addVars, closing, stub, suspended, dropping, removed>>

\* Whose tools a caller gets: the ones Add returned, or ToolsFor's when the
\* server was there already; nobody's when it failed or is gone.
ToolsOf(c) ==
    IF got[c] = "tools" THEN {mine[c]}
    ELSE IF got[c] = "already" /\ closing = "open" THEN Connected
    ELSE {}

\* No tools: the server is not there, or ToolsFor fails or times out.
Toolless(c) == ToolsOf(c) = {} \/ got[c] = "already"

\* lazySpawn.run publishes the outcome and begins the swap.
BgResolves(t) ==
    LET c == Bg(t) IN
    /\ pc[c] = "got"
    /\ \/ \E n \in ToolsOf(c) :
             /\ mine' = [mine EXCEPT ![c] = n]
             /\ registry' = IF stub[t] THEN Without(registry, t) ELSE registry
             /\ Goes(c, "add")
       \/ /\ Toolless(c)
          /\ mine' = [mine EXCEPT ![c] = 0]
          /\ Goes(c, "done")
          /\ UNCHANGED registry
    /\ got' = [got EXCEPT ![c] = "failed"]
    /\ UNCHANGED <<spawning, spawns, result, server, closing,
                   phase, stub, suspended, dropping, removed>>

BgAdds(t) ==
    LET c == Bg(t) IN
    /\ pc[c] = "add"
    /\ registry' = With(registry, t, "tool", {mine[c]})
    /\ mine' = [mine EXCEPT ![c] = 0]
    /\ Goes(c, "done")
    /\ UNCHANGED <<got, spawning, spawns, result, server, closing, phase, stub, suspended, dropping, removed>>

\* The user connects the server (connectSpec).
Connect(t) ==
    /\ phase[t] = "up" /\ pc[User(t)] = "off"
    /\ Room
    /\ Goes(User(t), "check")
    /\ UNCHANGED <<addVars, closing, tabVars>>

UserResolves(t) ==
    LET c == User(t) IN
    /\ pc[c] = "got"
    /\ \/ \E n \in ToolsOf(c) :
             /\ mine' = [mine EXCEPT ![c] = n]
             /\ suspended' = suspended \ {t}
             /\ registry' = Without(registry, t)
             /\ Goes(c, "add")
       \/ /\ Toolless(c)
          /\ mine' = [mine EXCEPT ![c] = 0]
          /\ Goes(c, "off")
          /\ UNCHANGED <<suspended, registry>>
    /\ got' = [got EXCEPT ![c] = "failed"]
    /\ UNCHANGED <<spawning, spawns, result, server, closing,
                   phase, stub, dropping, removed>>

UserAdds(t) ==
    LET c == User(t) IN
    /\ pc[c] = "add"
    /\ registry' = With(registry, t, "tool", {mine[c]})
    /\ mine' = [mine EXCEPT ![c] = 0]
    /\ Goes(c, "off")
    /\ UNCHANGED <<got, spawning, spawns, result, server, closing, phase, stub, suspended, dropping, removed>>

\* The user disconnects the server, connected or not (DisconnectMCPServer):
\* Host.Remove, then the session's registry.
Disconnect(t) ==
    /\ phase[t] = "up" /\ t \notin dropping
    /\ server' = [n \in Spawns |-> IF n \in Connected THEN "gone" ELSE server[n]]
    /\ removed' = (removed \/ Connected # {})
    /\ dropping' = dropping \cup {t}
    /\ UNCHANGED <<pc, mine, got, spawning, spawns, result, closing,
                   phase, stub, registry, suspended>>

DropTools(t) ==
    /\ t \in dropping
    /\ dropping' = dropping \ {t}
    /\ registry' = Without(registry, t)
    /\ UNCHANGED <<pc, addVars, closing, phase, stub, suspended, removed>>

\* The user hides the server from one session (UnregisterMCPServerTools).
Suspend(t) ==
    /\ phase[t] = "up"
    /\ suspended' = suspended \cup {t}
    /\ registry' = Without(registry, t)
    /\ UNCHANGED <<pc, addVars, closing, phase, stub, dropping, removed>>

-----------------------------------------------------------------------------
(* Host.Close                                                              *)

CloseBegins ==
    /\ closing = "open"
    /\ closing' = "closed"
    /\ UNCHANGED <<pc, addVars, tabVars>>

\* The background goroutines are over; the connected servers are closed.
CloseEnds ==
    /\ closing = "closed"
    /\ \A t \in Tabs : ~Running(t)
    /\ closing' = "returned"
    /\ server' = [n \in Spawns |-> IF n \in Connected THEN "gone" ELSE server[n]]
    /\ UNCHANGED <<pc, mine, got, spawning, spawns, result, tabVars>>

-----------------------------------------------------------------------------

Next ==
    \/ \E c \in Callers : Add(c)
    \/ \E t \in Tabs : \/ Boot(t) \/ Place(t) \/ BgResolves(t) \/ BgAdds(t)
    \/ \E t \in Users : \/ Connect(t) \/ UserResolves(t) \/ UserAdds(t)
                        \/ Disconnect(t) \/ DropTools(t) \/ Suspend(t)
    \/ CloseBegins \/ CloseEnds

\* Every goroutine goes on; a handshake ends, since each of its calls has a
\* deadline (contextWithCallTimeout).  Users and boots owe nothing, and nobody
\* need cancel a caller that waits.
Fairness ==
    /\ \A c \in Callers : WF_vars(Proceeds(c))
    /\ \A t \in Tabs : WF_vars(BgResolves(t)) /\ WF_vars(BgAdds(t))
    /\ WF_vars(CloseEnds)

Spec == Init /\ [][Next]_vars /\ Fairness

-----------------------------------------------------------------------------
(* Properties                                                              *)

Outcomes == {"tools", "already", "failed"}

\* The state is well typed, and the spawn under way has an owner that has not
\* published its result.
TypeOK ==
    /\ pc \in [Callers -> Adding \cup {"off", "got", "add", "done"}]
    /\ mine \in [Callers -> 0 .. MaxSpawns]
    /\ got \in [Callers -> Outcomes]
    /\ spawns \in 0 .. MaxSpawns /\ spawning \in 0 .. spawns
    /\ result \in [Spawns -> Outcomes \cup {"pending"}]
    /\ server \in [Spawns -> {"none", "starting", "connected", "gone"}]
    /\ closing \in {"open", "closed", "returned"}
    /\ phase \in [Tabs -> {"new", "placing", "up"}]
    /\ stub \in [Tabs -> BOOLEAN]
    /\ registry \in [Tabs -> [Names -> {{}} \cup {{n} : n \in 0 .. MaxSpawns}]]
    /\ suspended \subseteq Tabs /\ dropping \subseteq Tabs
    /\ removed \in BOOLEAN
    /\ spawning # 0 => \E c \in Callers :
          pc[c] \in {"start", "handshake", "end"} /\ mine[c] = spawning

\* Sessions that start the same server at the same time share one process:
\* there is at most one that starts or is connected (plugin.go, the comment at
\* Host.spawning).
OneServer ==
    \A n, m \in Spawns :
        {server[n], server[m]} \subseteq {"starting", "connected"} => n = m

\* "a just-connected stdio child cannot escape teardown" (plugin.go, at
\* Host.deferredWG): once Close returned no server is connected, no background
\* goroutine runs, and a process that still starts has a user who will close it.
NoEscape ==
    closing = "returned" =>
        /\ Connected = {} /\ \A t \in Tabs : ~Running(t)
        /\ \A n \in Spawns : server[n] = "starting" =>
              \E t \in Users : pc[User(t)] = "handshake" /\ mine[User(t)] = n

\* Until a user disconnects it, the tools a session shows are those of the
\* server that is connected, whoever spawned it, through failed spawns,
\* shared results and swaps that run against a user's connect; and what a user
\* hid stays hidden until that user connects it again, whatever handshake
\* comes to its end meanwhile (tool.go, SuspendPrefix).
ToolsAreOfTheServer ==
    \A t \in Tabs :
        /\ (~removed /\ closing = "open") =>
              registry[t]["tool"] \subseteq Connected \cup {0}
        /\ t \in suspended => registry[t] = Nothing

\* Nobody is left waiting for the server: each call of Add returns, though its
\* spawn may fail, be refused or be owned by another session, and so does Close.
NothingHangs ==
    /\ \A c \in Callers : (pc[c] \in Adding) ~> (pc[c] \notin Adding)
    /\ (closing = "closed") ~> (closing = "returned")

=============================================================================
