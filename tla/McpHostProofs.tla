----------------------------- MODULE McpHostProofs -----------------------------
(***************************************************************************)
(* The MCP host for any number of sessions, users and spawns: the sessions *)
(* share one process, Close lets none escape, and what a session shows are *)
(* the tools of that process.                                              *)
(***************************************************************************)
EXTENDS McpHost, TLAPS

\* Where the spawn under way is a caller's own.
Owning == {"start", "handshake", "end"}

Places == Adding \cup {"off", "got", "add", "done"}

ServerStates == {"none", "starting", "connected", "gone"}
Shown == {{}} \cup {{n} : n \in 0 .. MaxSpawns}
Registries == [Tabs -> [Names -> Shown]]

(***************************************************************************)
(* The inductive invariant, in the parts that different actions change.    *)
(***************************************************************************)

AddTypes ==
    /\ pc \in [Callers -> Places]
    /\ mine \in [Callers -> 0 .. MaxSpawns]
    /\ got \in [Callers -> Outcomes]
    /\ spawns \in 0 .. MaxSpawns /\ spawning \in 0 .. spawns
    /\ result \in [Spawns -> Outcomes \cup {"pending"}]
    /\ server \in [Spawns -> ServerStates]
    /\ closing \in {"open", "closed", "returned"}

TabTypes ==
    /\ phase \in [Tabs -> {"new", "placing", "up"}]
    /\ stub \in [Tabs -> BOOLEAN]
    /\ registry \in Registries
    /\ suspended \subseteq Tabs /\ dropping \subseteq Tabs
    /\ removed \in BOOLEAN

\* The spawn under way has one owner, and each caller that waits a spawn.
ClaimInv ==
    /\ \A c \in Callers : pc[c] \in Owning \cup {"wait"} => mine[c] # 0
    /\ \A c \in Callers : pc[c] \in Owning => mine[c] = spawning
    /\ \A c, d \in Callers : pc[c] \in Owning /\ pc[d] \in Owning => c = d
    /\ spawning # 0 => \E c \in Callers : pc[c] \in Owning /\ mine[c] = spawning

\* A process starts only while its owner shakes hands with it, and only when
\* no other is connected.
ProcessInv ==
    /\ \A n \in Spawns : server[n] = "starting" =>
          \E c \in Callers : pc[c] = "handshake" /\ mine[c] = n
    /\ \A n, m \in Connected : n = m
    /\ \A c \in Callers : pc[c] = "handshake" => Connected = {}

CloseInv ==
    closing = "returned" => Connected = {} /\ \A t \in Tabs : ~Running(t)

\* Nobody takes a spawn for connected that is not, as long as no connected
\* server was disconnected or closed.
Told ==
    /\ \A n \in Spawns : result[n] = "tools" => n \in Connected
    /\ \A c \in Callers : pc[c] \in {"end", "got"} /\ got[c] = "tools" => mine[c] \in Connected
    /\ \A c \in Callers : pc[c] = "add" => mine[c] \in Connected
    /\ \A t \in Tabs : registry[t]["tool"] \subseteq Connected \cup {0}

ToldInv == (~removed /\ closing = "open") => Told

HiddenInv == \A t \in suspended : registry[t] = Nothing

\* The background goroutine of a session is there once it boots.
BootInv == \A t \in Tabs : phase[t] = "new" => pc[Bg(t)] = "off"

AddInv == AddTypes /\ ClaimInv
Inv == /\ AddInv /\ TabTypes
       /\ ProcessInv /\ CloseInv /\ ToldInv /\ HiddenInv /\ BootInv

LEMMA CallerFacts ==
    /\ \A t \in Tabs : Bg(t) \in Callers /\ Bg(t)[2] = "bg"
    /\ \A t \in Users : User(t) \in Callers /\ t \in Tabs
    /\ \A t \in Tabs, u \in Users : Bg(t) # User(u)
    /\ \A t, u \in Tabs : Bg(t) = Bg(u) => t = u
    /\ \A c \in Callers : (\E t \in Tabs : c = Bg(t)) \/ (\E t \in Users : c = User(t))
  BY McpHostAssumption DEF Callers, Bg, User

LEMMA InitInv == Init => Inv
<1> SUFFICES ASSUME Init PROVE Inv
  OBVIOUS
<1>1. AddInv
  BY McpHostAssumption, SMT
  DEF Init, AddInv, AddTypes, ClaimInv, Places, Adding, Owning, Outcomes, ServerStates
<1>2. TabTypes
  <2>1. Nothing \in [Names -> Shown]
    BY DEF Nothing, Shown
  <2> QED BY <2>1 DEF Init, TabTypes, Registries
<1>3. Connected = {}
  BY DEF Init, Connected
<1>4. ProcessInv /\ CloseInv
  BY <1>3 DEF Init, ProcessInv, CloseInv
<1>5. ToldInv /\ HiddenInv
  BY DEF Init, ToldInv, Told, HiddenInv, Nothing, Names
<1>6. BootInv
  BY CallerFacts DEF Init, BootInv
<1> QED BY <1>1, <1>2, <1>4, <1>5, <1>6 DEF Inv

-----------------------------------------------------------------------------
(* The calls of Host.Add.                                                  *)

LEMMA ServerTyped ==
  ASSUME server \in [Spawns -> ServerStates], NEW n, NEW v \in ServerStates
  PROVE  [server EXCEPT ![n] = v] \in [Spawns -> ServerStates]
  OBVIOUS

LEMMA AddKeepsClaim ==
  ASSUME AddInv, NEW c \in Callers, Add(c)
  PROVE  AddInv'
<1> USE DEF AddInv, AddTypes, ClaimInv, Owning, Places, Adding, Outcomes, tabVars,
            Goes, Ends, Returns
<1> USE McpHostAssumption
<1>1. CASE Check(c)
  BY <1>1, SMT DEF Check
<1>2. CASE Claim(c)
  BY <1>2, SMT DEF Claim
<1>3. CASE Awaited(c)
  <2>1. mine[c] \in Spawns
    BY <1>3, SMT DEF Awaited, Spawns
  <2> QED BY <1>3, <2>1, SMT DEF Awaited
<1>4. CASE GivesUp(c)
  BY <1>4, SMT DEF GivesUp
<1>5. CASE Start(c)
  <2>1. server' \in [Spawns -> ServerStates]
    BY <1>5, ServerTyped DEF Start, ServerStates
  <2>2. pc' \in [Callers -> Places] /\ got' \in [Callers -> Outcomes]
    BY <1>5, SMT DEF Start
  <2>3. AddTypes'
    BY <1>5, <2>1, <2>2, SMT DEF Start, ServerStates
  <2>4. ClaimInv'
    BY <1>5, SMT DEF Start
  <2> QED BY <2>3, <2>4
<1>6. CASE Fails(c)
  <2>1. server' \in [Spawns -> ServerStates]
    BY <1>6, ServerTyped DEF Fails, ServerStates
  <2>2. pc' \in [Callers -> Places] /\ got' \in [Callers -> Outcomes]
    BY <1>6, SMT DEF Fails
  <2>3. AddTypes'
    BY <1>6, <2>1, <2>2, SMT DEF Fails, ServerStates
  <2>4. pc[c] \in Owning /\ pc' = [pc EXCEPT ![c] = "end"]
        /\ mine' = mine /\ spawning' = spawning
    BY <1>6 DEF Fails
  <2>5. ClaimInv'
    BY <2>4, SMT
  <2> QED BY <2>3, <2>5
<1>7. CASE Connects(c)
  <2>1. server' \in [Spawns -> ServerStates]
    BY <1>7, ServerTyped DEF Connects, ServerStates
  <2>2. pc' \in [Callers -> Places] /\ got' \in [Callers -> Outcomes]
    BY <1>7, SMT DEF Connects
  <2>3. AddTypes'
    BY <1>7, <2>1, <2>2, SMT DEF Connects, ServerStates
  <2>4. pc[c] \in Owning /\ pc' = [pc EXCEPT ![c] = "end"]
        /\ mine' = mine /\ spawning' = spawning
    BY <1>7 DEF Connects
  <2>5. ClaimInv'
    BY <2>4, SMT
  <2> QED BY <2>3, <2>5
<1>8. CASE EndSpawn(c)
  <2>1. got[c] \in Outcomes /\ spawning' = 0
    BY <1>8, SMT DEF EndSpawn
  <2>2. result' \in [Spawns -> Outcomes \cup {"pending"}]
    BY <1>8, <2>1 DEF EndSpawn
  <2>3. AddTypes'
    BY <1>8, <2>1, <2>2, SMT DEF EndSpawn
  <2>4. ClaimInv'
    BY <1>8, <2>1, SMT DEF EndSpawn
  <2> QED BY <2>3, <2>4
<1> HIDE DEF AddInv, AddTypes, ClaimInv
<1> QED BY <1>1, <1>2, <1>3, <1>4, <1>5, <1>6, <1>7, <1>8 DEF Add, Proceeds

LEMMA HandshakesUntouched ==
  ASSUME ProcessInv, server' = server,
         \A d \in Callers : /\ pc'[d] = "handshake" <=> pc[d] = "handshake"
                            /\ pc[d] = "handshake" => mine'[d] = mine[d]
  PROVE  ProcessInv'
  BY DEF ProcessInv, Connected

LEMMA AddKeepsProcess ==
  ASSUME AddInv, ProcessInv, NEW c \in Callers, Add(c)
  PROVE  ProcessInv'
<1>1. pc \in [Callers -> Places] /\ mine \in [Callers -> 0 .. MaxSpawns]
      /\ server \in [Spawns -> ServerStates]
  BY DEF AddInv, AddTypes
<1> USE DEF Goes, Ends, Returns
<1>2. CASE Check(c) \/ Awaited(c) \/ GivesUp(c) \/ EndSpawn(c)
  <2>1. server' = server /\ mine' = mine /\ pc[c] # "handshake"
    BY <1>2 DEF Check, Awaited, GivesUp, EndSpawn
  <2>2. \E p \in {"got", "claim"} : pc' = [pc EXCEPT ![c] = p]
    BY <1>2 DEF Check, Awaited, GivesUp, EndSpawn
  <2> QED BY <1>1, <2>1, <2>2, HandshakesUntouched
<1>3. CASE Claim(c)
  <2>1. server' = server /\ pc[c] # "handshake"
    BY <1>3 DEF Claim
  <2>2. \E p \in {"wait", "start"} : pc' = [pc EXCEPT ![c] = p]
    BY <1>3 DEF Claim
  <2>3. \E n : mine' = [mine EXCEPT ![c] = n]
    BY <1>3 DEF Claim
  <2> QED BY <1>1, <2>1, <2>2, <2>3, HandshakesUntouched
<1>4. CASE Start(c)
  <2>1. CASE server' = server /\ pc' = [pc EXCEPT ![c] = "end"]
    BY <1>1, <1>4, <2>1, HandshakesUntouched DEF Start
  <2>2. CASE /\ Connected = {}
             /\ server' = [server EXCEPT ![mine[c]] = "starting"]
             /\ pc' = [pc EXCEPT ![c] = "handshake"]
    <3>1. mine' = mine
      BY <1>4 DEF Start
    <3>2. Connected' = {}
      BY <1>1, <2>2 DEF Connected
    <3>3. \A n \in Spawns : server'[n] = "starting" => n = mine[c] \/ server[n] = "starting"
      BY <1>1, <2>2
    <3>4. \A d \in Callers : pc[d] = "handshake" => pc'[d] = "handshake"
      BY <1>1, <2>2
    <3>5. pc'[c] = "handshake"
      BY <1>1, <2>2
    <3> QED BY <3>1, <3>2, <3>3, <3>4, <3>5 DEF ProcessInv
  <2> QED BY <1>4, <2>1, <2>2 DEF Start
<1>5. CASE Fails(c) \/ Connects(c)
  <2>1. /\ pc[c] = "handshake" /\ mine' = mine
        /\ pc' = [pc EXCEPT ![c] = "end"]
        /\ \E v \in {"connected", "gone"} : server' = [server EXCEPT ![mine[c]] = v]
    BY <1>5 DEF Fails, Connects
  <2>2. Connected = {}
    BY <2>1 DEF ProcessInv
  <2>3. \A d \in Callers : pc'[d] # "handshake"
    <3>1. \A d \in Callers : pc[d] = "handshake" => d = c
      BY <2>1 DEF AddInv, ClaimInv, Owning
    <3> QED BY <1>1, <2>1, <3>1
  <2>4. \A n \in Spawns : server'[n] # "starting"
    <3>1. \A n \in Spawns : server[n] = "starting" => n = mine[c]
      <4>1. \A d \in Callers : pc[d] = "handshake" => d = c
        BY <2>1 DEF AddInv, ClaimInv, Owning
      <4> QED BY <4>1 DEF ProcessInv
    <3> QED BY <1>1, <2>1, <3>1
  <2>5. \A n \in Connected' : n = mine[c]
    BY <1>1, <2>1, <2>2 DEF Connected
  <2> QED BY <2>3, <2>4, <2>5 DEF ProcessInv
<1> QED BY <1>2, <1>3, <1>4, <1>5 DEF Add, Proceeds

(* A step of Add leaves the sessions, Close and the removals alone.        *)
LEMMA AddFrame ==
  ASSUME NEW c \in Callers, Add(c)
  PROVE  /\ UNCHANGED <<phase, stub, registry, suspended, dropping, removed, closing>>
         /\ pc[c] \in Adding
         /\ \E p \in Places : pc' = [pc EXCEPT ![c] = p]
<1> USE DEF Goes, Ends, Returns, tabVars, Places, Adding
<1> QED BY DEF Add, Proceeds, Check, Claim, Awaited, GivesUp, Start, Fails, Connects, EndSpawn

(* Only a handshake that ends in time connects a server.                   *)
LEMMA AddConnects ==
  ASSUME AddInv, ProcessInv, NEW c \in Callers, Add(c)
  PROVE  /\ Connected \subseteq Connected'
         /\ closing # "open" => Connected' = Connected
<1>1. server \in [Spawns -> ServerStates]
  BY DEF AddInv, AddTypes
<1>2. CASE UNCHANGED server
  BY <1>2 DEF Connected
<1>3. CASE Connected = {} /\ server' = [server EXCEPT ![mine[c]] = "starting"]
  BY <1>1, <1>3 DEF Connected
<1>4. CASE Connected = {} /\ server' = [server EXCEPT ![mine[c]] = "gone"]
  BY <1>1, <1>4 DEF Connected
<1>5. CASE Connected = {} /\ closing = "open"
  BY <1>5
<1>6. (Fails(c) \/ Connects(c)) => Connected = {}
  BY DEF Fails, Connects, ProcessInv
<1> QED BY <1>2, <1>3, <1>4, <1>5, <1>6
        DEF Add, Proceeds, Check, Claim, Awaited, GivesUp, Start, Fails, Connects, EndSpawn, Ends

LEMMA AddKeepsClose ==
  ASSUME Inv, NEW c \in Callers, Add(c)
  PROVE  CloseInv'
<1> SUFFICES ASSUME closing' = "returned"
             PROVE  Connected' = {} /\ \A t \in Tabs : ~Running(t)'
  BY DEF CloseInv
<1>1. closing = "returned" /\ Connected = {} /\ \A t \in Tabs : ~Running(t)
  BY AddFrame DEF Inv, CloseInv
<1>2. Connected' = {}
  BY <1>1, AddConnects DEF Inv
<1>3. ASSUME NEW t \in Tabs PROVE ~Running(t)'
  <2>1. Bg(t) # c
    BY <1>1, AddFrame DEF Running, Adding
  <2>2. pc'[Bg(t)] = pc[Bg(t)]
    BY <2>1, AddFrame, CallerFacts DEF Inv, AddInv, AddTypes
  <2> QED BY <1>1, <2>2 DEF Running
<1> QED BY <1>2, <1>3

LEMMA AddKeepsTold ==
  ASSUME Inv, NEW c \in Callers, Add(c)
  PROVE  ToldInv'
<1> SUFFICES ASSUME ~removed, closing = "open" PROVE Told'
  BY AddFrame DEF ToldInv
<1>1. /\ pc \in [Callers -> Places] /\ mine \in [Callers -> 0 .. MaxSpawns]
      /\ got \in [Callers -> Outcomes] /\ server \in [Spawns -> ServerStates]
      /\ result \in [Spawns -> Outcomes \cup {"pending"}]
  BY DEF Inv, AddInv, AddTypes
<1>2. Told /\ Connected \subseteq Connected' /\ registry' = registry
  BY AddConnects, AddFrame DEF Inv, ToldInv
<1>3. \A t \in Tabs : registry'[t]["tool"] \subseteq Connected' \cup {0}
  BY <1>2 DEF Told
<1> USE DEF Goes, Ends, Returns
\* It is enough to look at the caller that takes the step.
<1>4. ASSUME result' = result, NEW p \in Places, NEW o,
             mine' = mine, pc' = [pc EXCEPT ![c] = p], got' = [got EXCEPT ![c] = o],
             p # "add", (p \in {"end", "got"} /\ o = "tools") => mine[c] \in Connected'
      PROVE  Told'
  <2>1. \A d \in Callers : pc'[d] \in {"end", "got"} /\ got'[d] = "tools" => mine'[d] \in Connected'
    BY <1>1, <1>2, <1>4 DEF Told
  <2>2. \A d \in Callers : pc'[d] = "add" => mine'[d] \in Connected'
    BY <1>1, <1>2, <1>4 DEF Told
  <2>3. \A n \in Spawns : result'[n] = "tools" => n \in Connected'
    BY <1>2, <1>4 DEF Told
  <2> QED BY <1>3, <2>1, <2>2, <2>3 DEF Told
<1>5. CASE Check(c)
  <2>1. CASE Returns(c, "already")
    BY <1>4, <1>5, <2>1 DEF Check, Places
  <2>2. CASE Goes(c, "claim") /\ UNCHANGED got
    <3>1. got' = [got EXCEPT ![c] = got[c]]
      BY <1>1, <2>2
    <3> QED BY <1>4, <1>5, <2>2, <3>1 DEF Check, Places, Adding
  <2> QED BY <1>5, <2>1, <2>2 DEF Check
<1>6. CASE Claim(c)
  <2>1. result' = result /\ got' = got
        /\ (\E n : mine' = [mine EXCEPT ![c] = n])
        /\ (\E p \in {"wait", "start"} : pc' = [pc EXCEPT ![c] = p])
    BY <1>6 DEF Claim
  <2>2. \A d \in Callers : pc'[d] \in {"end", "got", "add"} =>
           pc'[d] = pc[d] /\ mine'[d] = mine[d]
    BY <1>1, <2>1
  <2>3. \A d \in Callers : pc'[d] \in {"end", "got"} /\ got'[d] = "tools" => mine'[d] \in Connected'
    BY <1>2, <2>1, <2>2 DEF Told
  <2>4. \A d \in Callers : pc'[d] = "add" => mine'[d] \in Connected'
    BY <1>2, <2>2 DEF Told
  <2>5. \A n \in Spawns : result'[n] = "tools" => n \in Connected'
    BY <1>2, <2>1 DEF Told
  <2> QED BY <1>3, <2>3, <2>4, <2>5 DEF Told
<1>7. CASE Awaited(c)
  <2>1. mine[c] \in Spawns
    BY <1>7, SMT DEF Awaited, Inv, AddInv, AddTypes, ClaimInv, Spawns
  <2>2. result[mine[c]] = "tools" => mine[c] \in Connected'
    BY <1>2, <2>1 DEF Told
  <2> QED BY <1>4, <1>7, <2>2 DEF Awaited, Places
<1>8. CASE GivesUp(c)
  BY <1>4, <1>8 DEF GivesUp, Places
<1>9. CASE Start(c)
  <2>1. CASE Ends(c, "already") \/ Ends(c, "failed")
    BY <1>4, <1>9, <2>1 DEF Start, Places, Adding
  <2>2. CASE Goes(c, "handshake") /\ UNCHANGED got
    <3>1. got' = [got EXCEPT ![c] = got[c]]
      BY <1>1, <2>2
    <3> QED BY <1>4, <1>9, <2>2, <3>1 DEF Start, Places, Adding
  <2> QED BY <1>9, <2>1, <2>2 DEF Start
<1>10. CASE Fails(c)
  BY <1>4, <1>10 DEF Fails, Places, Adding
<1>11. CASE Connects(c)
  <2>1. mine[c] \in Spawns
    BY <1>11, SMT DEF Connects, Inv, AddInv, AddTypes, ClaimInv, Owning, Spawns
  <2>2. Connected = {}
    BY <1>11 DEF Connects, Inv, ProcessInv
  <2>3. mine[c] \in Connected'
    BY <1>1, <1>11, <2>1, <2>2 DEF Connects, Connected
  <2> QED BY <1>4, <1>11, <2>3 DEF Connects, Places, Adding
<1>12. CASE EndSpawn(c)
  <2>1. /\ got' = got /\ mine' = mine /\ pc' = [pc EXCEPT ![c] = "got"]
        /\ pc[c] = "end" /\ result' = [result EXCEPT ![mine[c]] = got[c]]
    BY <1>12 DEF EndSpawn
  <2>2. got[c] = "tools" => mine[c] \in Connected'
    BY <1>2, <2>1 DEF Told
  <2>3. \A d \in Callers : pc'[d] \in {"end", "got"} /\ got'[d] = "tools" => mine'[d] \in Connected'
    BY <1>1, <1>2, <2>1, <2>2 DEF Told
  <2>4. \A d \in Callers : pc'[d] = "add" => mine'[d] \in Connected'
    BY <1>1, <1>2, <2>1 DEF Told
  <2>5. \A n \in Spawns : result'[n] = "tools" => n \in Connected'
    BY <1>1, <1>2, <2>1, <2>2 DEF Told
  <2> QED BY <1>3, <2>3, <2>4, <2>5 DEF Told
<1> QED BY <1>5, <1>6, <1>7, <1>8, <1>9, <1>10, <1>11, <1>12 DEF Add, Proceeds

LEMMA AddStep ==
  ASSUME Inv, NEW c \in Callers, Add(c)
  PROVE  Inv'
<1>1. AddInv' /\ ProcessInv'
  BY AddKeepsClaim, AddKeepsProcess DEF Inv
<1>2. TabTypes' /\ HiddenInv'
  BY AddFrame DEF Inv, TabTypes, HiddenInv
<1>3. BootInv'
  <2> SUFFICES ASSUME NEW t \in Tabs, phase[t] = "new" PROVE pc'[Bg(t)] = "off"
    BY AddFrame DEF BootInv
  <2>1. pc[Bg(t)] = "off"
    BY DEF Inv, BootInv
  <2>2. Bg(t) # c
    BY <2>1, AddFrame DEF Adding
  <2> QED BY <2>1, <2>2, AddFrame, CallerFacts DEF Inv, AddInv, AddTypes
<1> QED BY <1>1, <1>2, <1>3, AddKeepsClose, AddKeepsTold DEF Inv

-----------------------------------------------------------------------------
(* The sessions.                                                           *)

\* A caller that is not adding the server moves.
LEMMA CallerMoves ==
  ASSUME AddInv, ProcessInv, UNCHANGED <<spawning, spawns, result, server, closing>>,
         NEW c \in Callers, pc[c] \notin Owning \cup {"wait"},
         NEW p \in Places \ (Owning \cup {"wait"}), pc' = [pc EXCEPT ![c] = p],
         NEW n \in 0 .. MaxSpawns, mine' = [mine EXCEPT ![c] = n],
         NEW o \in Outcomes, got' = [got EXCEPT ![c] = o]
  PROVE  AddInv' /\ ProcessInv'
<1>1. pc \in [Callers -> Places] /\ mine \in [Callers -> 0 .. MaxSpawns]
      /\ got \in [Callers -> Outcomes]
  BY DEF AddInv, AddTypes
<1>2. pc' \in [Callers -> Places] /\ mine' \in [Callers -> 0 .. MaxSpawns]
      /\ got' \in [Callers -> Outcomes]
  BY <1>1
<1>3. AddTypes'
  BY <1>2 DEF AddInv, AddTypes
<1>4. \A d \in Callers : d # c => pc'[d] = pc[d] /\ mine'[d] = mine[d]
  BY <1>1
<1>5. pc'[c] \notin Owning \cup {"wait"}
  BY <1>1
<1>6. ClaimInv'
  BY <1>4, <1>5 DEF AddInv, ClaimInv
<1>7. ProcessInv'
  <2>1. pc'[c] # "handshake" /\ pc[c] # "handshake"
    BY <1>5 DEF Owning
  <2> QED BY <1>4, <2>1, HandshakesUntouched
<1> QED BY <1>3, <1>6, <1>7 DEF AddInv

\* What Registry.Add makes of a registry ...
LEMMA WithFacts ==
  ASSUME registry \in Registries, HiddenInv,
         NEW t \in Tabs, NEW name \in Names, NEW n \in 0 .. MaxSpawns
  PROVE  LET new == With(registry, t, name, {n})
         IN  /\ new \in Registries
             /\ \A u \in suspended : u \in Tabs => new[u] = Nothing
             /\ \A u \in Tabs : new[u]["tool"] \subseteq registry[u]["tool"] \cup {n}
<1>1. CASE t \in suspended
  BY <1>1 DEF With, HiddenInv
<1>2. CASE t \notin suspended
  <2> DEFINE row == [registry[t] EXCEPT ![name] = {n}]
  <2>1. With(registry, t, name, {n}) = [registry EXCEPT ![t] = row]
    BY <1>2 DEF With
  <2>2. registry[t] \in [Names -> Shown] /\ {n} \in Shown
    BY DEF Registries, Shown
  <2>3. row \in [Names -> Shown] /\ row["tool"] \subseteq registry[t]["tool"] \cup {n}
    BY <2>2 DEF Names
  <2> HIDE DEF row
  <2>4. [registry EXCEPT ![t] = row] \in Registries
    BY <2>3 DEF Registries
  <2>5. \A u \in Tabs : [registry EXCEPT ![t] = row][u] = IF u = t THEN row ELSE registry[u]
    BY DEF Registries
  <2> QED BY <1>2, <2>1, <2>3, <2>4, <2>5 DEF HiddenInv
<1> QED BY <1>1, <1>2

\* ... and RemovePrefix.
LEMMA WithoutFacts ==
  ASSUME registry \in Registries, NEW t \in Tabs
  PROVE  LET new == Without(registry, t)
         IN  /\ new \in Registries
             /\ new[t] = Nothing
             /\ \A u \in Tabs : /\ new[u]["tool"] \subseteq registry[u]["tool"]
                                /\ u # t => new[u] = registry[u]
<1>1. Nothing \in [Names -> Shown] /\ Nothing["tool"] = {}
  BY DEF Nothing, Shown, Names
<1>2. Without(registry, t) \in Registries
  BY <1>1 DEF Without, Registries
<1>3. \A u \in Tabs : Without(registry, t)[u] = IF u = t THEN Nothing ELSE registry[u]
  BY DEF Without, Registries
<1> QED BY <1>1, <1>2, <1>3

\* What a step of a session has to show: that it adds no tool but those of a
\* connected server, to no session that hides it, and names none to a caller.
LEMMA SessionStep ==
  ASSUME Inv, NEW t \in Tabs, NEW c \in Callers,
         UNCHANGED <<spawning, spawns, result, server, closing, removed>>,
         pc[c] \notin Owning \cup {"wait"},
         NEW p \in Places \ (Owning \cup {"wait"}), pc' = [pc EXCEPT ![c] = p],
         NEW n \in 0 .. MaxSpawns, mine' = [mine EXCEPT ![c] = n],
         NEW o \in Outcomes, got' = [got EXCEPT ![c] = o],
         p = "got" => o # "tools",
         p = "add" /\ ~removed /\ closing = "open" => n \in Connected,
         c = Bg(t) \/ \A u \in Tabs : c # Bg(u),
         c = Bg(t) => /\ phase'[t] # "new"
                      /\ closing = "returned" => p \in {"off", "done"},
         TabTypes', HiddenInv',
         \A u \in Tabs : phase'[u] = "new" => phase[u] = "new",
         (~removed /\ closing = "open") =>
            \A u \in Tabs : registry'[u]["tool"] \subseteq Connected \cup {0}
  PROVE  Inv'
<1>2. AddInv' /\ ProcessInv'
  BY CallerMoves DEF Inv
<1>3. Connected' = Connected
  BY DEF Connected
<1>4. pc \in [Callers -> Places] /\ mine \in [Callers -> 0 .. MaxSpawns]
      /\ got \in [Callers -> Outcomes]
  BY DEF Inv, AddInv, AddTypes
<1>5. \A u \in Tabs : Bg(u) \in Callers /\ (c = Bg(u) => u = t)
  BY CallerFacts
<1>6. CloseInv'
  BY <1>3, <1>4, <1>5 DEF Inv, CloseInv, Running
<1>7. BootInv'
  BY <1>4, <1>5 DEF Inv, BootInv
<1>8. ASSUME ~removed, closing = "open" PROVE Told'
  <2>1. Told
    BY <1>8 DEF Inv, ToldInv
  <2>2. \A d \in Callers : d # c => pc'[d] = pc[d] /\ mine'[d] = mine[d] /\ got'[d] = got[d]
    BY <1>4
  <2>3. pc'[c] = p /\ mine'[c] = n /\ got'[c] = o
    BY <1>4
  <2>4. \A d \in Callers : pc'[d] \in {"end", "got"} /\ got'[d] = "tools" => mine'[d] \in Connected
    BY <2>1, <2>2, <2>3 DEF Told, Owning
  <2>5. \A d \in Callers : pc'[d] = "add" => mine'[d] \in Connected
    BY <1>8, <2>1, <2>2, <2>3 DEF Told
  <2> QED BY <1>3, <1>8, <2>1, <2>4, <2>5 DEF Told
<1>9. ToldInv'
  BY <1>8 DEF ToldInv
<1> QED BY <1>2, <1>6, <1>7, <1>9 DEF Inv

\* The same, when no caller moves.
LEMMA RegistryStep ==
  ASSUME Inv, UNCHANGED <<pc, addVars, closing, removed>>,
         TabTypes', HiddenInv',
         \A u \in Tabs : phase'[u] = "new" => phase[u] = "new",
         (~removed /\ closing = "open") =>
            \A u \in Tabs : registry'[u]["tool"] \subseteq Connected \cup {0}
  PROVE  Inv'
<1>1. Connected' = Connected
  BY DEF Connected, addVars
<1>2. AddInv' /\ ProcessInv'
  BY <1>1 DEF Inv, AddInv, AddTypes, ClaimInv, ProcessInv, addVars
<1>3. CloseInv' /\ BootInv'
  BY <1>1 DEF Inv, CloseInv, BootInv, Running
<1>4. ToldInv'
  BY <1>1 DEF Inv, ToldInv, Told, addVars
<1> QED BY <1>2, <1>3, <1>4 DEF Inv

LEMMA TabFacts ==
  ASSUME Inv
  PROVE  /\ registry \in Registries /\ HiddenInv
         /\ Connected \subseteq 1 .. MaxSpawns
         /\ (~removed /\ closing = "open") =>
               \A u \in Tabs : registry[u]["tool"] \subseteq Connected \cup {0}
         /\ pc \in [Callers -> Places] /\ mine \in [Callers -> 0 .. MaxSpawns]
         /\ got \in [Callers -> Outcomes]
  BY DEF Inv, TabTypes, ToldInv, Told, Connected, Spawns, AddInv, AddTypes

LEMMA BootStep ==
  ASSUME Inv, NEW t \in Tabs, Boot(t)
  PROVE  Inv'
<1>1. CASE /\ Connected # {} /\ closing = "open"
           /\ \E n \in Connected : registry' = With(registry, t, "tool", {n})
           /\ phase' = [phase EXCEPT ![t] = "up"]
           /\ UNCHANGED <<pc, stub>>
  <2>1. PICK n \in Connected : registry' = With(registry, t, "tool", {n})
    BY <1>1
  <2>2. n \in 0 .. MaxSpawns
    BY TabFacts, SMT
  <2>3. /\ registry' \in Registries
        /\ \A u \in suspended : u \in Tabs => registry'[u] = Nothing
        /\ \A u \in Tabs : registry'[u]["tool"] \subseteq registry[u]["tool"] \cup {n}
    BY <2>1, <2>2, WithFacts, TabFacts DEF Names
  <2>4. TabTypes' /\ HiddenInv'
    BY <1>1, <2>3 DEF Inv, TabTypes, HiddenInv, Boot
  <2>5. \A u \in Tabs : phase'[u] = "new" => phase[u] = "new"
    BY <1>1 DEF Inv, TabTypes
  <2>6. UNCHANGED <<pc, addVars, closing, removed>>
    BY <1>1 DEF Boot
  <2> QED BY <2>3, <2>4, <2>5, <2>6, RegistryStep, TabFacts
<1>2. CASE /\ \E cached \in BOOLEAN : stub' = [stub EXCEPT ![t] = ~cached]
           /\ phase' = [phase EXCEPT ![t] = "placing"]
           /\ Goes(Bg(t), IF closing = "open" THEN "check" ELSE "done")
           /\ UNCHANGED registry
  <2> DEFINE p == IF closing = "open" THEN "check" ELSE "done"
  <2>1. pc[Bg(t)] = "off" /\ Bg(t) \in Callers
    BY CallerFacts DEF Inv, BootInv, Boot
  <2>2. mine' = [mine EXCEPT ![Bg(t)] = mine[Bg(t)]] /\ got' = [got EXCEPT ![Bg(t)] = got[Bg(t)]]
        /\ mine[Bg(t)] \in 0 .. MaxSpawns /\ got[Bg(t)] \in Outcomes
    BY <2>1, TabFacts DEF Boot, addVars
  <2>3. TabTypes' /\ HiddenInv'
    BY <1>2 DEF Inv, TabTypes, HiddenInv, Boot
  <2>4. /\ UNCHANGED <<spawning, spawns, result, server, closing, removed>>
        /\ phase'[t] # "new" /\ \A u \in Tabs : phase'[u] = "new" => phase[u] = "new"
    BY <1>2 DEF Boot, addVars, Inv, TabTypes
  <2>5. p \in Places \ (Owning \cup {"wait"}) /\ p \notin {"got", "add"}
        /\ pc' = [pc EXCEPT ![Bg(t)] = p]
        /\ (closing = "returned" => p = "done")
    BY <1>2 DEF Places, Adding, Owning, Goes
  <2> HIDE DEF p
  <2> QED BY <1>2, <2>1, <2>2, <2>3, <2>4, <2>5, SessionStep, TabFacts DEF Owning
<1> QED BY <1>1, <1>2 DEF Boot

LEMMA PlaceStep ==
  ASSUME Inv, NEW t \in Tabs, Place(t)
  PROVE  Inv'
<1>1. PICK name \in Names : registry' = With(registry, t, name, {0})
  BY DEF Place, Names
<1>2. 0 \in 0 .. MaxSpawns
  BY McpHostAssumption, SMT
<1>3. /\ registry' \in Registries
      /\ \A u \in suspended : u \in Tabs => registry'[u] = Nothing
      /\ \A u \in Tabs : registry'[u]["tool"] \subseteq registry[u]["tool"] \cup {0}
  BY <1>1, <1>2, WithFacts, TabFacts
<1>4. TabTypes' /\ HiddenInv'
  BY <1>3 DEF Inv, TabTypes, HiddenInv, Place
<1>5. UNCHANGED <<pc, addVars, closing, removed>>
      /\ \A u \in Tabs : phase'[u] = "new" => phase[u] = "new"
  BY DEF Place, Inv, TabTypes
<1> QED BY <1>3, <1>4, <1>5, RegistryStep, TabFacts

\* The tools a call of Add ends with are those of a server that is there.
LEMMA ToolsOfFacts ==
  ASSUME Inv, NEW c \in Callers, pc[c] = "got", NEW n \in ToolsOf(c)
  PROVE  n \in 0 .. MaxSpawns /\ (~removed /\ closing = "open" => n \in Connected)
<1>1. CASE got[c] = "tools"
  BY <1>1, TabFacts DEF ToolsOf, Inv, ToldInv, Told
<1>2. CASE got[c] # "tools"
  <2>1. n \in Connected
    BY <1>2 DEF ToolsOf
  <2>2. n \in 0 .. MaxSpawns
    BY <2>1, TabFacts, SMT
  <2> QED BY <2>1, <2>2
<1> QED BY <1>1, <1>2

LEMMA BgAddsStep ==
  ASSUME Inv, NEW t \in Tabs, BgAdds(t)
  PROVE  Inv'
<1> DEFINE c == Bg(t)
<1> DEFINE p == "done"
<1> DEFINE n == 0
<1> DEFINE o == got[c]
<1>1. c \in Callers /\ t \in Tabs /\ pc[c] = "add"
  BY CallerFacts DEF BgAdds
<1>2. mine[c] \in 0 .. MaxSpawns /\ got' = [got EXCEPT ![c] = o] /\ o \in Outcomes
  BY <1>1, TabFacts DEF BgAdds
<1>3. /\ registry' \in Registries
      /\ \A u \in suspended : u \in Tabs => registry'[u] = Nothing
      /\ \A u \in Tabs : registry'[u]["tool"] \subseteq registry[u]["tool"] \cup {mine[c]}
  <2>1. registry' = With(registry, t, "tool", {mine[c]})
    BY DEF BgAdds
  <2>2. "tool" \in Names
    BY DEF Names
  <2> QED BY <1>1, <1>2, <2>1, <2>2, WithFacts, TabFacts
<1>4. ~removed /\ closing = "open" => mine[c] \in Connected
  BY <1>1 DEF Inv, ToldInv, Told
<1>5. TabTypes' /\ HiddenInv'
  BY <1>3 DEF Inv, TabTypes, HiddenInv, BgAdds
<1>6. UNCHANGED <<spawning, spawns, result, server, closing, removed>> /\ phase' = phase
  BY DEF BgAdds
<1>7. phase[t] # "new" /\ closing # "returned"
  BY <1>1 DEF Inv, BootInv, CloseInv, Running
<1>8. pc' = [pc EXCEPT ![c] = p] /\ mine' = [mine EXCEPT ![c] = n]
  BY DEF BgAdds, Goes
<1>9. /\ p \in Places \ (Owning \cup {"wait"}) /\ p \notin {"got", "add"}
      /\ n \in 0 .. MaxSpawns /\ p \in {"off", "done"}
  BY McpHostAssumption, SMT DEF Places, Owning
<1>10. (~removed /\ closing = "open") =>
          \A u \in Tabs : registry'[u]["tool"] \subseteq Connected \cup {0}
  BY <1>3, <1>4, TabFacts
<1>11. pc[c] \notin Owning \cup {"wait"}
  BY <1>1 DEF Owning
<1>12. /\ p = "got" => o # "tools"
       /\ p = "add" /\ ~removed /\ closing = "open" => n \in Connected
       /\ c = Bg(t) \/ \A u \in Tabs : c # Bg(u)
       /\ c = Bg(t) => /\ phase'[t] # "new"
                       /\ closing = "returned" => p \in {"off", "done"}
       /\ \A u \in Tabs : phase'[u] = "new" => phase[u] = "new"
  BY <1>6, <1>7, <1>9
<1> HIDE DEF c, p, n, o
<1> QED BY <1>1, <1>2, <1>5, <1>6, <1>7, <1>8, <1>9, <1>10, <1>11, <1>12, SessionStep

LEMMA UserAddsStep ==
  ASSUME Inv, NEW t \in Users, UserAdds(t)
  PROVE  Inv'
<1> DEFINE c == User(t)
<1> DEFINE p == "off"
<1> DEFINE n == 0
<1> DEFINE o == got[c]
<1>1. c \in Callers /\ t \in Tabs /\ pc[c] = "add"
  BY CallerFacts DEF UserAdds
<1>2. mine[c] \in 0 .. MaxSpawns /\ got' = [got EXCEPT ![c] = o] /\ o \in Outcomes
  BY <1>1, TabFacts DEF UserAdds
<1>3. /\ registry' \in Registries
      /\ \A u \in suspended : u \in Tabs => registry'[u] = Nothing
      /\ \A u \in Tabs : registry'[u]["tool"] \subseteq registry[u]["tool"] \cup {mine[c]}
  <2>1. registry' = With(registry, t, "tool", {mine[c]})
    BY DEF UserAdds
  <2>2. "tool" \in Names
    BY DEF Names
  <2> QED BY <1>1, <1>2, <2>1, <2>2, WithFacts, TabFacts
<1>4. ~removed /\ closing = "open" => mine[c] \in Connected
  BY <1>1 DEF Inv, ToldInv, Told
<1>5. TabTypes' /\ HiddenInv'
  BY <1>3 DEF Inv, TabTypes, HiddenInv, UserAdds
<1>6. UNCHANGED <<spawning, spawns, result, server, closing, removed>> /\ phase' = phase
  BY DEF UserAdds
<1>7. pc' = [pc EXCEPT ![c] = p] /\ mine' = [mine EXCEPT ![c] = n]
  BY DEF UserAdds, Goes
<1>8. /\ p \in Places \ (Owning \cup {"wait"}) /\ p \notin {"got", "add"}
      /\ n \in 0 .. MaxSpawns
  BY McpHostAssumption, SMT DEF Places, Owning
<1>9. \A u \in Tabs : c # Bg(u)
  BY CallerFacts
<1>10. (~removed /\ closing = "open") =>
          \A u \in Tabs : registry'[u]["tool"] \subseteq Connected \cup {0}
  BY <1>3, <1>4, TabFacts
<1>11. pc[c] \notin Owning \cup {"wait"}
  BY <1>1 DEF Owning
<1>12. /\ p = "got" => o # "tools"
       /\ p = "add" /\ ~removed /\ closing = "open" => n \in Connected
       /\ c = Bg(t) \/ \A u \in Tabs : c # Bg(u)
       /\ c = Bg(t) => /\ phase'[t] # "new"
                       /\ closing = "returned" => p \in {"off", "done"}
       /\ \A u \in Tabs : phase'[u] = "new" => phase[u] = "new"
  BY <1>1, <1>6, <1>8, <1>9
<1> HIDE DEF c, p, n, o
<1> QED BY <1>1, <1>2, <1>5, <1>6, <1>7, <1>8, <1>9, <1>10, <1>11, <1>12, SessionStep

LEMMA BgResolvesStep ==
  ASSUME Inv, NEW t \in Tabs, BgResolves(t)
  PROVE  Inv'
<1> DEFINE c == Bg(t)
<1>1. c \in Callers /\ pc[c] = "got" /\ got' = [got EXCEPT ![c] = "failed"]
  BY CallerFacts DEF BgResolves
<1>2. PICK n \in 0 .. MaxSpawns, p \in {"add", "done"} :
         /\ mine' = [mine EXCEPT ![c] = n] /\ pc' = [pc EXCEPT ![c] = p]
         /\ p = "add" /\ ~removed /\ closing = "open" => n \in Connected
  <2>1. CASE \E n \in ToolsOf(c) : mine' = [mine EXCEPT ![c] = n] /\ Goes(c, "add")
    BY <1>1, <2>1, ToolsOfFacts DEF Goes
  <2>2. CASE mine' = [mine EXCEPT ![c] = 0] /\ Goes(c, "done")
    <3>1. 0 \in 0 .. MaxSpawns
      BY McpHostAssumption, SMT
    <3> QED BY <2>2, <3>1 DEF Goes
  <2> QED BY <2>1, <2>2 DEF BgResolves
<1>3. /\ registry' \in Registries
      /\ \A u \in suspended : u \in Tabs => registry'[u] = Nothing
      /\ \A u \in Tabs : registry'[u]["tool"] \subseteq registry[u]["tool"]
  <2>1. registry' = registry \/ registry' = Without(registry, t)
    BY DEF BgResolves
  <2> QED BY <2>1, WithoutFacts, TabFacts DEF HiddenInv
<1>4. TabTypes' /\ HiddenInv'
  BY <1>3 DEF Inv, TabTypes, HiddenInv, BgResolves
<1>5. UNCHANGED <<spawning, spawns, result, server, closing, removed, phase>>
  BY DEF BgResolves
<1>6. phase[t] # "new" /\ closing # "returned"
  BY <1>1 DEF Inv, BootInv, CloseInv, Running
<1>7. p \in Places \ (Owning \cup {"wait"}) /\ p # "got" /\ "failed" \in Outcomes
  BY DEF Places, Owning, Outcomes
<1> QED BY <1>1, <1>2, <1>3, <1>4, <1>5, <1>6, <1>7, SessionStep, TabFacts DEF Owning

LEMMA UserResolvesStep ==
  ASSUME Inv, NEW t \in Users, UserResolves(t)
  PROVE  Inv'
<1> DEFINE c == User(t)
<1>1. c \in Callers /\ t \in Tabs /\ (\A u \in Tabs : c # Bg(u))
      /\ pc[c] = "got" /\ got' = [got EXCEPT ![c] = "failed"]
  BY CallerFacts DEF UserResolves
<1>2. PICK n \in 0 .. MaxSpawns, p \in {"add", "off"} :
         /\ mine' = [mine EXCEPT ![c] = n] /\ pc' = [pc EXCEPT ![c] = p]
         /\ p = "add" /\ ~removed /\ closing = "open" => n \in Connected
  <2>1. CASE \E n \in ToolsOf(c) : mine' = [mine EXCEPT ![c] = n] /\ Goes(c, "add")
    BY <1>1, <2>1, ToolsOfFacts DEF Goes
  <2>2. CASE mine' = [mine EXCEPT ![c] = 0] /\ Goes(c, "off")
    <3>1. 0 \in 0 .. MaxSpawns
      BY McpHostAssumption, SMT
    <3> QED BY <2>2, <3>1 DEF Goes
  <2> QED BY <2>1, <2>2 DEF UserResolves
<1>3. /\ registry' \in Registries
      /\ \A u \in suspended : u \in Tabs => registry'[u] = Nothing
      /\ \A u \in Tabs : registry'[u]["tool"] \subseteq registry[u]["tool"]
  <2>1. registry' = registry \/ registry' = Without(registry, t)
    BY DEF UserResolves
  <2> QED BY <1>1, <2>1, WithoutFacts, TabFacts DEF HiddenInv
<1>4. suspended' \subseteq suspended
  BY DEF UserResolves
<1>5. TabTypes' /\ HiddenInv'
  BY <1>3, <1>4 DEF Inv, TabTypes, HiddenInv, UserResolves
<1>6. UNCHANGED <<spawning, spawns, result, server, closing, removed, phase>>
  BY DEF UserResolves
<1>7. p \in Places \ (Owning \cup {"wait"}) /\ p # "got" /\ "failed" \in Outcomes
  BY DEF Places, Owning, Outcomes
<1> QED BY <1>1, <1>2, <1>3, <1>5, <1>6, <1>7, SessionStep, TabFacts DEF Owning

LEMMA ConnectStep ==
  ASSUME Inv, NEW t \in Users, Connect(t)
  PROVE  Inv'
<1> DEFINE c == User(t)
<1>1. c \in Callers /\ t \in Tabs /\ (\A u \in Tabs : c # Bg(u)) /\ pc[c] = "off"
      /\ pc' = [pc EXCEPT ![c] = "check"]
  BY CallerFacts DEF Connect, Goes
<1>2. PICK n \in 0 .. MaxSpawns, o \in Outcomes :
         mine' = [mine EXCEPT ![c] = n] /\ got' = [got EXCEPT ![c] = o]
  BY <1>1, TabFacts DEF Connect, addVars
<1>3. UNCHANGED <<spawning, spawns, result, server, closing, tabVars>>
  BY DEF Connect, addVars
<1>4. TabTypes' /\ HiddenInv'
  BY <1>3 DEF Inv, TabTypes, HiddenInv, tabVars
<1>5. "check" \in Places \ (Owning \cup {"wait"})
  BY DEF Places, Adding, Owning
<1>6. (~removed /\ closing = "open") =>
          \A u \in Tabs : registry'[u]["tool"] \subseteq Connected \cup {0}
  BY <1>3, TabFacts DEF tabVars
<1>7. pc[c] \notin Owning \cup {"wait"}
  BY <1>1 DEF Owning
<1>8. UNCHANGED <<removed, phase>>
  BY <1>3 DEF tabVars
<1> HIDE DEF c
<1> QED BY <1>1, <1>2, <1>3, <1>4, <1>5, <1>6, <1>7, <1>8, SessionStep

LEMMA HidingStep ==
  ASSUME Inv, NEW t \in Users, DropTools(t) \/ Suspend(t)
  PROVE  Inv'
<1>1. t \in Tabs /\ registry' = Without(registry, t)
  BY CallerFacts DEF DropTools, Suspend
<1>2. /\ registry' \in Registries /\ registry'[t] = Nothing
      /\ \A u \in Tabs : /\ registry'[u]["tool"] \subseteq registry[u]["tool"]
                         /\ u # t => registry'[u] = registry[u]
  BY <1>1, WithoutFacts, TabFacts
<1>3. UNCHANGED <<pc, addVars, closing, phase, stub, removed>>
      /\ suspended' \subseteq suspended \cup {t} /\ dropping' \subseteq dropping
  BY DEF DropTools, Suspend
<1>4. TabTypes' /\ HiddenInv'
  BY <1>1, <1>2, <1>3 DEF Inv, TabTypes, HiddenInv
<1> QED BY <1>2, <1>3, <1>4, RegistryStep, TabFacts

-----------------------------------------------------------------------------
(* The end of a server: a user disconnects it, or the host is closed.      *)

LEMMA EndingStep ==
  ASSUME Inv, (\E t \in Users : Disconnect(t)) \/ CloseEnds
  PROVE  Inv'
<1>1. /\ server' = [n \in Spawns |-> IF n \in Connected THEN "gone" ELSE server[n]]
      /\ UNCHANGED <<pc, mine, got, spawning, spawns, result, phase, stub,
                     registry, suspended>>
      /\ dropping' \subseteq dropping \cup Users
      /\ removed' \in BOOLEAN /\ closing' \in {"open", "closed", "returned"}
  BY DEF Disconnect, CloseEnds, tabVars, Inv, TabTypes, AddInv, AddTypes
<1>2. /\ Connected' = {} /\ server' \in [Spawns -> ServerStates]
      /\ \A n \in Spawns : server'[n] = "starting" => server[n] = "starting"
  BY <1>1 DEF Connected, Inv, AddInv, AddTypes, ServerStates
<1>3. AddInv' /\ TabTypes' /\ BootInv' /\ HiddenInv'
  BY <1>1, <1>2, CallerFacts
  DEF Inv, AddInv, AddTypes, ClaimInv, TabTypes, BootInv, HiddenInv
<1>4. ProcessInv'
  BY <1>1, <1>2 DEF Inv, ProcessInv
<1>5. CloseInv'
  BY <1>1, <1>2 DEF Inv, CloseInv, CloseEnds, Disconnect, Running
<1>6. ToldInv'
  <2>1. CASE Connected = {}
    <3>1. removed' = removed /\ (closing' = "open" => closing = "open")
      BY <2>1 DEF Disconnect, CloseEnds, tabVars, Inv, TabTypes
    <3> QED BY <1>1, <1>2, <2>1, <3>1 DEF Inv, ToldInv, Told
  <2>2. CASE Connected # {}
    <3>1. removed' \/ closing' = "returned"
      BY <2>2 DEF Disconnect, CloseEnds
    <3> QED BY <3>1 DEF ToldInv
  <2> QED BY <2>1, <2>2
<1> QED BY <1>3, <1>4, <1>5, <1>6 DEF Inv

LEMMA CloseBeginsStep == Inv /\ CloseBegins => Inv'
  BY DEF Inv, CloseBegins, AddInv, AddTypes, ClaimInv, TabTypes, ProcessInv, Connected,
         CloseInv, ToldInv, Told, HiddenInv, BootInv, Running, addVars, tabVars

LEMMA InvStep == Inv /\ [Next]_vars => Inv'
<1> SUFFICES ASSUME Inv, [Next]_vars PROVE Inv'
  OBVIOUS
<1>1. CASE UNCHANGED vars
  <2>1. UNCHANGED <<pc, addVars, closing, removed>> /\ UNCHANGED tabVars
    BY <1>1 DEF vars, tabVars
  <2>2. TabTypes' /\ HiddenInv'
    BY <2>1 DEF Inv, TabTypes, HiddenInv, tabVars
  <2> QED BY <2>1, <2>2, RegistryStep, TabFacts DEF tabVars
<1>2. CASE Next
  BY <1>2, AddStep, BootStep, PlaceStep, BgResolvesStep, BgAddsStep, ConnectStep,
     UserResolvesStep, UserAddsStep, HidingStep, EndingStep, CloseBeginsStep DEF Next
<1> QED BY <1>1, <1>2

LEMMA AlwaysInv == Spec => []Inv
  BY InitInv, InvStep, PTL DEF Spec

-----------------------------------------------------------------------------

(* The state of the host and of its sessions is well typed, and the spawn  *)
(* under way has an owner that has yet to publish its result.              *)
THEOREM TypeCorrect == Spec => []TypeOK
<1>1. Inv => TypeOK
  BY DEF Inv, AddInv, AddTypes, ClaimInv, TabTypes, TypeOK, Places, Owning,
         ServerStates, Shown, Registries
<1> QED BY <1>1, AlwaysInv, PTL

(* However many sessions, users and retries start the server, at most one  *)
(* process starts or is connected.                                         *)
THEOREM ServerIsShared == Spec => []OneServer
<1>1. Inv => OneServer
  <2> SUFFICES ASSUME Inv, NEW n \in Spawns, NEW m \in Spawns,
                      {server[n], server[m]} \subseteq {"starting", "connected"}
               PROVE  n = m
    BY DEF OneServer
  <2>1. \A k \in Spawns : server[k] = "starting" => k = spawning /\ Connected = {}
    BY DEF Inv, AddInv, ClaimInv, ProcessInv, Owning
  <2>2. \A k \in Spawns : server[k] = "connected" => k \in Connected
    BY DEF Connected
  <2> QED BY <2>1, <2>2 DEF Inv, ProcessInv
<1> QED BY <1>1, AlwaysInv, PTL

(* Nothing of the server outlives Close, but a process that a user started *)
(* and that this user will close.                                          *)
THEOREM NobodyEscapes == Spec => []NoEscape
<1>1. Inv => NoEscape
  <2> SUFFICES ASSUME Inv, closing = "returned" PROVE NoEscape
    BY DEF NoEscape
  <2>1. Connected = {} /\ \A t \in Tabs : ~Running(t)
    BY DEF Inv, CloseInv
  <2>2. ASSUME NEW n \in Spawns, server[n] = "starting"
        PROVE  \E t \in Users : pc[User(t)] = "handshake" /\ mine[User(t)] = n
    <3>1. PICK c \in Callers : pc[c] = "handshake" /\ mine[c] = n
      BY <2>2 DEF Inv, ProcessInv
    <3>2. \A t \in Tabs : c # Bg(t)
      BY <2>1, <3>1 DEF Running
    <3> QED BY <3>1, <3>2, CallerFacts
  <2> QED BY <2>1, <2>2 DEF NoEscape
<1> QED BY <1>1, AlwaysInv, PTL

(* A session shows the tools of the server that is connected, until a user *)
(* disconnects it, and nothing of a server it hides.                       *)
THEOREM ToolsAreTrue == Spec => []ToolsAreOfTheServer
<1>1. Inv => ToolsAreOfTheServer
  BY DEF Inv, ToldInv, Told, HiddenInv, ToolsAreOfTheServer
<1> QED BY <1>1, AlwaysInv, PTL

=============================================================================
