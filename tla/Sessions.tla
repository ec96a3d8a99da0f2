------------------------------ MODULE Sessions ------------------------------
(***************************************************************************)
(* Sessions of the proxy over HTTP: session_manager.go, pid_registry.go    *)
(* and what they start and stop (server.go).  Every initialize request     *)
(* runs Create in a goroutine of its own, which starts the servers of the  *)
(* configuration one after the other, files the session and tells the      *)
(* sensor its PIDs; one sweeper expires idle sessions.  Both hold the      *)
(* manager's lock for single map operations only.                          *)
(*                                                                         *)
(* A process keeps its PID until it has been waited for, which only Stop   *)
(* does; after that the number is free for the next process.  Tools are    *)
(* represented by one name that several servers may offer.                 *)
(***************************************************************************)
EXTENDS Integers, Sequences, FiniteSets, Lists

CONSTANTS
  SessionIDs,     \* sessions, one for each initialize request
  PIDs,           \* process numbers
  NumServers,     \* length of the configuration's server list
  MaxConcurrent,  \* sessions.max_concurrent, 0 for no limit
  None

ASSUME SessionsAssumption ==
  /\ PIDs \subseteq Nat /\ NumServers \in Nat /\ MaxConcurrent \in Nat
  /\ None \notin SessionIDs /\ None \notin PIDs

Steps == {"new", "starting", "spawned", "failing", "failed", "refused", "started",
          "listed", "watched", "created"}
ProcessKey == [pid : PIDs, start : Nat]

VARIABLES
  step,        \* where Create(s) stands
  registered,  \* the runtime's list of started servers
  route,       \* toolRoute: the server (its place in the list) that owns the tool
  runtimes,    \* the manager's sessions
  mcpSessions, \* MCP session ids bound to a session
  idle,        \* sessions past idle_timeout
  entries,     \* PIDRegistry.entries
  byPID,       \* PIDRegistry.byPID
  watched,     \* PIDs handed to OnWatch and not yet to OnUnwatch
  holder,      \* who holds each PID
  starts,      \* processes that have had this number: their start time
  sweep,       \* the sweeper: what it collected, what it is cleaning up
  orphaned,    \* history: PIDs whose registration nobody will undo
  overtaken    \* history: sessions cleaned up before Create had returned

sessionsVars == <<step, registered, route, runtimes, mcpSessions, idle, entries, byPID, watched,
                  holder, starts, sweep, orphaned, overtaken>>
registry == <<entries, byPID>>
maps == <<runtimes, mcpSessions>>
history == <<orphaned, overtaken>>

PidsOf(s) == {registered[s][i].pid : i \in DOMAIN registered[s]}
-----------------------------------------------------------------------------
(* PIDRegistry.Lookup: the first key of the number that still has an       *)
(* entry, whether or not it is the key of the process that is alive.       *)
Lookup(p) ==
  LET known == {i \in DOMAIN byPID[p] : \E e \in entries : e.key = byPID[p][i]}
  IN IF known = {}
     THEN None
     ELSE LET first == CHOOSE i \in known : \A j \in known : i <= j
          IN (CHOOSE e \in entries : e.key = byPID[p][first]).session

RegistryAdd(key, s) ==
  /\ entries' = entries \cup {[key |-> key, session |-> s]}
  /\ byPID' = [byPID EXCEPT ![key.pid] = Append(@, key)]

(* Mutant: the index by number is kept, and with it the older key.         *)
RegistryRemoveNothing(keys) == UNCHANGED registry

RegistryRemove(keys) ==
  /\ entries' = {e \in entries : e.key \notin keys}
  /\ byPID' = [p \in PIDs |-> Without(byPID[p], keys)]
-----------------------------------------------------------------------------
Creating(s) == step[s] \in {"starting", "spawned", "started"}

CapReached == MaxConcurrent > 0 /\ Cardinality(runtimes) >= MaxConcurrent

CheckCap(s) ==
  /\ step[s] = "new"
  /\ step' = [step EXCEPT ![s] = IF CapReached THEN "refused" ELSE "starting"]
  /\ UNCHANGED <<registered, route, maps, idle, registry, watched, holder, starts, sweep,
                 orphaned, overtaken>>

(* The kernel hands out numbers it has not used before in their order.     *)
Free(p) == holder[p] = None /\ (starts[p] = 0 => \A q \in PIDs : q < p => starts[q] > 0)

(* startAndInit: the process is started and its PID registered, ...        *)
StartServer(s, p) ==
  LET key == [pid |-> p, start |-> starts[p] + 1]
  IN /\ step[s] = "starting" /\ Len(registered[s]) < NumServers
     /\ Free(p)
     /\ holder' = [holder EXCEPT ![p] = s]
     /\ starts' = [starts EXCEPT ![p] = @ + 1]
     /\ registered' = [registered EXCEPT ![s] = Append(@, key)]
     /\ RegistryAdd(key, s)
     /\ step' = [step EXCEPT ![s] = "spawned"]
     /\ UNCHANGED <<route, maps, idle, watched, sweep, history>>

(* registerTool: the first server that offers a tool owns it.              *)
OwnerAfter(s) == IF route[s] = 0 THEN Len(registered[s]) ELSE route[s]

(* ... and its handshake and its list of tools are awaited.                *)
InitServer(s, offersTool) ==
  /\ step[s] = "spawned"
  /\ step' = [step EXCEPT ![s] = "starting"]
  /\ route' = [route EXCEPT ![s] = IF offersTool THEN OwnerAfter(s) ELSE @]
  /\ UNCHANGED <<registered, maps, idle, registry, watched, holder, starts, sweep, history>>

(* The process does not start, or it does not answer as it should.         *)
StartFails(s) ==
  /\ step[s] = "spawned" \/ (step[s] = "starting" /\ Len(registered[s]) < NumServers)
  /\ step' = [step EXCEPT ![s] = "failing"]
  /\ UNCHANGED <<registered, route, maps, idle, registry, watched, holder, starts, sweep, history>>

(* stopRuntime: every server is stopped and waited for.                    *)
Released(s) == [p \in PIDs |-> IF holder[p] = s THEN None ELSE holder[p]]

(* Create gives up: the servers are stopped, their registrations stay.     *)
Abandon(s) ==
  /\ step[s] = "failing"
  /\ step' = [step EXCEPT ![s] = "failed"]
  /\ holder' = Released(s)
  /\ orphaned' = orphaned \cup PidsOf(s)
  /\ UNCHANGED <<registered, route, maps, idle, registry, watched, starts, sweep, overtaken>>

AddRuntime(s) ==
  /\ step[s] = "starting" /\ Len(registered[s]) = NumServers
  /\ step' = [step EXCEPT ![s] = "listed"]
  /\ runtimes' = runtimes \cup {s}
  /\ UNCHANGED <<registered, route, mcpSessions, idle, registry, watched, holder, starts, sweep, history>>

WatchRuntimePIDs(s) ==
  /\ step[s] = "listed"
  /\ step' = [step EXCEPT ![s] = "watched"]
  /\ watched' = watched \cup PidsOf(s)
  /\ UNCHANGED <<registered, route, maps, idle, registry, holder, starts, sweep, history>>

(* CreateMCP.                                                              *)
BindMCP(s) ==
  /\ step[s] = "watched"
  /\ step' = [step EXCEPT ![s] = "created"]
  /\ mcpSessions' = mcpSessions \cup {s}
  /\ UNCHANGED <<registered, route, runtimes, idle, registry, watched, holder, starts, sweep, history>>
-----------------------------------------------------------------------------
(* A session is idle when nothing has touched it for idle_timeout, counted *)
(* from the moment its Create passed the check.                            *)
GoIdle(s) ==
  /\ ~idle[s] /\ (Creating(s) \/ s \in runtimes)
  /\ idle' = [idle EXCEPT ![s] = TRUE]
  /\ UNCHANGED <<step, registered, route, maps, registry, watched, holder, starts, sweep, history>>

(* A request names the session (GetByMCP) and touches it.                  *)
Touch(s) ==
  /\ s \in mcpSessions \cap runtimes /\ idle[s]
  /\ idle' = [idle EXCEPT ![s] = FALSE]
  /\ UNCHANGED <<step, registered, route, maps, registry, watched, holder, starts, sweep, history>>

(* expireIdle: collect under the read lock, then clean up one by one.      *)
CollectExpired ==
  /\ sweep.todo = {} /\ sweep.at = "idle"
  /\ {s \in runtimes : idle[s]} # {}
  /\ sweep' = [sweep EXCEPT !.todo = {s \in runtimes : idle[s]}]
  /\ UNCHANGED <<step, registered, route, maps, idle, registry, watched, holder, starts, history>>

(* Cleanup: out of the maps, out of the registry, out of the sensor's      *)
(* filter, then stopped.                                                   *)
CleanupMaps(s) ==
  /\ s \in sweep.todo /\ sweep.at = "idle"
  /\ sweep' = [todo |-> sweep.todo \ {s}, session |-> s, at |-> "removed"]
  /\ runtimes' = runtimes \ {s}
  /\ mcpSessions' = mcpSessions \ {s}
  /\ overtaken' = IF step[s] # "created" THEN overtaken \cup {s} ELSE overtaken
  /\ UNCHANGED <<step, registered, route, idle, registry, watched, holder, starts, orphaned>>

CleanupRegistry ==
  /\ sweep.at = "removed"
  /\ sweep' = [sweep EXCEPT !.at = "unregistered"]
  /\ RegistryRemove({registered[sweep.session][i] : i \in DOMAIN registered[sweep.session]})
  /\ UNCHANGED <<step, registered, route, maps, idle, watched, holder, starts, history>>

(* Mutant: the sensor is not told.                                         *)
UnwatchNobody(s) == {}

Unwatched(s) == PidsOf(s)

CleanupWatch ==
  /\ sweep.at = "unregistered"
  /\ sweep' = [sweep EXCEPT !.at = "unwatched"]
  /\ watched' = watched \ Unwatched(sweep.session)
  /\ UNCHANGED <<step, registered, route, maps, idle, registry, holder, starts, history>>

(* Mutant: the processes are left running.                                 *)
StopNone(s) == holder

Stopped(s) == Released(s)

CleanupStop ==
  /\ sweep.at = "unwatched"
  /\ sweep' = [sweep EXCEPT !.at = "idle", !.session = None]
  /\ holder' = Stopped(sweep.session)
  /\ UNCHANGED <<step, registered, route, maps, idle, registry, watched, starts, history>>
-----------------------------------------------------------------------------
SessionsInit ==
  /\ step = [s \in SessionIDs |-> "new"]
  /\ registered = [s \in SessionIDs |-> <<>>]
  /\ route = [s \in SessionIDs |-> 0]
  /\ runtimes = {} /\ mcpSessions = {}
  /\ idle = [s \in SessionIDs |-> FALSE]
  /\ entries = {} /\ byPID = [p \in PIDs |-> <<>>]
  /\ watched = {}
  /\ holder = [p \in PIDs |-> None]
  /\ starts = [p \in PIDs |-> 0]
  /\ sweep = [todo |-> {}, session |-> None, at |-> "idle"]
  /\ orphaned = {} /\ overtaken = {}

Create(s) ==
  \/ CheckCap(s) \/ StartFails(s) \/ Abandon(s) \/ AddRuntime(s) \/ WatchRuntimePIDs(s)
  \/ BindMCP(s)
  \/ \E p \in PIDs : StartServer(s, p)
  \/ \E offersTool \in BOOLEAN : InitServer(s, offersTool)

Sweeper ==
  \/ CollectExpired
  \/ \E s \in SessionIDs : CleanupMaps(s)
  \/ CleanupRegistry \/ CleanupWatch \/ CleanupStop

SessionsNext ==
  \/ \E s \in SessionIDs : Create(s) \/ GoIdle(s) \/ Touch(s)
  \/ Sweeper

SessionsSpec == SessionsInit /\ [][SessionsNext]_sessionsVars

(* The ticker fires every minute and Stop kills what does not end.         *)
SessionsFairSpec == SessionsSpec /\ WF_sessionsVars(Sweeper)
-----------------------------------------------------------------------------
SessionsTypeOK ==
  /\ step \in [SessionIDs -> Steps]
  /\ \A s \in SessionIDs : registered[s] \in Seq(ProcessKey) /\ Len(registered[s]) <= NumServers
  /\ route \in [SessionIDs -> 0 .. NumServers]
  /\ mcpSessions \subseteq SessionIDs /\ runtimes \subseteq SessionIDs
  /\ idle \in [SessionIDs -> BOOLEAN]
  /\ \A e \in entries : e.key \in ProcessKey /\ e.session \in SessionIDs
  /\ \A p \in PIDs : byPID[p] \in Seq(ProcessKey)
  /\ watched \subseteq PIDs
  /\ holder \in [PIDs -> SessionIDs \cup {None}]
  /\ starts \in [PIDs -> Nat]
  /\ sweep.todo \subseteq SessionIDs /\ sweep.session \in SessionIDs \cup {None}
  /\ sweep.at \in {"idle", "removed", "unregistered", "unwatched"}
  /\ orphaned \subseteq PIDs /\ overtaken \subseteq SessionIDs

(* A PID the sensor reports is attributed to the session whose server it   *)
(* is, however the number was used before, for as long as the session is   *)
(* filed; numbers a failed Create left registered are the exception.       *)
LookupRight ==
  \A s \in runtimes, p \in PIDs : holder[p] = s /\ p \notin orphaned => Lookup(p) = s

(* The sensor and the sessions agree: the servers of every session a       *)
(* request can name are alive, watched and its own, and a number is        *)
(* watched only while it belongs to a session that is filed or being       *)
(* cleaned up.  Sessions cleaned up before their Create had returned are   *)
(* the exception.                                                          *)
WatchFollowsSessions ==
  /\ \A s \in mcpSessions \ overtaken :
       s \in runtimes /\ PidsOf(s) \subseteq watched /\ \A p \in PidsOf(s) : holder[p] = s
  /\ \A p \in watched :
       \E s \in (runtimes \cup overtaken \cup {sweep.session}) \ {None} : p \in PidsOf(s)

(* A session nobody touches any more is taken down with its processes and  *)
(* registrations.                                                          *)
IdleReclaimed ==
  \A s \in SessionIDs :
    s \in runtimes /\ idle[s] ~>
      ~idle[s] \/ (\A p \in PIDs : holder[p] # s /\ \A e \in entries : e.session # s)
=============================================================================
