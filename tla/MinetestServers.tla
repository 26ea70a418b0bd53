-------------------------- MODULE MinetestServers --------------------------
(***************************************************************************)
(* The supervisor of minetest server processes inside MinetestGamesService: *)
(* the three per-port tables it keeps, the operating-system processes they  *)
(* point at, and the HTTP and application handlers that restart and stop    *)
(* servers.                                                                 *)
(*                                                                          *)
(* Node runs one callback at a time.  A callback (a database answer that    *)
(* lets a handler reach the supervisor, a "close" event) runs to its end,   *)
(* and then every continuation it made ready runs before the next callback. *)
(* The requests with pc = "ready" are those continuations: while there is   *)
(* one, only Continue steps happen in the Node process.                     *)
(***************************************************************************)
EXTENDS FiniteSets, Naturals

CONSTANTS Ports,       \* the ports of the worlds
          Shared,      \* ports for which calls may overlap; calls for the
                       \* others are made one after the other
          Requests,    \* handler invocations, reused once they have returned
          Children,    \* identities of spawned processes (bounds the spawns)
          None,        \* an absent map entry
          MaxCrashes   \* bound: how often the Node process dies

ASSUME NoneIsFresh == None \notin Ports \cup Requests \cup Children
ASSUME SharedPorts == Shared \subseteq Ports
ASSUME CrashBound == MaxCrashes \in Nat

VARIABLES
  \* service fields, lost with the Node process
  childProcesses,             \* port -> the child it tracks
  childProcessPromises,       \* port -> the promise, named by its child
  childProcessCloseResolves,  \* port -> the closure, named by its child
  resolved,                   \* children whose promise is resolved
  \* activations of execMinetest and stopMinetestChildProcessByPort
  pc,          \* "idle", "waiting" (await promise) or "ready" (to continue)
  op,          \* "restart" or "stop" (also when idle)
  at,          \* the port of the call
  existed,     \* local childProcessExisted
  promise,     \* local promise, named by its child
  \* the operating system
  proc,        \* "unborn", "running", "exited", "closed" (event delivered)
  boundTo,     \* port a child was spawned for
  signalled,   \* children SIGINT was sent to
  attached,    \* children of the present Node process
  crashes

tables   == <<childProcesses, childProcessPromises,
              childProcessCloseResolves, resolved>>
requests == <<pc, op, at, existed, promise>>
os       == <<proc, boundTo, signalled, attached>>
vars     == <<tables, requests, os, crashes>>

\* Every table names children of this service, every local a port or a child
\* of its call.
TypeOK ==
  /\ childProcesses \in [Ports -> Children \cup {None}]
  /\ childProcessPromises \in [Ports -> Children \cup {None}]
  /\ childProcessCloseResolves \in [Ports -> Children \cup {None}]
  /\ resolved \subseteq Children
  /\ pc \in [Requests -> {"idle", "waiting", "ready"}]
  /\ op \in [Requests -> {"restart", "stop"}]
  /\ at \in [Requests -> Ports \cup {None}]
  /\ existed \in [Requests -> Children \cup {None}]
  /\ promise \in [Requests -> Children \cup {None}]
  /\ proc \in [Children -> {"unborn", "running", "exited", "closed"}]
  /\ boundTo \in [Children -> Ports \cup {None}]
  /\ signalled \subseteq Children
  /\ attached \subseteq Children
  /\ crashes \in 0 .. MaxCrashes

Init ==
  /\ childProcesses = [p \in Ports |-> None]
  /\ childProcessPromises = [p \in Ports |-> None]
  /\ childProcessCloseResolves = [p \in Ports |-> None]
  /\ resolved = {}
  /\ pc = [r \in Requests |-> "idle"]
  /\ op = [r \in Requests |-> "stop"]
  /\ at = [r \in Requests |-> None]
  /\ existed = [r \in Requests |-> None]
  /\ promise = [r \in Requests |-> None]
  /\ proc = [c \in Children |-> "unborn"]
  /\ boundTo = [c \in Children |-> None]
  /\ signalled = {}
  /\ attached = {}
  /\ crashes = 0

-----------------------------------------------------------------------------
Unborn == {c \in Children : proc[c] = "unborn"}

\* No continuation is queued: the event loop may take the next callback.
LoopFree == \A r \in Requests : pc[r] # "ready"

\* Bound: a restart only starts when a child identity is left for its spawn.
CanSpawn ==
  Cardinality(Unborn) >
    Cardinality({r \in Requests : pc[r] # "idle" /\ op[r] = "restart"})

\* (Mutant: the await is forgotten.)
AfterAwaitForgotten(k) == "ready"

\* await promise: suspended until it resolves, or continued in this drain.
AfterAwait(k) == IF k = None \/ k \in resolved THEN "ready" ELSE "waiting"

\* (Mutant: waits without a kill.)
StopChildNoKill(r, p) ==
  LET c == childProcesses[p]
      k == IF c = None THEN None ELSE childProcessPromises[p]
  IN /\ at' = [at EXCEPT ![r] = p]
     /\ existed' = [existed EXCEPT ![r] = c]
     /\ promise' = [promise EXCEPT ![r] = k]
     /\ pc' = [pc EXCEPT ![r] = AfterAwait(k)]
     /\ UNCHANGED <<tables, proc, boundTo, signalled, attached, crashes>>

\* stopMinetestChildProcessByPort, called by execMinetest or by a stop:
\* everything up to its await.  kill() of a process that already ended does
\* nothing.
StopChild(r, p) ==
  LET c == childProcesses[p]
      k == IF c = None THEN None ELSE childProcessPromises[p]
  IN /\ at' = [at EXCEPT ![r] = p]
     /\ existed' = [existed EXCEPT ![r] = c]
     /\ promise' = [promise EXCEPT ![r] = k]
     /\ signalled' = signalled \cup {d \in {c} \ {None} : proc[d] = "running"}
     /\ pc' = [pc EXCEPT ![r] = AfterAwait(k)]
     /\ UNCHANGED <<tables, proc, boundTo, attached, crashes>>

\* The callers' part, see Shared.
MayCall(p) ==
  p \notin Shared => \A r \in Requests : pc[r] # "idle" => at[r] # p

\* A handler that knows its port calls execMinetest.
CallExec(r, p) ==
  /\ LoopFree /\ pc[r] = "idle" /\ MayCall(p) /\ CanSpawn
  /\ op' = [op EXCEPT ![r] = "restart"]
  /\ StopChild(r, p)

\* stopMinetestServerByGameWorldName, once it has looked the port up.
CallStop(r, p) ==
  /\ LoopFree /\ pc[r] = "idle" /\ MayCall(p)
  /\ op' = [op EXCEPT ![r] = "stop"]
  /\ StopChild(r, p)

\* execMinetest after its await: spawn, and overwrite the three tables.
Spawn(p) ==
  \E c \in Unborn :
    /\ proc' = [proc EXCEPT ![c] = "running"]
    /\ boundTo' = [boundTo EXCEPT ![c] = p]
    /\ attached' = attached \cup {c}
    /\ childProcesses' = [childProcesses EXCEPT ![p] = c]
    /\ childProcessCloseResolves' = [childProcessCloseResolves EXCEPT ![p] = c]
    /\ childProcessPromises' = [childProcessPromises EXCEPT ![p] = c]

\* The handler forgets its locals when it returns.
Return(r) ==
  /\ pc' = [pc EXCEPT ![r] = "idle"]
  /\ op' = [op EXCEPT ![r] = "stop"]
  /\ at' = [at EXCEPT ![r] = None]
  /\ existed' = [existed EXCEPT ![r] = None]
  /\ promise' = [promise EXCEPT ![r] = None]

ContinueExec(r) ==
  /\ pc[r] = "ready" /\ op[r] = "restart"
  /\ Spawn(at[r])
  /\ Return(r)
  /\ UNCHANGED <<resolved, signalled, crashes>>

ContinueStop(r) ==
  /\ pc[r] = "ready" /\ op[r] = "stop"
  /\ Return(r)
  /\ UNCHANGED <<tables, os, crashes>>

\* The closure stored in childProcessCloseResolves[p] for child k.
CloseResolve(p, k) ==
  /\ childProcesses' = [childProcesses EXCEPT ![p] = IF @ = k THEN None ELSE @]
  /\ childProcessPromises' =
       [childProcessPromises EXCEPT ![p] = IF @ = k THEN None ELSE @]
  /\ resolved' = resolved \cup ({k} \ {None})
  /\ pc' = [r \in Requests |-> IF pc[r] = "waiting" /\ promise[r] = k
                               THEN "ready" ELSE pc[r]]

\* childProcess.on('close'): calls whatever closure is stored for the port,
\* which is the one of the latest child spawned there (None: nothing).
OnClose(c) ==
  /\ LoopFree /\ c \in attached /\ proc[c] = "exited"
  /\ proc' = [proc EXCEPT ![c] = "closed"]
  /\ CloseResolve(boundTo[c], childProcessCloseResolves[boundTo[c]])
  /\ UNCHANGED <<childProcessCloseResolves, op, at, existed, promise,
                 boundTo, signalled, attached, crashes>>

\* A server process ends: because of SIGINT, or by itself.
Exit(c) ==
  /\ proc[c] = "running"
  /\ proc' = [proc EXCEPT ![c] = "exited"]
  /\ UNCHANGED <<tables, requests, boundTo, signalled, attached, crashes>>

\* The Node process dies and is started again.  Nothing stops the servers
\* (shutdown hooks are not enabled); the new process knows none of them.
Crash ==
  /\ crashes < MaxCrashes
  /\ crashes' = crashes + 1
  /\ childProcesses' = [p \in Ports |-> None]
  /\ childProcessPromises' = [p \in Ports |-> None]
  /\ childProcessCloseResolves' = [p \in Ports |-> None]
  /\ resolved' = {}
  /\ pc' = [r \in Requests |-> "idle"]
  /\ op' = [r \in Requests |-> "stop"]
  /\ at' = [r \in Requests |-> None]
  /\ existed' = [r \in Requests |-> None]
  /\ promise' = [r \in Requests |-> None]
  /\ attached' = {}
  /\ UNCHANGED <<proc, boundTo, signalled>>

Next ==
  \/ \E r \in Requests, p \in Ports : CallExec(r, p)
  \/ \E r \in Requests, p \in Ports : CallStop(r, p)
  \/ \E r \in Requests : ContinueExec(r)
  \/ \E r \in Requests : ContinueStop(r)
  \/ \E c \in Children : OnClose(c)
  \/ \E c \in Children : Exit(c)
  \/ Crash

Spec == Init /\ [][Next]_vars

-----------------------------------------------------------------------------
(* Safety.  The close handler looks its closure up by port, not by child,  *)
(* so nothing below follows from one handler alone.                        *)

\* The three tables of a port never come apart: a tracked child is the one
\* whose promise is awaited and whose closure the next close event runs.
\* execMinetest fills them one by one; the closure of one child clears them
\* on the close of any child of the port.
TablesAgree ==
  \A p \in Ports :
    /\ childProcessPromises[p] = childProcesses[p]
    /\ childProcesses[p] # None =>
         childProcessCloseResolves[p] = childProcesses[p]

\* /runnings never lists a port whose server is gone for good: the child of
\* childProcesses belongs to this Node process and this port, and its close
\* event, which will remove it, is still to come.
RunningsNotStale ==
  \A p \in Ports : childProcesses[p] # None =>
    /\ childProcesses[p] \in attached
    /\ boundTo[childProcesses[p]] = p
    /\ proc[childProcesses[p]] \in {"running", "exited"}

\* No lost wakeup: a handler suspended on a promise waits for the child the
\* port still tracks, SIGINT was sent to it or it has ended already, and the
\* closure that will resolve the promise has not been overwritten by the
\* spawn of another handler.
NoLostWakeup ==
  \A r \in Requests : pc[r] = "waiting" =>
    /\ promise[r] # None
    /\ promise[r] \notin resolved
    /\ childProcesses[at[r]] = promise[r]
    /\ childProcessCloseResolves[at[r]] = promise[r]
    /\ promise[r] \in signalled \/ proc[promise[r]] = "exited"

\* While continuations of a port run, nobody is suspended on that port: the
\* close event that made them ready resolved every wait of the port, and no
\* handler starts to wait before the drain is over.
OneDrain ==
  \A r, s \in Requests :
    pc[r] = "ready" /\ pc[s] = "waiting" => at[r] # at[s]

\* A server a running continuation may replace was spawned in the same drain:
\* no stop has been asked of it.
ReplacedIsNew ==
  \A r \in Requests :
    pc[r] = "ready" => childProcesses[at[r]] \notin signalled

\* What the tables and locals refer to exists and belongs to the port.
References ==
  /\ \A p \in Ports : childProcessCloseResolves[p] # None =>
       /\ boundTo[childProcessCloseResolves[p]] = p
       /\ proc[childProcessCloseResolves[p]] # "unborn"
  /\ \A p \in Ports : childProcesses[p] \notin resolved
  /\ \A c \in resolved \cup signalled : proc[c] # "unborn"
  /\ \A c \in attached : boundTo[c] \in Ports
  /\ \A r \in Requests : pc[r] # "idle" => at[r] \in Ports

\* The inductive invariant behind the properties of this section.
IInv ==
  TypeOK /\ TablesAgree /\ RunningsNotStale /\ NoLostWakeup /\ OneDrain
    /\ ReplacedIsNew /\ References

\* A server that was told to stop keeps its slot until its promise resolves;
\* a concurrent restart never spawns over it.
StoppingKeepsSlot ==
  [][\A p \in Ports :
       LET c == childProcesses[p]
       IN c \in signalled /\ childProcesses'[p] # c /\ crashes' = crashes
            => childProcesses'[p] = None /\ c \in resolved']_vars

\* On a port whose calls do not overlap, every server whose end the supervisor
\* has not seen is tracked, hence can be stopped, and there is at most one;
\* whatever happens on other ports, until the Node process dies.
ServersAreTracked ==
  crashes = 0 =>
    \A c \in Children :
      boundTo[c] \in Ports \ Shared /\ proc[c] \in {"running", "exited"} =>
        childProcesses[boundTo[c]] = c

StopsWaitOn(P) ==
  \A r \in Requests :
    at[r] \in P /\ pc[r] = "ready" /\ existed[r] # None =>
      proc[existed[r]] = "closed"

\* On such a port the stop that a handler waited for is over only when the
\* process it killed has closed, so that the new server, or the removal of
\* the world, finds the old server gone.
ExclusiveStopWaits == crashes = 0 => StopsWaitOn(Ports \ Shared)

\* "Waiting for child process to close": the same for every port.  It does not
\* hold where calls overlap: the close of an old child resolves the promise of
\* a new one.
StopWaitsForClose == StopsWaitOn(Ports)

=============================================================================
