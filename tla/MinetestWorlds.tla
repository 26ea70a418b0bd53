--------------------------- MODULE MinetestWorlds ---------------------------
(***************************************************************************)
(* The handlers of MinetestGamesService around the supervisor: restarting,  *)
(* uploading and deleting a game world, and the restart of all worlds when  *)
(* the application boots.  They share the minetest_world table (which port  *)
(* a world has), the game table (which worlds have a game) and the folders  *)
(* temp/<world> and worlds/<world>.                                         *)
(*                                                                          *)
(* One step per await.  A handler calls the supervisor, MinetestServers, in *)
(* the callback that gives it the port, and goes on in the continuation of  *)
(* that call.                                                               *)
(***************************************************************************)
EXTENDS FiniteSets, Naturals

CONSTANTS Worlds,      \* game names
          Requests,    \* handler invocations, reused once they have returned
          Children,    \* server processes (bounds the spawns)
          None,
          PortsBegin,  \* game.minetest.ports.begin
          MaxRows,     \* bound: rows ever inserted into minetest_world
          MaxCrashes,  \* bound: how often the Node process dies
          Fallible,    \* bound: worlds whose uploads and removals may fail
          Careful,     \* worlds whose clients begin nothing before all work
                       \* for the world is done; other requests may overlap
          ExecEnabled  \* game.minetest.execMinetestEnabled

ASSUME CarefulWorlds == Careful \subseteq Worlds
ASSUME PortNumbers == PortsBegin \in Nat /\ MaxRows \in Nat
ASSUME Bounds == MaxCrashes \in Nat /\ IsFiniteSet(Requests)
ASSUME ExecFlag == ExecEnabled \in BOOLEAN
ASSUME NoneIsFresh == None \notin Nat \cup Worlds \cup Requests \cup Children

VARIABLES
  \* the supervisor, see MinetestServers
  childProcesses, childProcessPromises, childProcessCloseResolves, resolved,
  pc, op, at, existed, promise, proc, boundTo, signalled, attached, crashes,
  \* the handlers and the database
  handler,  \* request -> what it is, does next and remembers
  boot,     \* row ids onApplicationBootstrap still has to restart
  games,    \* worlds that have a game
  withFile, \* games whose file column is not null
  rows,     \* the minetest_world table
  lastRow,  \* its AUTO_INCREMENT counter
  \* the file system and the processes
  worlds,   \* folders worlds/<world> that exist
  temp,     \* folders temp/<world> that exist
  failed,   \* history: worlds whose folder was not removed, or whose upload
            \* failed after it was; until one is removed or an upload succeeds
  serves    \* the world a child was started with

Ports == {PortsBegin + i : i \in 1 .. MaxRows}

\* Calls for any port may overlap.
S == INSTANCE MinetestServers WITH Shared <- Ports

servers ==
  <<childProcesses, childProcessPromises, childProcessCloseResolves, resolved,
    pc, op, at, existed, promise, proc, boundTo, signalled, attached, crashes>>
database == <<games, withFile, rows, lastRow>>
vars == <<servers, handler, boot, database, worlds, temp, failed, serves>>

Kinds == {"restart", "create", "update", "delete", "deleteFiles"}
Uploads == {"create", "update"}
Steps == {"findGame", "findPort", "findStop", "stop", "remove", "worldMt",
          "overview", "copy", "removeTemp", "lookup", "insert", "setPort",
          "writeConf", "exec", "saveGame", "done"}

\* port and row are locals; answered: the response was sent.
Idle == [step |-> "done", kind |-> "restart", world |-> None, port |-> None,
         row |-> 0, answered |-> TRUE]

Locals == [step : Steps, kind : Kinds, world : Worlds \cup {None},
           port : Ports \cup {None}, row : 0 .. MaxRows, answered : BOOLEAN]

\* The types, of the supervisor's variables as well; a file needs a game.
TypeOK ==
  /\ S!TypeOK
  /\ handler \in [Requests -> Locals]
  /\ boot \subseteq 1 .. MaxRows
  /\ withFile \subseteq games /\ games \subseteq Worlds
  /\ rows \subseteq [id : 1 .. MaxRows, world : Worlds, port : Ports \cup {None}]
  /\ lastRow \in 0 .. MaxRows
  /\ worlds \subseteq Worlds /\ temp \subseteq Worlds /\ failed \subseteq Worlds
  /\ serves \in [Children -> Worlds \cup {None}]

Init ==
  /\ S!Init
  /\ handler = [r \in Requests |-> Idle]
  /\ boot = {}
  /\ games = {} /\ withFile = {} /\ rows = {} /\ lastRow = 0
  /\ worlds = {} /\ temp = {} /\ failed = {}
  /\ serves = [c \in Children |-> None]

-----------------------------------------------------------------------------
\* findOneByGameWorldName: the row with the least id (a scan of the primary
\* key; there is no other index).
RowsOf(w) == {x \in rows : x.world = w}
PortOfLatest(w) ==    \* (mutant: the greatest id)
  IF RowsOf(w) = {} THEN None
  ELSE (CHOOSE x \in RowsOf(w) : \A y \in RowsOf(w) : y.id <= x.id).port
PortOf(w) ==
  IF RowsOf(w) = {} THEN None
  ELSE (CHOOSE x \in RowsOf(w) : \A y \in RowsOf(w) : x.id <= y.id).port

Step(r)  == handler[r].step
World(r) == handler[r].world
Busy(r)  == handler[r] # Idle

\* The clients' part: see Careful.
MayBegin(r, w) ==
  /\ ~Busy(r)
  /\ w \in Careful => \A s \in Requests : Busy(s) => World(s) # w

\* Bounds: a child and a row are left for whoever may still need one.
MayInsert(r) == Busy(r) /\ (PortOf(World(r)) = None \/ Step(r) = "insert")
ChildLeft ==
  Cardinality({c \in Children : proc[c] = "unborn"}) >
    Cardinality({r \in Requests : Busy(r)})
RowLeft(w) ==
  PortOf(w) = None =>
    lastRow + Cardinality({r \in Requests : MayInsert(r)}) < MaxRows

\* Bounds: no failures of files and saves after a crash, and no crash while
\* one has left its traces.
MayFail(r) == World(r) \in Fallible /\ crashes = 0
MayCrash == failed = {}

\* Every handler step but those that the supervisor runs is a callback.
Callback(r, step) == S!LoopFree /\ Step(r) = step

Start(r, kind, w, step, answered) ==
  /\ S!LoopFree
  /\ handler' = [handler EXCEPT ![r] =
       [Idle EXCEPT !.step = step, !.kind = kind, !.world = w,
                    !.answered = answered]]

Goto(r, step) == handler' = [handler EXCEPT ![r].step = step]

\* The handler has returned; a delete is over when its row is gone as well.
Return(r) ==
  handler' = [handler EXCEPT ![r] =
    IF @.kind = "delete" /\ ~@.answered THEN [@ EXCEPT !.step = "done"] ELSE Idle]

\* A handler rejects; the folder its upload has removed is not put back.
Fail(r) ==
  /\ Return(r)
  /\ failed' = failed \cup IF handler[r].kind \in Uploads THEN {World(r)} ELSE {}

-----------------------------------------------------------------------------
(* Requests arrive. *)

\* POST /minetest-games/restart/:gameWorldName
Restart(r, w) ==
  /\ MayBegin(r, w) /\ ChildLeft /\ RowLeft(w)
  /\ Start(r, "restart", w, "findGame", FALSE)
  /\ UNCHANGED <<servers, boot, database, worlds, temp, failed, serves>>

\* One turn of the forEach of onApplicationBootstrap; nobody awaits it.
BootRestart(r) ==
  \E x \in rows :
    /\ x.id \in boot
    /\ ~Busy(r) /\ ChildLeft /\ RowLeft(x.world)
    /\ boot' = boot \ {x.id}
    /\ Start(r, "restart", x.world, "findGame", TRUE)
    /\ UNCHANGED <<servers, database, worlds, temp, failed, serves>>

\* createGameProject found the name free, or updateGameProject the game; both
\* call uploadGame, which first unpacks the zip into temp.
Upload(r, kind, w) ==
  /\ MayBegin(r, w) /\ ChildLeft /\ RowLeft(w)
  /\ Start(r, kind, w, "findStop", FALSE)
  /\ temp' = temp \cup {w}
  /\ UNCHANGED <<servers, boot, database, worlds, failed, serves>>
Create(r, w) == w \notin games /\ Upload(r, "create", w)
Update(r, w) == w \in games /\ Upload(r, "update", w)

\* delete: deleteGameResourceDirectory is called and not awaited.
Delete(r, w) ==
  /\ w \in games /\ MayBegin(r, w)
  /\ Start(r, "delete", w, "findStop", FALSE)
  /\ UNCHANGED <<servers, boot, database, worlds, temp, failed, serves>>

\* delete, its other half: the game's row goes and the response is sent.
DeleteRow(r) ==
  /\ S!LoopFree
  /\ handler[r].kind = "delete" /\ ~handler[r].answered
  /\ games' = games \ {World(r)}
  /\ withFile' = withFile \ {World(r)}
  /\ handler' = [handler EXCEPT ![r] =
       IF @.step = "done" THEN Idle ELSE [@ EXCEPT !.answered = TRUE]]
  /\ UNCHANGED <<servers, boot, rows, lastRow, worlds, temp, failed, serves>>

\* deleteGameProjectFiles: after the update of the game nothing is awaited.
DeleteFiles(r, w) ==
  /\ w \in games /\ MayBegin(r, w)
  /\ Start(r, "deleteFiles", w, "findStop", TRUE)
  /\ withFile' = withFile \ {w}
  /\ UNCHANGED <<servers, boot, games, rows, lastRow, worlds, temp, failed, serves>>

\* verifyOwner rejects updates and deletes of a game that does not exist.
Refuse(r, w) ==
  /\ w \notin games /\ MayBegin(r, w)
  /\ S!LoopFree
  /\ UNCHANGED vars

-----------------------------------------------------------------------------
(* restartMinetestServerByGameWorldName. *)

FindGame(r) ==
  /\ Callback(r, "findGame")
  /\ \/ World(r) \in games /\ Goto(r, "findPort")
     \/ World(r) \notin games /\ Return(r)        \* NotFoundException
  /\ UNCHANGED <<servers, boot, database, worlds, temp, failed, serves>>

\* Calls execMinetest with a port.
Exec(r, p) ==
  /\ handler' = [handler EXCEPT ![r].step = "exec", ![r].port = p]
  /\ S!CallExec(r, p)

FindPort(r) ==
  /\ Callback(r, "findPort")
  /\ \/ PortOf(World(r)) = None /\ Goto(r, "lookup") /\ UNCHANGED servers
     \/ PortOf(World(r)) # None /\ Exec(r, PortOf(World(r)))
  /\ UNCHANGED <<boot, database, worlds, temp, failed, serves>>

(* saveMinetestConfigForGameWorld. *)

\* (Mutant: a row is inserted without a look.)
LookupSkipped(r) ==
  /\ Callback(r, "lookup")
  /\ Goto(r, "insert")
  /\ UNCHANGED <<servers, boot, database, worlds, temp, failed, serves>>

Lookup(r) ==
  /\ Callback(r, "lookup")
  /\ \/ PortOf(World(r)) = None /\ Goto(r, "insert")
     \/ /\ PortOf(World(r)) # None
        /\ handler' = [handler EXCEPT ![r].step = "writeConf",
                                      ![r].port = PortOf(World(r))]
  /\ UNCHANGED <<servers, boot, database, worlds, temp, failed, serves>>

\* First save: only the name; the database gives the id.
InsertRow(r) ==
  /\ Callback(r, "insert")
  /\ lastRow' = lastRow + 1
  /\ rows' = rows \cup {[id |-> lastRow + 1, world |-> World(r), port |-> None]}
  /\ handler' = [handler EXCEPT ![r].step = "setPort", ![r].row = lastRow + 1]
  /\ UNCHANGED <<servers, boot, games, withFile, worlds, temp, failed, serves>>

\* (Mutants: the id is the port; the port after the ports in use.)
SetPortBare(r) ==
  LET id == handler[r].row
  IN /\ Callback(r, "setPort")
     /\ rows' = {x \in rows : x.id # id} \cup
                {[id |-> id, world |-> World(r), port |-> id]}
     /\ handler' = [handler EXCEPT ![r].step = "writeConf", ![r].port = id]
     /\ UNCHANGED <<servers, boot, games, withFile, lastRow, worlds, temp, failed, serves>>
SetPortNext(r) ==
  LET id == handler[r].row
      p  == PortsBegin + 1 + Cardinality({x \in rows : x.port # None /\ x.id < id})
  IN /\ Callback(r, "setPort")
     /\ rows' = {x \in rows : x.id # id} \cup
                {[id |-> id, world |-> World(r), port |-> p]}
     /\ handler' = [handler EXCEPT ![r].step = "writeConf", ![r].port = p]
     /\ UNCHANGED <<servers, boot, games, withFile, lastRow, worlds, temp, failed, serves>>

\* Second save: the port derived from the id.
SetPort(r) ==
  LET id == handler[r].row
  IN /\ Callback(r, "setPort")
     /\ rows' = {x \in rows : x.id # id} \cup
                {[id |-> id, world |-> World(r), port |-> PortsBegin + id]}
     /\ handler' = [handler EXCEPT ![r].step = "writeConf",
                                   ![r].port = PortsBegin + id]
     /\ UNCHANGED <<servers, boot, games, withFile, lastRow, worlds, temp, failed, serves>>

\* minetest.<port>.conf is written, which may fail.  A restart then calls
\* execMinetest, an upload only where that is enabled.
WriteConf(r) ==
  /\ Callback(r, "writeConf")
  /\ \/ /\ IF handler[r].kind = "restart" \/ ExecEnabled
           THEN Exec(r, handler[r].port)
           ELSE Goto(r, "saveGame") /\ UNCHANGED servers
        /\ UNCHANGED failed
     \/ MayFail(r) /\ Fail(r) /\ UNCHANGED servers
  /\ UNCHANGED <<boot, database, worlds, temp, serves>>

\* execMinetest goes on after its await; so does its caller.
ContinueExec(r) ==
  /\ Step(r) = "exec"
  /\ S!ContinueExec(r)
  /\ serves' = [c \in Children |-> IF proc[c] = "unborn" /\ proc'[c] # "unborn"
                                   THEN World(r) ELSE serves[c]]
  /\ \/ handler[r].kind = "restart" /\ Return(r)
     \/ handler[r].kind # "restart" /\ Goto(r, "saveGame")
  /\ UNCHANGED <<boot, database, worlds, temp, failed>>

-----------------------------------------------------------------------------
(* deleteGameResourceDirectory: stopMinetestServerByGameWorldName, rm. *)

FindStopNever(r) ==    \* (mutant: the folder is removed without a stop)
  /\ Callback(r, "findStop")
  /\ Goto(r, "remove")
  /\ UNCHANGED <<servers, boot, database, worlds, temp, failed, serves>>
FindStop(r) ==
  /\ Callback(r, "findStop")
  /\ \/ /\ PortOf(World(r)) = None
        /\ Goto(r, "remove")                \* no child under no port
        /\ UNCHANGED servers
     \/ /\ PortOf(World(r)) # None
        /\ Goto(r, "stop")
        /\ S!CallStop(r, PortOf(World(r)))
  /\ UNCHANGED <<boot, database, worlds, temp, failed, serves>>

ContinueStop(r) ==
  /\ Step(r) = "stop"
  /\ S!ContinueStop(r)
  /\ Goto(r, "remove")
  /\ UNCHANGED <<boot, database, worlds, temp, failed, serves>>

\* After the folder an upload goes on; a delete has returned.
Removed(r) ==
  \/ handler[r].kind \in Uploads /\ Goto(r, "worldMt")
  \/ handler[r].kind \in {"delete", "deleteFiles"} /\ Return(r)

\* (Mutant: the removal is tried again until there is a folder.)
RemoveFolderRetry(r) ==
  /\ Callback(r, "remove") /\ World(r) \in worlds
  /\ worlds' = worlds \ {World(r)} /\ failed' = failed \ {World(r)}
  /\ Removed(r)
  /\ UNCHANGED <<servers, boot, database, temp, serves>>

\* Every error of rm is taken for a missing folder.
RemoveFolder(r) ==
  /\ Callback(r, "remove")
  /\ \/ worlds' = worlds \ {World(r)} /\ failed' = failed \ {World(r)}
     \/ MayFail(r) /\ worlds' = worlds /\ failed' = failed \cup {World(r)}
  /\ Removed(r)
  /\ UNCHANGED <<servers, boot, database, temp, serves>>

(* The rest of extractGameWorld. *)

\* handleWorldMtFile reads and writes world.mt in temp.
HandleWorldMtFile(r) ==
  /\ Callback(r, "worldMt")
  /\ \/ World(r) \in temp /\ Goto(r, "overview") /\ UNCHANGED failed
     \/ (World(r) \in temp => MayFail(r)) /\ Fail(r)
  /\ UNCHANGED <<servers, boot, database, worlds, temp, serves>>

\* generateAndUploadOverviewImage: the upload goes on without a cover as well.
Overview(r) ==
  /\ Callback(r, "overview")
  /\ Goto(r, "copy")
  /\ UNCHANGED <<servers, boot, database, worlds, temp, failed, serves>>

\* (Mutant: a failed copy goes unnoticed.)
CopyFolderFails(r) ==
  /\ Callback(r, "copy")
  /\ Goto(r, "removeTemp")
  /\ UNCHANGED <<servers, boot, database, worlds, temp, failed, serves>>

\* cp may fail, and leave a part of the folder.
CopyFolder(r) ==
  /\ Callback(r, "copy")
  /\ \/ /\ World(r) \in temp
        /\ worlds' = worlds \cup {World(r)}
        /\ \/ Goto(r, "removeTemp") /\ UNCHANGED failed
           \/ MayFail(r) /\ Fail(r)
     \/ (World(r) \in temp => MayFail(r)) /\ worlds' = worlds /\ Fail(r)
  /\ UNCHANGED <<servers, boot, database, temp, serves>>

\* rm without force fails as well when the folder is gone.
RemoveTemp(r) ==
  /\ Callback(r, "removeTemp")
  /\ \/ /\ World(r) \in temp
        /\ temp' = temp \ {World(r)}
        /\ Goto(r, "lookup") /\ UNCHANGED failed
     \/ (World(r) \in temp => MayFail(r)) /\ temp' = temp /\ Fail(r)
  /\ UNCHANGED <<servers, boot, database, worlds, serves>>

\* createGameProject inserts the game, unless the unique name was taken in
\* the meantime; updateGameProject sets the file of a game that still exists.
\* Tags and prices, which come after the upload, may be refused either way.
SaveGame(r) ==
  LET fits == World(r) \in games <=> handler[r].kind = "update"
  IN /\ Callback(r, "saveGame")
     /\ \/ /\ fits
           /\ games' = games \cup {World(r)}
           /\ withFile' = withFile \cup {World(r)}
           /\ failed' = failed \ {World(r)}
           /\ Return(r)
        \/ (fits => MayFail(r)) /\ Fail(r) /\ UNCHANGED <<games, withFile>>
     /\ UNCHANGED <<servers, boot, rows, lastRow, worlds, temp, serves>>

-----------------------------------------------------------------------------
(* Processes and crashes. *)

ServerStep(c) ==
  /\ S!OnClose(c) \/ S!Exit(c)
  /\ UNCHANGED <<handler, boot, database, worlds, temp, failed, serves>>

\* (Mutant: handlers go on with the tables of the process that died.)
CrashKeepsTables ==
  /\ crashes < MaxCrashes /\ crashes' = crashes + 1 /\ MayCrash
  /\ attached' = {}
  /\ handler' = [r \in Requests |-> Idle]
  /\ boot' = {x.id : x \in rows}
  /\ UNCHANGED <<childProcesses, childProcessPromises,
                 childProcessCloseResolves, resolved, pc, op, at, existed,
                 promise, proc, boundTo, signalled>>
  /\ UNCHANGED <<database, worlds, temp, failed, serves>>

\* The next process restarts every row of the table.
Crash ==
  /\ S!Crash /\ MayCrash
  /\ handler' = [r \in Requests |-> Idle]
  /\ boot' = {x.id : x \in rows}
  /\ UNCHANGED <<database, worlds, temp, failed, serves>>

Arrive(r, w) ==
  \/ Restart(r, w)
  \/ Create(r, w)
  \/ Update(r, w)
  \/ Delete(r, w)
  \/ DeleteFiles(r, w)
  \/ Refuse(r, w)

Work(r) ==
  \/ FindGame(r) \/ FindPort(r) \/ Lookup(r) \/ InsertRow(r) \/ SetPort(r)
  \/ WriteConf(r) \/ ContinueExec(r) \/ FindStop(r) \/ ContinueStop(r)
  \/ RemoveFolder(r) \/ HandleWorldMtFile(r) \/ Overview(r) \/ CopyFolder(r)
  \/ RemoveTemp(r) \/ SaveGame(r)

Next ==
  \/ \E r \in Requests, w \in Worlds : Arrive(r, w)
  \/ \E r \in Requests : BootRestart(r)
  \/ \E r \in Requests : Work(r)
  \/ \E r \in Requests : DeleteRow(r)
  \/ \E c \in Children : ServerStep(c)
  \/ Crash

Spec == Init /\ [][Next]_vars

\* Every statement and file operation is answered, continuations run, close
\* events are delivered and servers that were sent SIGINT end.  Callbacks wait
\* in a queue while continuations run, hence strong fairness.
Fairness ==
  /\ \A r \in Requests : SF_vars(Work(r)) /\ SF_vars(DeleteRow(r))
  /\ \A c \in Children :
       SF_vars(ServerStep(c) /\ (c \in signalled \/ proc[c] = "exited"))

FairSpec == Spec /\ Fairness

-----------------------------------------------------------------------------
\* Whatever the handlers do, they use the supervisor as MinetestServers says:
\* one call at a time each, and only from callbacks.  (S!Spec, with the steps
\* that leave the supervisor alone first.)
SupervisorSpec == S!Init /\ [][UNCHANGED servers \/ S!Next]_servers

\* Once a world is found under a port it is always found under that port,
\* although several handlers may insert rows for it at the same time.
PortStable ==
  [][\A w \in Worlds : PortOf(w) # None => PortOf(w)' = PortOf(w)]_vars

\* Two worlds never get the same port, and the server tracked on a port is
\* one of the world that owns the port.
PortServesItsWorld ==
  /\ \A x, y \in rows : x.port # None /\ x.port = y.port => x = y
  /\ \A p \in Ports : childProcesses[p] # None =>
       \E x \in rows : x.port = p /\ x.world = serves[childProcesses[p]]

Settled(w) == \A r \in Requests : Busy(r) => World(r) # w

Live(c) == c \in attached /\ proc[c] = "running"

\* The worlds no two handlers have worked for at once: the restarts at a boot
\* do not wait for the clients.
Serial == IF crashes = 0 THEN Careful ELSE {}

\* A live server can be stopped by name: the port its world is found under is
\* the port that tracks it.
ServersReachable ==
  \A c \in Children : Live(c) /\ serves[c] \in Serial =>
    PortOf(serves[c]) # None /\ childProcesses[PortOf(serves[c])] = c

\* The folder of a world never goes away under a live server of that world.
NoRemovalUnderServer ==
  [][\A w \in (worlds \ worlds') \cap Serial :
       \A c \in Children : Live(c) => serves[c] # w]_vars

\* When nothing is under way for a world and no upload of it has failed since
\* the folder was last put there, a game with a file has its folder.
GameHasFolder ==
  \A w \in (withFile \cap Serial) \ failed : Settled(w) => w \in worlds

\* When nothing is under way for a world without a game, no folder and no
\* live server of it is left, except by an upload or a removal that failed.
NothingWithoutGame ==
  \A w \in Serial \ (games \cup failed) : Settled(w) =>
    w \notin worlds /\ \A c \in Children : Live(c) => serves[c] # w

\* Every handler returns.
HandlersReturn == \A r \in Requests : Busy(r) ~> ~Busy(r)

=============================================================================
