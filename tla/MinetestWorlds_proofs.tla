------------------------ MODULE MinetestWorlds_proofs ------------------------
(***************************************************************************)
(* Proofs about MinetestWorlds, for any worlds, handlers, children and       *)
(* bounds: the handlers use the supervisor as it expects, no two worlds      *)
(* share a port, a port once found for a world stays its port, the server    *)
(* tracked on a port is one of the world that owns the port, and folders,    *)
(* games and servers agree on every world whose clients wait, as far as no   *)
(* upload and no removal has failed.                                         *)
(***************************************************************************)
EXTENDS MinetestWorlds, TLAPS, FiniteSetTheorems

\* The supervisor and what is proved of it.
SP == INSTANCE MinetestServers_proofs WITH Shared <- Ports

-----------------------------------------------------------------------------
(* The row findOneByGameWorldName takes. *)

LeastPort(R) ==
  IF R = {} THEN None
  ELSE (CHOOSE x \in R : \A y \in R : x.id <= y.id).port

LEMMA PortOfIsLeast == \A w : PortOf(w) = LeastPort(RowsOf(w))
BY DEF PortOf, LeastPort

\* A table with numbered rows has a first one.
LEMMA LeastExists ==
  ASSUME NEW R, R # {}, \A x \in R : x.id \in Nat
  PROVE  \E x \in R : \A y \in R : x.id <= y.id
<1> DEFINE T == {x.id : x \in R}
<1>1. T \subseteq Nat /\ T # {}
  OBVIOUS
<1>2. PICK m \in T : \A n \in T : ~ (<<n, m>> \in OpToRel(<, Nat))
  BY <1>1, WFMin, NatLessThanWellFounded
<1>3. \A n \in T : ~ (n < m)
  BY <1>1, <1>2 DEF OpToRel
<1>4. PICK x \in R : x.id = m
  OBVIOUS
<1>5. ASSUME NEW y \in R PROVE x.id <= y.id
  <2>1. y.id \in T /\ y.id \in Nat /\ m \in Nat
    OBVIOUS
  <2> HIDE DEF T
  <2> QED
    BY <1>3, <1>4, <2>1
<1> QED
  BY <1>5

\* Rows of one table with ids of their own.
Keyed(R) ==
  /\ \A x \in R : x.id \in Nat
  /\ \A x, y \in R : x.id = y.id => x = y

LEMMA LeastIs ==
  ASSUME NEW R, Keyed(R), NEW x \in R, \A y \in R : x.id <= y.id
  PROVE  LeastPort(R) = x.port
<1>1. (CHOOSE z \in R : \A y \in R : z.id <= y.id) = x
  <2> DEFINE z == CHOOSE z \in R : \A y \in R : z.id <= y.id
  <2>1. z \in R /\ \A y \in R : z.id <= y.id
    OBVIOUS
  <2> HIDE DEF z
  <2>2. z.id = x.id
    BY <2>1 DEF Keyed
  <2>3. z = x
    BY <2>1, <2>2 DEF Keyed
  <2> QED BY <2>3 DEF z
<1> QED BY <1>1 DEF LeastPort

\* What is found is the port of a row.
LEMMA LeastIn ==
  ASSUME NEW R, Keyed(R), LeastPort(R) # None
  PROVE  \E x \in R : x.port = LeastPort(R)
<1>1. R # {}
  BY DEF LeastPort
<1>2. PICK x \in R : \A y \in R : x.id <= y.id
  BY <1>1, LeastExists DEF Keyed
<1> QED BY <1>2, LeastIs

\* A later row without a port changes nothing.
LEMMA LeastAfterInsert ==
  ASSUME NEW R, NEW n, Keyed(R), n.id \in Nat, n.port = None,
         \A x \in R : x.id < n.id
  PROVE  Keyed(R \cup {n}) /\ LeastPort(R \cup {n}) = LeastPort(R)
<1>1. Keyed(R \cup {n})
  BY DEF Keyed
<1>2. CASE R = {}
  <2>1. \A y \in R \cup {n} : n.id <= y.id
    BY <1>2
  <2> QED BY <1>1, <1>2, <2>1, LeastIs DEF LeastPort
<1>3. CASE R # {}
  <2>1. PICK x \in R : \A y \in R : x.id <= y.id
    BY <1>3, LeastExists DEF Keyed
  <2>2. \A y \in R \cup {n} : x.id <= y.id
    BY <2>1 DEF Keyed
  <2> QED BY <1>1, <2>1, <2>2, LeastIs
<1> QED BY <1>1, <1>2, <1>3

\* Giving a row its port keeps the port that was found, if there was one.
LEMMA LeastAfterSet ==
  ASSUME NEW R, NEW R2, NEW o \in R, NEW n, Keyed(R), n.id = o.id,
         o.port = None, R2 = {x \in R : x.id # o.id} \cup {n}
  PROVE  /\ Keyed(R2)
         /\ LeastPort(R) # None => LeastPort(R2) = LeastPort(R)
<1>1. Keyed(R2)
  BY DEF Keyed
<1>2. ASSUME LeastPort(R) # None PROVE LeastPort(R2) = LeastPort(R)
  <2>1. PICK x \in R : \A y \in R : x.id <= y.id
    BY LeastExists DEF Keyed
  <2>2. x.port = LeastPort(R)
    BY <2>1, LeastIs
  <2>3. x.id # o.id
    BY <1>2, <2>2 DEF Keyed
  <2>4. x \in R2 /\ \A y \in R2 : x.id <= y.id
    BY <2>1, <2>3
  <2> QED BY <1>1, <2>2, <2>4, LeastIs
<1> QED BY <1>1, <1>2

-----------------------------------------------------------------------------
(* The supervisor's invariant. *)

LEMMA SupervisorAssumptions ==
  SP!NoneIsFresh /\ SP!SharedPorts /\ SP!CrashBound
<1>1. Ports \subseteq Nat
  BY PortNumbers DEF Ports
<1> QED
  BY <1>1, NoneIsFresh, Bounds DEF SP!NoneIsFresh, SP!SharedPorts, SP!CrashBound

LEMMA SameInit == S!Init => SP!Init
BY DEF S!Init, SP!Init

LEMMA SameStutter == UNCHANGED S!vars => UNCHANGED SP!vars
BY DEF S!vars, SP!vars, S!tables, SP!tables, S!requests, SP!requests, S!os, SP!os

LEMMA SameSpawns == S!CanSpawn => SP!CanSpawn
BY DEF S!CanSpawn, SP!CanSpawn, S!Unborn, SP!Unborn, S!Cardinality, SP!Cardinality

LEMMA SameCalls ==
  ASSUME NEW r, NEW p
  PROVE  /\ S!CallExec(r, p) => SP!CallExec(r, p)
         /\ S!CallStop(r, p) => SP!CallStop(r, p)
BY SameSpawns
   DEF S!CallExec, SP!CallExec, S!CallStop, SP!CallStop, S!LoopFree, SP!LoopFree,
   S!MayCall, SP!MayCall,
   S!StopChild, SP!StopChild, S!AfterAwait, SP!AfterAwait, S!tables, SP!tables

LEMMA SameContinues ==
  ASSUME NEW r
  PROVE  /\ S!ContinueExec(r) => SP!ContinueExec(r)
         /\ S!ContinueStop(r) => SP!ContinueStop(r)
BY DEF S!ContinueExec, SP!ContinueExec, S!ContinueStop, SP!ContinueStop,
   S!Spawn, SP!Spawn, S!Unborn, SP!Unborn, S!Return, SP!Return,
   S!tables, SP!tables, S!os, SP!os

LEMMA SameProcesses ==
  ASSUME NEW c
  PROVE  /\ S!OnClose(c) => SP!OnClose(c)
         /\ S!Exit(c) => SP!Exit(c)
         /\ S!Crash => SP!Crash
BY DEF S!OnClose, SP!OnClose, S!Exit, SP!Exit, S!Crash, SP!Crash,
   S!LoopFree, SP!LoopFree, S!CloseResolve, SP!CloseResolve,
   S!tables, SP!tables, S!requests, SP!requests

LEMMA SameNext == S!Next => SP!Next
BY SameCalls, SameContinues, SameProcesses DEF S!Next, SP!Next

\* What MinetestServers_proofs proves of one step holds for these steps.
LEMMA SupervisorInit == S!Init => SP!IInv
BY SameInit, SupervisorAssumptions, SP!InitIInv

LEMMA SupervisorStep == SP!IInv /\ [S!Next]_S!vars => SP!IInv'
<1>1. SP!IInv /\ [SP!Next]_SP!vars => SP!IInv'
  BY SupervisorAssumptions, SP!NextIInv
<1> QED
  BY <1>1, SameNext, SameStutter

-----------------------------------------------------------------------------
(* The table and the handlers that work on it. *)

\* Ids are not given twice, and a port is derived from the id.
RowsNumbered ==
  /\ \A x \in rows : x.id <= lastRow /\ x.port \in {None, PortsBegin + x.id}
  /\ \A x, y \in rows : x.id = y.id => x = y

\* What a handler remembers at a step, with the rows of the table.
Remembers(h, R) ==
  /\ h.step # "done" => h.world # None
  /\ h.step = "setPort" =>
       \E x \in R : x.id = h.row /\ x.world = h.world /\ x.port = None
  /\ h.step \in {"writeConf", "exec"} =>
       h.port # None /\ \E x \in R : x.world = h.world /\ x.port = h.port

StepsRemember == \A r \in Requests : Remembers(handler[r], rows)

\* A row waits for its port from one handler.
OwnRows ==
  \A q, r \in Requests :
    Step(q) = "setPort" /\ Step(r) = "setPort" /\ handler[q].row = handler[r].row
      => q = r

\* A handler that may still insert a row, when its world has the port p.
Pends(h, p) ==
  \/ h.step = "insert"
  \/ p = None /\ h.step \in {"findGame", "findPort", "worldMt", "overview", "copy",
                             "removeTemp", "lookup"}
  \/ p = None /\ h.step \in {"findStop", "stop", "remove"}
       /\ h.kind \in {"create", "update"}

Pending == {r \in Requests : Pends(handler[r], PortOf(World(r)))}

\* There is a row for each of them.
RowsLeft == lastRow + Cardinality(Pending) <= MaxRows

RowTypes ==
  /\ handler \in [Requests -> Locals]
  /\ rows \subseteq [id : 1 .. MaxRows, world : Worlds, port : Ports \cup {None}]
  /\ lastRow \in Nat

RowsInv == RowTypes /\ RowsNumbered /\ StepsRemember /\ OwnRows /\ RowsLeft

LEMMA RowsKeyed == ASSUME RowsInv, NEW w PROVE Keyed(RowsOf(w))
BY DEF RowsInv, RowTypes, RowsNumbered, RowsOf, Keyed

\* A world is found under the port of one of its rows.
LEMMA PortFound ==
  ASSUME RowsInv, NEW w, PortOf(w) # None
  PROVE  PortOf(w) \in Ports /\ \E x \in rows : x.world = w /\ x.port = PortOf(w)
<1>1. PICK x \in RowsOf(w) : x.port = PortOf(w)
  BY RowsKeyed, PortOfIsLeast, LeastIn
<1> QED BY <1>1 DEF RowsOf, RowsInv, RowTypes

\* Fewer pending handlers, or as many rows left as before.
LEMMA FewerPending ==
  ASSUME RowsInv, NEW Q \in SUBSET Pending
  PROVE  lastRow + Cardinality(Q) <= MaxRows /\ lastRow <= MaxRows
<1>1. IsFiniteSet(Pending)
  BY FS_Subset, Bounds DEF Pending
<1>2. /\ IsFiniteSet(Q) /\ Cardinality(Q) <= Cardinality(Pending)
      /\ Cardinality(Q) \in Nat /\ Cardinality(Pending) \in Nat
  BY <1>1, FS_Subset, FS_CardinalityType
<1> QED BY <1>2, PortNumbers DEF RowsInv, RowTypes, RowsLeft

\* A handler goes on and leaves the table alone.
LEMMA HandlerMoves ==
  ASSUME RowsInv, NEW r \in Requests, NEW h \in Locals,
         handler' = [handler EXCEPT ![r] = h], UNCHANGED <<rows, lastRow>>,
         Remembers(h, rows), h.step # "setPort",
         Pends(h, PortOf(h.world)) => r \in Pending
  PROVE  RowsInv'
<1>1. RowTypes' /\ RowsNumbered'
  BY DEF RowsInv, RowTypes, RowsNumbered
<1>2. \A q \in Requests : handler'[q] = IF q = r THEN h ELSE handler[q]
  BY DEF RowsInv, RowTypes
<1>3. StepsRemember'
  BY <1>2 DEF RowsInv, StepsRemember
<1>4. OwnRows'
  BY <1>2 DEF RowsInv, OwnRows, Step
<1>5. Pending' \subseteq Pending
  <2>1. \A w : PortOf(w)' = PortOf(w)
    BY DEF PortOf, RowsOf
  <2> QED BY <1>2, <2>1 DEF Pending, World
<1>6. RowsLeft'
  BY <1>5, FewerPending DEF RowsLeft
<1> QED BY <1>1, <1>3, <1>4, <1>6 DEF RowsInv

LEMMA IdleLocals == Idle \in Locals
BY PortNumbers DEF Idle, Locals, Steps, Kinds

LEMMA HandlerReturns ==
  ASSUME RowsInv, NEW r \in Requests, Return(r), UNCHANGED <<rows, lastRow>>
  PROVE  RowsInv'
<1>1. handler[r] \in Locals
  BY DEF RowsInv, RowTypes
<1>2. PICK h \in Locals : /\ handler' = [handler EXCEPT ![r] = h]
                          /\ h.step = "done"
  <2>1. CASE handler[r].kind = "delete" /\ ~handler[r].answered
    <3>1. [handler[r] EXCEPT !.step = "done"] \in Locals
      BY <1>1 DEF Locals, Steps
    <3>2. [handler[r] EXCEPT !.step = "done"].step = "done"
      BY <1>1 DEF Locals
    <3> QED BY <2>1, <3>1, <3>2 DEF Return
  <2>2. CASE ~(handler[r].kind = "delete" /\ ~handler[r].answered)
    BY <2>2, IdleLocals DEF Return, Idle
  <2> QED BY <2>1, <2>2
<1> QED BY <1>2, HandlerMoves DEF Remembers, Pends

LEMMA HandlerGoes ==
  ASSUME RowsInv, NEW r \in Requests, NEW step \in Steps, Goto(r, step),
         UNCHANGED <<rows, lastRow>>, Step(r) # "done",
         step \notin {"setPort", "writeConf", "exec"},
         Pends([handler[r] EXCEPT !.step = step], PortOf(World(r)))
           => Pends(handler[r], PortOf(World(r)))
  PROVE  RowsInv'
<1>1. handler[r] \in Locals /\ Remembers(handler[r], rows)
  BY DEF RowsInv, RowTypes, StepsRemember
<1>2. PICK h \in Locals : /\ h = [handler[r] EXCEPT !.step = step]
                          /\ h.step = step /\ h.world = World(r)
  <2>1. [handler[r] EXCEPT !.step = step] \in Locals
    BY <1>1 DEF Locals
  <2> QED BY <1>1, <2>1 DEF Locals, World
<1>3. handler' = [handler EXCEPT ![r] = h]
  BY <1>2 DEF Goto
<1>4. Remembers(h, rows)
  BY <1>1, <1>2 DEF Remembers, Step, World
<1>5. Pends(h, PortOf(h.world)) => r \in Pending
  BY <1>2 DEF Pending
<1> QED BY <1>2, <1>3, <1>4, <1>5, HandlerMoves

\* A handler that has found its port calls execMinetest, or writes the
\* configuration first.
LEMMA HandlerHasPort ==
  ASSUME RowsInv, NEW r \in Requests, NEW step \in {"writeConf", "exec"},
         NEW p \in Ports, p # None, Step(r) # "done",
         \E x \in rows : x.world = World(r) /\ x.port = p,
         handler' = [handler EXCEPT ![r].step = step, ![r].port = p],
         UNCHANGED <<rows, lastRow>>
  PROVE  RowsInv'
<1>1. handler[r] \in Locals /\ Remembers(handler[r], rows)
  BY DEF RowsInv, RowTypes, StepsRemember
<1>2. PICK h \in Locals : /\ h = [handler[r] EXCEPT !.step = step, !.port = p]
                          /\ h.step = step /\ h.world = World(r) /\ h.port = p
  <2>1. [handler[r] EXCEPT !.step = step, !.port = p] \in Locals
    BY <1>1 DEF Locals, Steps
  <2> QED BY <1>1, <2>1 DEF Locals, World
<1>3. handler' = [handler EXCEPT ![r] = h]
  BY <1>2 DEF RowsInv, RowTypes
<1>4. Remembers(h, rows)
  BY <1>1, <1>2 DEF Remembers, Step, World
<1> QED BY <1>2, <1>3, <1>4, HandlerMoves DEF Pends

\* A request arrives: there is a row for it if it needs one.
LEMMA HandlerStarts ==
  ASSUME RowsInv, NEW r \in Requests, NEW w \in Worlds, NEW kind \in Kinds,
         NEW step \in {"findGame", "findStop"}, NEW answered \in BOOLEAN,
         ~Busy(r), Start(r, kind, w, step, answered),
         RowLeft(w) \/ (step = "findStop" /\ kind \notin {"create", "update"}),
         UNCHANGED <<rows, lastRow>>
  PROVE  RowsInv'
<1>1. PICK h \in Locals :
        /\ handler' = [handler EXCEPT ![r] = h]
        /\ h.step = step /\ h.kind = kind /\ h.world = w
  <2> DEFINE h == [Idle EXCEPT !.step = step, !.kind = kind, !.world = w,
                               !.answered = answered]
  <2>1. h \in Locals /\ h.step = step /\ h.kind = kind /\ h.world = w
    BY IdleLocals DEF Locals, Steps
  <2>2. handler' = [handler EXCEPT ![r] = h]
    BY DEF Start
  <2> HIDE DEF h
  <2> QED BY <2>1, <2>2
<1>2. \A q \in Requests : handler'[q] = IF q = r THEN h ELSE handler[q]
  BY <1>1 DEF RowsInv, RowTypes
<1>3. RowTypes' /\ RowsNumbered'
  BY <1>1 DEF RowsInv, RowTypes, RowsNumbered
<1>4. Remembers(h, rows)
  BY <1>1, NoneIsFresh DEF Remembers
<1>5. StepsRemember'
  BY <1>2, <1>4 DEF RowsInv, StepsRemember
<1>6. OwnRows'
  BY <1>1, <1>2 DEF RowsInv, OwnRows, Step
<1>7. \A v : PortOf(v)' = PortOf(v)
  BY DEF PortOf, RowsOf
<1>8. Pending' \subseteq Pending \cup {r}
  BY <1>2, <1>7 DEF Pending, World
<1>9. RowsLeft'
  <2>1. CASE r \notin Pending'
    BY <2>1, <1>8, FewerPending DEF RowsLeft
  <2>2. CASE r \in Pending'
    <3>1. PortOf(w) = None /\ RowLeft(w)
      BY <1>1, <1>2, <1>7, <2>2 DEF Pending, Pends, World
    <3> DEFINE MI == {q \in Requests : MayInsert(q)}
    <3>2. lastRow + Cardinality(MI) < MaxRows
      BY <3>1 DEF RowLeft
    <3>3. Pending \subseteq MI /\ r \notin Pending
      BY DEF Pending, Pends, MayInsert, Busy, Step, Idle
    <3>4. IsFiniteSet(MI) /\ IsFiniteSet(Pending)
      BY FS_Subset, Bounds DEF Pending
    <3>5. /\ Cardinality(Pending) <= Cardinality(MI)
          /\ Cardinality(Pending) \in Nat /\ Cardinality(MI) \in Nat
      BY <3>3, <3>4, FS_Subset, FS_CardinalityType
    <3>6. /\ IsFiniteSet(Pending \cup {r})
          /\ Cardinality(Pending \cup {r}) = Cardinality(Pending) + 1
      BY <3>3, <3>4, FS_AddElement
    <3>7. /\ Cardinality(Pending') <= Cardinality(Pending \cup {r})
          /\ Cardinality(Pending') \in Nat
      BY <1>8, <3>6, FS_Subset, FS_CardinalityType
    <3> HIDE DEF MI
    <3> QED BY <3>2, <3>5, <3>6, <3>7, PortNumbers
            DEF RowsLeft, RowsInv, RowTypes
  <2> QED BY <2>1, <2>2
<1> QED BY <1>3, <1>5, <1>6, <1>9 DEF RowsInv

\* The response of a delete is sent; its other half goes on.
LEMMA DeleteRowRows ==
  ASSUME RowsInv, NEW r \in Requests, DeleteRow(r)
  PROVE  RowsInv'
<1>1. handler[r] \in Locals /\ Remembers(handler[r], rows)
  BY DEF RowsInv, RowTypes, StepsRemember
<1>2. PICK h \in Locals :
        /\ handler' = [handler EXCEPT ![r] = h]
        /\ h.step = handler[r].step
        /\ \/ h.step = "done"
           \/ h = [handler[r] EXCEPT !.answered = TRUE]
  <2>1. CASE handler[r].step = "done"
    BY <2>1, IdleLocals DEF DeleteRow, Idle
  <2>2. CASE handler[r].step # "done"
    <3>1. [handler[r] EXCEPT !.answered = TRUE] \in Locals
      BY <1>1 DEF Locals
    <3>2. [handler[r] EXCEPT !.answered = TRUE].step = handler[r].step
      BY <1>1 DEF Locals
    <3> QED BY <2>2, <3>1, <3>2 DEF DeleteRow
  <2> QED BY <2>1, <2>2
<1>3. \A q \in Requests : handler'[q] = IF q = r THEN h ELSE handler[q]
  BY <1>2 DEF RowsInv, RowTypes
<1>4. UNCHANGED <<rows, lastRow>>
  BY DEF DeleteRow
<1>5. h.step # "done" => /\ h.world = handler[r].world /\ h.port = handler[r].port
                         /\ h.row = handler[r].row /\ h.kind = handler[r].kind
  BY <1>1, <1>2 DEF Locals
<1>6. RowTypes' /\ RowsNumbered'
  BY <1>2, <1>4 DEF RowsInv, RowTypes, RowsNumbered
<1>7. Remembers(h, rows)
  BY <1>1, <1>2, <1>5 DEF Remembers
<1>8. StepsRemember'
  BY <1>3, <1>4, <1>7 DEF RowsInv, StepsRemember
<1>9. OwnRows'
  BY <1>2, <1>3, <1>5 DEF RowsInv, OwnRows, Step
<1>10. Pending' \subseteq Pending
  <2>1. \A w : PortOf(w)' = PortOf(w)
    BY <1>4 DEF PortOf, RowsOf
  <2>2. Pends(h, PortOf(h.world)) => Pends(handler[r], PortOf(World(r)))
    BY <1>2, <1>5 DEF Pends, World
  <2> QED BY <1>3, <2>1, <2>2 DEF Pending, World
<1>11. RowsLeft'
  BY <1>4, <1>10, FewerPending DEF RowsLeft
<1> QED BY <1>6, <1>8, <1>9, <1>11 DEF RowsInv

LEMMA CrashRows ==
  ASSUME RowsInv, Crash
  PROVE  RowsInv'
<1>1. handler' = [r \in Requests |-> Idle] /\ UNCHANGED <<rows, lastRow>>
  BY DEF Crash, database
<1>2. RowTypes' /\ RowsNumbered'
  BY <1>1, IdleLocals DEF RowsInv, RowTypes, RowsNumbered
<1>3. StepsRemember' /\ OwnRows'
  BY <1>1 DEF StepsRemember, OwnRows, Remembers, Step, Idle
<1>4. Pending' \subseteq Pending
  BY <1>1 DEF Pending, Pends, Idle
<1>5. RowsLeft'
  BY <1>1, <1>4, FewerPending DEF RowsLeft
<1> QED BY <1>2, <1>3, <1>5 DEF RowsInv

\* First save: a new id, later than every other.
LEMMA InsertRowRows ==
  ASSUME RowsInv, NEW r \in Requests, InsertRow(r)
  PROVE  RowsInv' /\ \A w : PortOf(w)' = PortOf(w)
<1> DEFINE n == [id |-> lastRow + 1, world |-> World(r), port |-> None]
<1>1. /\ Step(r) = "insert" /\ rows' = rows \cup {n} /\ lastRow' = lastRow + 1
      /\ handler' = [handler EXCEPT ![r].step = "setPort", ![r].row = lastRow + 1]
  BY DEF InsertRow, Callback
<1>2. handler[r] \in Locals /\ Remembers(handler[r], rows)
  BY DEF RowsInv, RowTypes, StepsRemember
<1>3. World(r) \in Worlds
  BY <1>1, <1>2 DEF Locals, Remembers, Step, World
<1>4. r \in Pending
  BY <1>1 DEF Pending, Pends, Step
<1>5. \A w : PortOf(w)' = PortOf(w)
  <2> SUFFICES ASSUME NEW w PROVE LeastPort(RowsOf(w)') = LeastPort(RowsOf(w))
    BY PortOfIsLeast DEF PortOf, LeastPort
  <2>1. \A x \in RowsOf(w) : x.id < n.id
    BY DEF RowsOf, RowsInv, RowTypes, RowsNumbered
  <2>2. n.id \in Nat /\ n.port = None
    BY DEF RowsInv, RowTypes
  <2>3. RowsOf(w)' = IF w = World(r) THEN RowsOf(w) \cup {n} ELSE RowsOf(w)
    BY <1>1 DEF RowsOf
  <2> HIDE DEF n
  <2> QED BY <2>1, <2>2, <2>3, RowsKeyed, LeastAfterInsert
<1>6. PICK h \in [step : Steps, kind : Kinds, world : Worlds \cup {None},
                  port : Ports \cup {None}, row : Nat, answered : BOOLEAN] :
        /\ handler' = [handler EXCEPT ![r] = h]
        /\ h.step = "setPort" /\ h.world = World(r) /\ h.row = lastRow + 1
  <2> DEFINE h == [handler[r] EXCEPT !.step = "setPort", !.row = lastRow + 1]
  <2>1. h \in [step : Steps, kind : Kinds, world : Worlds \cup {None},
               port : Ports \cup {None}, row : Nat, answered : BOOLEAN]
    <3>1. handler[r] \in
            [step : Steps, kind : Kinds, world : Worlds \cup {None},
             port : Ports \cup {None}, row : Nat, answered : BOOLEAN]
      <4>1. 0 .. MaxRows \subseteq Nat
        BY PortNumbers
      <4> QED BY <1>2, <4>1 DEF Locals
    <3>2. lastRow + 1 \in Nat /\ "setPort" \in Steps
      BY DEF Steps, RowsInv, RowTypes
    <3> QED BY <3>1, <3>2
  <2>2. h.step = "setPort" /\ h.world = World(r) /\ h.row = lastRow + 1
    BY <1>2 DEF Locals, World
  <2>3. handler' = [handler EXCEPT ![r] = h]
    BY <1>1 DEF RowsInv, RowTypes
  <2> HIDE DEF h
  <2> QED BY <2>1, <2>2, <2>3
<1>7. \A q \in Requests : handler'[q] = IF q = r THEN h ELSE handler[q]
  BY <1>6 DEF RowsInv, RowTypes
<1>8. RowsLeft' /\ lastRow + 1 <= MaxRows
  <2>1. Pending' \subseteq Pending \ {r}
    BY <1>5, <1>6, <1>7 DEF Pending, Pends, World
  <2>2. IsFiniteSet(Pending)
    BY FS_Subset, Bounds DEF Pending
  <2>3. /\ IsFiniteSet(Pending \ {r})
        /\ Cardinality(Pending \ {r}) = Cardinality(Pending) - 1
    BY <1>4, <2>2, FS_RemoveElement
  <2>4. /\ Cardinality(Pending') <= Cardinality(Pending \ {r})
        /\ Cardinality(Pending') \in Nat /\ Cardinality(Pending \ {r}) \in Nat
        /\ Cardinality(Pending) \in Nat
    BY <2>1, <2>2, <2>3, FS_Subset, FS_CardinalityType
  <2> HIDE DEF n
  <2> QED BY <1>1, <2>3, <2>4, PortNumbers DEF RowsLeft, RowsInv, RowTypes
<1>9. RowTypes'
  <2>1. h \in Locals
    BY <1>6, <1>8, PortNumbers DEF Locals, RowsInv, RowTypes
  <2>2. n \in [id : 1 .. MaxRows, world : Worlds, port : Ports \cup {None}]
    BY <1>3, <1>8, PortNumbers DEF RowsInv, RowTypes
  <2>3. handler' \in [Requests -> Locals]
    <3>1. handler \in [Requests -> Locals]
      BY DEF RowsInv, RowTypes
    <3> HIDE DEF n
    <3> QED BY <1>6, <2>1, <3>1
  <2>4. rows' \subseteq [id : 1 .. MaxRows, world : Worlds, port : Ports \cup {None}]
    <3> HIDE DEF n
    <3> QED BY <1>1, <2>2 DEF RowsInv, RowTypes
  <2>5. lastRow' \in Nat
    BY <1>1 DEF RowsInv, RowTypes
  <2> QED BY <2>3, <2>4, <2>5 DEF RowTypes
<1>10. RowsNumbered'
  <2>1. \A x \in rows : x.id \in Nat /\ x.id <= lastRow /\ lastRow \in Nat
    BY DEF RowsInv, RowTypes, RowsNumbered
  <2>2. n.id = lastRow + 1 /\ n.port = None
    OBVIOUS
  <2> HIDE DEF n
  <2>3. \A x \in rows' : x.id <= lastRow' /\ x.port \in {None, PortsBegin + x.id}
    <3>1. \A x \in rows' : x.id <= lastRow'
      <4>1. \A x \in rows : x.id <= lastRow + 1
        BY <2>1
      <4>2. n.id <= lastRow + 1
        BY <2>2 DEF RowsInv, RowTypes
      <4> QED BY <1>1, <4>1, <4>2
    <3>2. \A x \in rows' : x.port \in {None, PortsBegin + x.id}
      BY <1>1, <2>2 DEF RowsInv, RowsNumbered
    <3> QED BY <3>1, <3>2
  <2>4. \A x \in rows : x.id # n.id
    BY <2>1, <2>2
  <2> QED BY <1>1, <2>3, <2>4 DEF RowsInv, RowsNumbered
<1>11. StepsRemember'
  <2>1. Remembers(h, rows')
    <3>1. n \in rows' /\ n.id = h.row /\ n.world = h.world /\ n.port = None
      BY <1>1, <1>6
    <3> HIDE DEF n
    <3> QED BY <1>3, <1>6, <3>1, NoneIsFresh DEF Remembers
  <2>2. \A q \in Requests : Remembers(handler[q], rows')
    BY <1>1 DEF RowsInv, StepsRemember, Remembers
  <2> QED BY <1>7, <2>1, <2>2 DEF StepsRemember
<1>12. OwnRows'
  <2>1. ASSUME NEW q \in Requests, q # r, Step(q) = "setPort"
        PROVE  handler[q].row # h.row
    <3>1. PICK x \in rows : x.id = handler[q].row
      BY <2>1 DEF RowsInv, StepsRemember, Remembers, Step
    <3> QED BY <1>6, <3>1 DEF RowsInv, RowTypes, RowsNumbered
  <2> QED BY <1>7, <2>1 DEF RowsInv, OwnRows, Step
<1> QED BY <1>5, <1>8, <1>9, <1>10, <1>11, <1>12 DEF RowsInv

\* Second save: the row gets the port derived from its id.
LEMMA SetPortRows ==
  ASSUME RowsInv, NEW r \in Requests, SetPort(r)
  PROVE  /\ RowsInv'
         /\ \A w : PortOf(w) # None => PortOf(w)' = PortOf(w)
         /\ \A x \in rows : x.port # None => x \in rows'
<1> DEFINE i == handler[r].row
           n == [id |-> i, world |-> World(r), port |-> PortsBegin + i]
<1>1. /\ Step(r) = "setPort" /\ rows' = {x \in rows : x.id # i} \cup {n}
      /\ handler' = [handler EXCEPT ![r].step = "writeConf",
                                    ![r].port = PortsBegin + i]
      /\ lastRow' = lastRow
  BY DEF SetPort, Callback
<1>2. handler[r] \in Locals
  BY DEF RowsInv, RowTypes
<1>3. PICK o \in rows : o.id = i /\ o.world = World(r) /\ o.port = None
  BY <1>1 DEF RowsInv, StepsRemember, Remembers, Step, World
<1>4. /\ i \in 1 .. MaxRows /\ i <= lastRow /\ World(r) \in Worlds
      /\ PortsBegin + i \in Ports
  BY <1>3 DEF RowsInv, RowTypes, RowsNumbered, Ports
<1>5. PortsBegin + i # None
  BY <1>4, PortNumbers, NoneIsFresh
<1>6. n.id = i /\ n.world = World(r) /\ n.port = PortsBegin + i
  OBVIOUS
<1>7. n \in [id : 1 .. MaxRows, world : Worlds, port : Ports \cup {None}]
  BY <1>4
<1> HIDE DEF n
<1>8. \A x \in rows : x.port # None => x \in rows'
  BY <1>1, <1>3 DEF RowsInv, RowsNumbered
<1>9. \A w : PortOf(w) # None => PortOf(w)' = PortOf(w)
  <2> SUFFICES ASSUME NEW w, LeastPort(RowsOf(w)) # None
               PROVE  LeastPort(RowsOf(w)') = LeastPort(RowsOf(w))
    BY PortOfIsLeast DEF PortOf, LeastPort
  <2>1. CASE w = World(r)
    <3>1. o \in RowsOf(w) /\ RowsOf(w)' = {x \in RowsOf(w) : x.id # o.id} \cup {n}
      BY <1>1, <1>3, <1>6, <2>1 DEF RowsOf
    <3> QED BY <1>3, <1>6, <3>1, RowsKeyed, LeastAfterSet
  <2>2. CASE w # World(r)
    <3>1. RowsOf(w)' = RowsOf(w)
      BY <1>1, <1>3, <1>6, <2>2 DEF RowsOf, RowsInv, RowsNumbered
    <3> QED BY <3>1
  <2> QED BY <2>1, <2>2
<1>10. PICK h \in Locals :
        /\ handler' = [handler EXCEPT ![r] = h]
        /\ h.step = "writeConf" /\ h.world = World(r) /\ h.port = PortsBegin + i
  <2> DEFINE h == [handler[r] EXCEPT !.step = "writeConf", !.port = PortsBegin + i]
  <2>1. h \in Locals
    BY <1>2, <1>4 DEF Locals, Steps
  <2>2. h.step = "writeConf" /\ h.world = World(r) /\ h.port = PortsBegin + i
    BY <1>2 DEF Locals, World
  <2>3. handler' = [handler EXCEPT ![r] = h]
    BY <1>1 DEF RowsInv, RowTypes
  <2> HIDE DEF h
  <2> QED BY <2>1, <2>2, <2>3
<1>11. \A q \in Requests : handler'[q] = IF q = r THEN h ELSE handler[q]
  BY <1>10 DEF RowsInv, RowTypes
<1>12. RowTypes'
  <2>1. handler \in [Requests -> Locals]
    BY DEF RowsInv, RowTypes
  <2>2. handler' \in [Requests -> Locals]
    <3> HIDE DEF i
    <3> QED BY <1>10, <2>1
  <2>3. /\ rows' \subseteq [id : 1 .. MaxRows, world : Worlds, port : Ports \cup {None}]
        /\ lastRow' \in Nat
    <3> HIDE DEF i, n
    <3> QED BY <1>1, <1>7 DEF RowsInv, RowTypes
  <2> QED BY <2>2, <2>3 DEF RowTypes
<1>13. RowsNumbered'
  BY <1>1, <1>4, <1>6 DEF RowsInv, RowsNumbered
<1>14. StepsRemember'
  <2>1. Remembers(h, rows')
    BY <1>1, <1>4, <1>5, <1>6, <1>10, NoneIsFresh DEF Remembers
  <2>2. ASSUME NEW q \in Requests, q # r PROVE Remembers(handler[q], rows')
    <3>1. Remembers(handler[q], rows)
      BY DEF RowsInv, StepsRemember
    <3>2. ASSUME handler[q].step = "setPort"
          PROVE  \E x \in rows' : x.id = handler[q].row
                    /\ x.world = handler[q].world /\ x.port = None
      <4>1. handler[q].row # i
        BY <1>1, <2>2, <3>2 DEF RowsInv, OwnRows, Step
      <4>2. PICK x \in rows : x.id = handler[q].row
                    /\ x.world = handler[q].world /\ x.port = None
        BY <3>1, <3>2 DEF Remembers
      <4> QED BY <1>1, <4>1, <4>2
    <3> QED BY <1>8, <3>1, <3>2 DEF Remembers
  <2> QED BY <1>11, <2>1, <2>2 DEF StepsRemember
<1>15. OwnRows'
  BY <1>10, <1>11 DEF RowsInv, OwnRows, Step
<1>16. Pending' \subseteq Pending
  BY <1>9, <1>10, <1>11 DEF Pending, Pends, World
<1>17. RowsLeft'
  BY <1>1, <1>16, FewerPending DEF RowsLeft
<1> QED BY <1>8, <1>9, <1>12, <1>13, <1>14, <1>15, <1>17 DEF RowsInv

\* One step of a handler's work.
LEMMA WorkRows ==
  ASSUME RowsInv, NEW r \in Requests, Work(r)
  PROVE  RowsInv'
<1>1. handler[r] \in Locals /\ Remembers(handler[r], rows)
  BY DEF RowsInv, RowTypes, StepsRemember
<1>2. \A step \in Steps : LET h == [handler[r] EXCEPT !.step = step]
                          IN h.step = step /\ h.kind = handler[r].kind
  BY <1>1 DEF Locals
<1>3. CASE FindGame(r)
  <2>1. UNCHANGED <<rows, lastRow>> /\ Step(r) = "findGame"
    BY <1>3 DEF FindGame, Callback, database
  <2>2. CASE Goto(r, "findPort")
    BY <1>2, <2>1, <2>2, HandlerGoes DEF Steps, Pends, Step
  <2> QED BY <1>3, <2>1, <2>2, HandlerReturns DEF FindGame
<1>4. CASE FindPort(r)
  <2>1. UNCHANGED <<rows, lastRow>> /\ Step(r) = "findPort"
    BY <1>4 DEF FindPort, Callback, database
  <2>2. CASE PortOf(World(r)) = None /\ Goto(r, "lookup")
    BY <1>2, <2>1, <2>2, HandlerGoes DEF Steps, Pends, Step
  <2>3. CASE PortOf(World(r)) # None /\ Exec(r, PortOf(World(r)))
    BY <2>1, <2>3, PortFound, HandlerHasPort DEF Exec
  <2> QED BY <1>4, <2>2, <2>3 DEF FindPort
<1>5. CASE Lookup(r)
  <2>1. UNCHANGED <<rows, lastRow>> /\ Step(r) = "lookup"
    BY <1>5 DEF Lookup, Callback, database
  <2>2. CASE PortOf(World(r)) = None /\ Goto(r, "insert")
    BY <1>2, <2>1, <2>2, HandlerGoes DEF Steps, Pends, Step
  <2>3. CASE /\ PortOf(World(r)) # None
             /\ handler' = [handler EXCEPT ![r].step = "writeConf",
                                           ![r].port = PortOf(World(r))]
    BY <2>1, <2>3, PortFound, HandlerHasPort
  <2> QED BY <1>5, <2>2, <2>3 DEF Lookup
<1>6. CASE InsertRow(r)
  BY <1>6, InsertRowRows
<1>7. CASE SetPort(r)
  BY <1>7, SetPortRows
<1>8. CASE WriteConf(r)
  <2>1. UNCHANGED <<rows, lastRow>> /\ Step(r) = "writeConf"
    BY <1>8 DEF WriteConf, Callback, database
  <2>2. /\ handler[r].port \in Ports /\ handler[r].port # None
        /\ \E x \in rows : x.world = World(r) /\ x.port = handler[r].port
    BY <1>1, <2>1 DEF Remembers, Step, World, Locals
  <2>3. CASE Exec(r, handler[r].port)
    BY <2>1, <2>2, <2>3, HandlerHasPort DEF Exec
  <2>4. CASE Goto(r, "saveGame")
    BY <1>2, <2>1, <2>4, HandlerGoes DEF Steps, Pends, Step
  <2> QED BY <1>8, <2>1, <2>3, <2>4, HandlerReturns DEF WriteConf, Fail
<1>9. CASE ContinueExec(r)
  <2>1. UNCHANGED <<rows, lastRow>> /\ Step(r) = "exec"
    BY <1>9 DEF ContinueExec, database
  <2>2. CASE Goto(r, "saveGame")
    BY <1>2, <2>1, <2>2, HandlerGoes DEF Steps, Pends, Step
  <2> QED BY <1>9, <2>1, <2>2, HandlerReturns DEF ContinueExec
<1>10. CASE FindStop(r)
  <2>1. UNCHANGED <<rows, lastRow>> /\ Step(r) = "findStop"
    BY <1>10 DEF FindStop, Callback, database
  <2>2. CASE Goto(r, "remove")
    BY <1>2, <2>1, <2>2, HandlerGoes DEF Steps, Pends, Step
  <2>3. CASE Goto(r, "stop")
    BY <1>2, <2>1, <2>3, HandlerGoes DEF Steps, Pends, Step
  <2> QED BY <1>10, <2>2, <2>3 DEF FindStop
<1>11. CASE ContinueStop(r)
  <2>1. UNCHANGED <<rows, lastRow>> /\ Step(r) = "stop" /\ Goto(r, "remove")
    BY <1>11 DEF ContinueStop, database
  <2> QED BY <1>2, <2>1, HandlerGoes DEF Steps, Pends, Step
<1>12. CASE RemoveFolder(r)
  <2>1. UNCHANGED <<rows, lastRow>> /\ Step(r) = "remove"
    BY <1>12 DEF RemoveFolder, Callback, database
  <2>2. CASE handler[r].kind \in Uploads /\ Goto(r, "worldMt")
    BY <1>2, <2>1, <2>2, HandlerGoes DEF Steps, Pends, Step, Uploads
  <2> QED BY <1>12, <2>1, <2>2, HandlerReturns DEF RemoveFolder, Removed
<1>16. CASE HandleWorldMtFile(r)
  <2>1. UNCHANGED <<rows, lastRow>> /\ Step(r) = "worldMt"
    BY <1>16 DEF HandleWorldMtFile, Callback, database
  <2>2. CASE Goto(r, "overview")
    BY <1>2, <2>1, <2>2, HandlerGoes DEF Steps, Pends, Step
  <2> QED BY <1>16, <2>1, <2>2, HandlerReturns DEF HandleWorldMtFile, Fail
<1>17. CASE Overview(r)
  <2>1. UNCHANGED <<rows, lastRow>> /\ Step(r) = "overview" /\ Goto(r, "copy")
    BY <1>17 DEF Overview, Callback, database
  <2> QED BY <1>2, <2>1, HandlerGoes DEF Steps, Pends, Step
<1>13. CASE CopyFolder(r)
  <2>1. UNCHANGED <<rows, lastRow>> /\ Step(r) = "copy"
    BY <1>13 DEF CopyFolder, Callback, database
  <2>2. CASE Goto(r, "removeTemp")
    BY <1>2, <2>1, <2>2, HandlerGoes DEF Steps, Pends, Step
  <2> QED BY <1>13, <2>1, <2>2, HandlerReturns DEF CopyFolder, Fail
<1>14. CASE RemoveTemp(r)
  <2>1. UNCHANGED <<rows, lastRow>> /\ Step(r) = "removeTemp"
    BY <1>14 DEF RemoveTemp, Callback, database
  <2>2. CASE Goto(r, "lookup")
    BY <1>2, <2>1, <2>2, HandlerGoes DEF Steps, Pends, Step
  <2> QED BY <1>14, <2>1, <2>2, HandlerReturns DEF RemoveTemp, Fail
<1>15. CASE SaveGame(r)
  BY <1>15, HandlerReturns DEF SaveGame, Fail
<1> QED
  BY <1>3, <1>4, <1>5, <1>6, <1>7, <1>8, <1>9, <1>10, <1>11, <1>12, <1>13,
     <1>14, <1>15, <1>16, <1>17 DEF Work

LEMMA ArriveRows ==
  ASSUME RowsInv, NEW r \in Requests, NEW w \in Worlds, Arrive(r, w)
  PROVE  RowsInv' /\ UNCHANGED <<rows, lastRow>>
<1>1. CASE Restart(r, w)
  BY <1>1, HandlerStarts DEF Restart, MayBegin, Kinds, database
<1>2. CASE Create(r, w)
  BY <1>2, HandlerStarts DEF Create, Upload, MayBegin, Kinds, database
<1>3. CASE Update(r, w)
  BY <1>3, HandlerStarts DEF Update, Upload, MayBegin, Kinds, database
<1>4. CASE Delete(r, w)
  BY <1>4, HandlerStarts DEF Delete, MayBegin, Kinds, database
<1>5. CASE DeleteFiles(r, w)
  BY <1>5, HandlerStarts DEF DeleteFiles, MayBegin, Kinds
<1>6. CASE Refuse(r, w)
  BY <1>6 DEF Refuse, vars, database, RowsInv, RowTypes, RowsNumbered,
     StepsRemember, OwnRows, RowsLeft, Pending, PortOf, RowsOf, World, Step
<1> QED BY <1>1, <1>2, <1>3, <1>4, <1>5, <1>6 DEF Arrive

LEMMA BootRows ==
  ASSUME RowsInv, NEW r \in Requests, BootRestart(r)
  PROVE  RowsInv' /\ UNCHANGED <<rows, lastRow>>
<1>1. PICK x \in rows : /\ ~Busy(r) /\ RowLeft(x.world)
                        /\ Start(r, "restart", x.world, "findGame", TRUE)
                        /\ UNCHANGED database
  BY DEF BootRestart
<1>2. x.world \in Worlds
  BY DEF RowsInv, RowTypes
<1> QED BY <1>1, <1>2, HandlerStarts DEF Kinds, database

\* Only the two saves write the table.
LEMMA RowsWritten ==
  ASSUME [Next]_vars
  PROVE  \/ \E r \in Requests : InsertRow(r) \/ SetPort(r)
         \/ UNCHANGED <<rows, lastRow>>
<1>1. ASSUME NEW r \in Requests, NEW w \in Worlds, Arrive(r, w)
      PROVE  UNCHANGED <<rows, lastRow>>
  BY <1>1 DEF Arrive, Restart, Create, Update, Upload, Delete, DeleteFiles,
     Refuse, vars, database
<1>2. ASSUME NEW r \in Requests, Work(r), ~InsertRow(r), ~SetPort(r)
      PROVE  UNCHANGED <<rows, lastRow>>
  BY <1>2 DEF Work, FindGame, FindPort, Lookup, WriteConf, ContinueExec,
     FindStop, ContinueStop, RemoveFolder, HandleWorldMtFile, Overview, CopyFolder,
     RemoveTemp, SaveGame,
     database
<1>3. ASSUME NEW r \in Requests, BootRestart(r) \/ DeleteRow(r)
      PROVE  UNCHANGED <<rows, lastRow>>
  BY <1>3 DEF BootRestart, DeleteRow, database
<1>4. (\E c \in Children : ServerStep(c)) \/ Crash \/ UNCHANGED vars
        => UNCHANGED <<rows, lastRow>>
  BY DEF ServerStep, Crash, vars, database
<1> QED BY <1>1, <1>2, <1>3, <1>4 DEF Next

LEMMA RowsStep ==
  ASSUME RowsInv, [Next]_vars
  PROVE  /\ RowsInv'
         /\ \A w : PortOf(w) # None => PortOf(w)' = PortOf(w)
         /\ \A x \in rows : x.port # None => x \in rows'
<1>1. RowsInv'
  <2>1. CASE UNCHANGED <<handler, rows, lastRow>>
    BY <2>1 DEF RowsInv, RowTypes, RowsNumbered,
       StepsRemember, OwnRows, RowsLeft, Pending, PortOf, RowsOf, World, Step
  <2>2. ASSUME NEW c \in Children, ServerStep(c) PROVE RowsInv'
    BY <2>1, <2>2 DEF ServerStep, database
  <2>3. CASE UNCHANGED vars
    BY <2>1, <2>3 DEF vars, database
  <2> QED BY <2>2, <2>3, ArriveRows, BootRows, WorkRows, DeleteRowRows, CrashRows
          DEF Next
<1>2. CASE UNCHANGED <<rows, lastRow>>
  BY <1>1, <1>2 DEF PortOf, RowsOf
<1>3. ASSUME NEW r \in Requests, InsertRow(r)
      PROVE  rows \subseteq rows' /\ \A w : PortOf(w)' = PortOf(w)
  BY <1>3, InsertRowRows DEF InsertRow
<1>4. ASSUME NEW r \in Requests, SetPort(r)
      PROVE  /\ \A w : PortOf(w) # None => PortOf(w)' = PortOf(w)
             /\ \A x \in rows : x.port # None => x \in rows'
  BY <1>4, SetPortRows
<1> QED BY <1>1, <1>2, <1>3, <1>4, RowsWritten

-----------------------------------------------------------------------------
(* The handlers use the supervisor as it expects. *)

LEMMA WorkCalls ==
  ASSUME RowsInv, NEW r \in Requests, Work(r)
  PROVE  S!Next \/ UNCHANGED S!vars
<1> DEFINE quiet == UNCHANGED servers
<1>1. quiet => UNCHANGED S!vars
  BY DEF servers, S!vars, S!tables, S!requests, S!os
<1>2. CASE FindPort(r)
  BY <1>1, <1>2, PortFound DEF FindPort, Exec, S!Next
<1>3. CASE WriteConf(r)
  <2>1. handler[r].port \in Ports
    <3>1. handler[r] \in Locals /\ Remembers(handler[r], rows)
      BY DEF RowsInv, RowTypes, StepsRemember
    <3> QED BY <1>3, <3>1 DEF WriteConf, Callback, Remembers, Step, Locals
  <2> QED BY <1>1, <1>3, <2>1 DEF WriteConf, Exec, S!Next
<1>4. CASE ContinueExec(r) \/ ContinueStop(r)
  BY <1>4 DEF ContinueExec, ContinueStop, S!Next
<1>5. CASE FindStop(r)
  BY <1>1, <1>5, PortFound DEF FindStop, S!Next
<1>6. CASE \/ FindGame(r) \/ Lookup(r) \/ InsertRow(r) \/ SetPort(r)
           \/ RemoveFolder(r) \/ HandleWorldMtFile(r) \/ Overview(r)
           \/ CopyFolder(r) \/ RemoveTemp(r) \/ SaveGame(r)
  BY <1>1, <1>6 DEF FindGame, Lookup, InsertRow, SetPort, RemoveFolder,
     HandleWorldMtFile, Overview, CopyFolder, RemoveTemp, SaveGame
<1> QED BY <1>2, <1>3, <1>4, <1>5, <1>6 DEF Work

LEMMA WorldsCalls ==
  ASSUME RowsInv, [Next]_vars
  PROVE  [S!Next]_S!vars
<1>1. UNCHANGED servers => UNCHANGED S!vars
  BY DEF servers, S!vars, S!tables, S!requests, S!os
<1>2. ASSUME NEW r \in Requests, NEW w \in Worlds, Arrive(r, w)
      PROVE  UNCHANGED servers
  BY <1>2 DEF Arrive, Restart, Create, Update, Upload, Delete, DeleteFiles,
     Refuse, vars
<1>3. ASSUME NEW r \in Requests, BootRestart(r) \/ DeleteRow(r)
      PROVE  UNCHANGED servers
  BY <1>3 DEF BootRestart, DeleteRow
<1>4. ASSUME NEW c \in Children, ServerStep(c) PROVE S!Next
  BY <1>4 DEF ServerStep, S!Next
<1>5. Crash => S!Next
  BY DEF Crash, S!Next
<1>6. UNCHANGED vars => UNCHANGED servers
  BY DEF vars
<1> QED BY <1>1, <1>2, <1>3, <1>4, <1>5, <1>6, WorkCalls DEF Next

-----------------------------------------------------------------------------
(* The server tracked on a port. *)

\* A handler in execMinetest has told it its port.
ExecNamed == \A r \in Requests : Step(r) = "exec" => at[r] = handler[r].port

\* The second part of PortServesItsWorld.
TrackedServesOwner ==
  \A p \in Ports : childProcesses[p] # None =>
    \E x \in rows : x.port = p /\ x.world = serves[childProcesses[p]]

RestTypes ==
  /\ boot \subseteq 1 .. MaxRows
  /\ withFile \subseteq games /\ games \subseteq Worlds
  /\ worlds \subseteq Worlds /\ temp \subseteq Worlds /\ failed \subseteq Worlds
  /\ serves \in [Children -> Worlds \cup {None}]

IInv == SP!IInv /\ RowsInv /\ ExecNamed /\ TrackedServesOwner /\ RestTypes

LEMMA WorldOfStep ==
  ASSUME RowsInv, NEW r \in Requests, Step(r) # "done"
  PROVE  World(r) \in Worlds
BY DEF RowsInv, RowTypes, StepsRemember, Remembers, Locals, Step, World

LEMMA SupervisorTypes ==
  ASSUME SP!IInv
  PROVE  S!TypeOK
BY DEF SP!IInv, SP!TypeOK, S!TypeOK

\* The handler r is at a step, and the others are where they were.
Moved(r, step) ==
  /\ handler'[r].step = step
  /\ \A q \in Requests : q # r => handler'[q] = handler[q]

LEMMA MovedBy ==
  ASSUME RowsInv, NEW r \in Requests
  PROVE  /\ \A step \in Steps : Goto(r, step) => Moved(r, step)
         /\ Return(r) => Moved(r, "done")
         /\ \A kind, w, step, answered :
              Start(r, kind, w, step, answered) => Moved(r, step)
<1>1. handler \in [Requests -> Locals] /\ handler[r] \in Locals
  BY DEF RowsInv, RowTypes
<1>2. ASSUME NEW step \in Steps, Goto(r, step) PROVE Moved(r, step)
  <2>1. handler' = [handler EXCEPT ![r] = [handler[r] EXCEPT !.step = step]]
    BY <1>2 DEF Goto
  <2>2. [handler[r] EXCEPT !.step = step].step = step
    BY <1>1 DEF Locals
  <2> QED BY <1>1, <2>1, <2>2 DEF Moved
<1>3. ASSUME Return(r) PROVE Moved(r, "done")
  <2>1. [handler[r] EXCEPT !.step = "done"].step = "done" /\ Idle.step = "done"
    BY <1>1 DEF Locals, Idle
  <2> QED BY <1>1, <1>3, <2>1 DEF Moved, Return
<1>4. ASSUME NEW kind, NEW w, NEW step, NEW answered,
             Start(r, kind, w, step, answered)
      PROVE  Moved(r, step)
  <2>1. [Idle EXCEPT !.step = step, !.kind = kind, !.world = w,
                     !.answered = answered].step = step
    BY DEF Idle
  <2> QED BY <1>1, <1>4, <2>1 DEF Moved, Start
<1> QED BY <1>2, <1>3, <1>4

LEMMA ExecLeft ==
  ASSUME ExecNamed, NEW r \in Requests, NEW step, Moved(r, step), step # "exec",
         \A q \in Requests : q # r => at'[q] = at[q]
  PROVE  ExecNamed'
BY DEF ExecNamed, Moved, Step

LEMMA ExecCalled ==
  ASSUME RowsInv, S!TypeOK, ExecNamed, NEW r \in Requests, NEW p, Exec(r, p)
  PROVE  ExecNamed'
<1>1. handler[r] \in Locals
  BY DEF RowsInv, RowTypes
<1>2. handler' = [handler EXCEPT ![r] = [handler[r] EXCEPT !.step = "exec", !.port = p]]
  BY DEF Exec, RowsInv, RowTypes
<1>3. [handler[r] EXCEPT !.step = "exec", !.port = p].port = p
  BY <1>1 DEF Locals
<1>4. at' = [at EXCEPT ![r] = p]
  BY DEF Exec, S!CallExec, S!StopChild
<1> QED BY <1>2, <1>3, <1>4 DEF ExecNamed, Step, S!TypeOK, RowsInv, RowTypes

LEMMA ExecStep ==
  ASSUME RowsInv, S!TypeOK, ExecNamed, [Next]_vars
  PROVE  ExecNamed'
<1>1. ASSUME NEW r \in Requests, NEW w \in Worlds, Arrive(r, w)
      PROVE  ExecNamed'
  <2>1. CASE UNCHANGED vars
    BY <2>1 DEF vars, servers, ExecNamed, Step
  <2>2. CASE ~UNCHANGED vars
    <3>1. /\ UNCHANGED at
          /\ \E kind \in Kinds, step \in {"findGame", "findStop"}, a \in BOOLEAN :
               Start(r, kind, w, step, a)
      BY <1>1, <2>2 DEF Arrive, Restart, Create, Update, Upload, Delete,
         DeleteFiles, Refuse, Kinds, servers
    <3> QED BY <3>1, MovedBy, ExecLeft
  <2> QED BY <2>1, <2>2
<1>2. ASSUME NEW r \in Requests, BootRestart(r) PROVE ExecNamed'
  <2>1. UNCHANGED at /\ \E x \in rows : Start(r, "restart", x.world, "findGame", TRUE)
    BY <1>2 DEF BootRestart, servers
  <2> QED BY <2>1, MovedBy, ExecLeft
<1>3. ASSUME NEW r \in Requests, DeleteRow(r) PROVE ExecNamed'
  <2>1. handler[r] \in Locals
    BY DEF RowsInv, RowTypes
  <2>2. [handler[r] EXCEPT !.answered = TRUE].step = handler[r].step
        /\ [handler[r] EXCEPT !.answered = TRUE].port = handler[r].port
    BY <2>1 DEF Locals
  <2>3. Idle.step = "done"
    BY DEF Idle
  <2>4. UNCHANGED at
    BY <1>3 DEF DeleteRow, servers
  <2> QED BY <1>3, <2>2, <2>3, <2>4 DEF DeleteRow, ExecNamed, Step, RowsInv,
             RowTypes
<1>4. ASSUME NEW r \in Requests, Work(r) PROVE ExecNamed'
  <2>1. CASE InsertRow(r) \/ SetPort(r) \/ Lookup(r)
    <3>1. handler[r] \in Locals /\ handler \in [Requests -> Locals]
      BY DEF RowsInv, RowTypes
    <3>2. UNCHANGED at
      BY <2>1 DEF InsertRow, SetPort, Lookup, servers
    <3>3. /\ \A i : [handler[r] EXCEPT !.step = "setPort", !.row = i].step = "setPort"
          /\ \A p : [handler[r] EXCEPT !.step = "writeConf", !.port = p].step = "writeConf"
      BY <3>1 DEF Locals
    <3>4. CASE InsertRow(r)
      <4>1. handler' = [handler EXCEPT ![r] =
              [handler[r] EXCEPT !.step = "setPort", !.row = lastRow + 1]]
        BY <3>1, <3>4 DEF InsertRow
      <4>2. Moved(r, "setPort")
        BY <3>1, <3>3, <4>1 DEF Moved
      <4> QED BY <3>2, <4>2, ExecLeft
    <3>5. ASSUME NEW p, handler' = [handler EXCEPT ![r].step = "writeConf",
                                                   ![r].port = p]
          PROVE  ExecNamed'
      <4>1. handler' = [handler EXCEPT ![r] =
              [handler[r] EXCEPT !.step = "writeConf", !.port = p]]
        BY <3>1, <3>5
      <4>2. Moved(r, "writeConf")
        BY <3>1, <3>3, <4>1 DEF Moved
      <4> QED BY <3>2, <4>2, ExecLeft
    <3>6. ASSUME Goto(r, "insert") PROVE ExecNamed'
      BY <3>2, <3>6, MovedBy, ExecLeft DEF Steps
    <3> QED BY <2>1, <3>4, <3>5, <3>6 DEF SetPort, Lookup
  <2>2. CASE FindPort(r)
    <3>1. CASE Goto(r, "lookup") /\ UNCHANGED servers
      BY <3>1, MovedBy, ExecLeft DEF Steps, servers
    <3> QED BY <2>2, <3>1, ExecCalled DEF FindPort
  <2>3. CASE WriteConf(r)
    <3>1. CASE UNCHANGED servers /\ (Goto(r, "saveGame") \/ Return(r))
      BY <3>1, MovedBy, ExecLeft DEF Steps, servers
    <3> QED BY <2>3, <3>1, ExecCalled DEF WriteConf, Fail
  <2>4. CASE /\ ContinueExec(r) \/ ContinueStop(r) \/ FindStop(r)
    <3>1. \A q \in Requests : q # r => at'[q] = at[q]
      BY <2>4 DEF ContinueExec, ContinueStop, FindStop, servers, S!ContinueExec,
         S!ContinueStop, S!Return, S!CallStop, S!StopChild, S!TypeOK
    <3>2. \/ Return(r) \/ Goto(r, "saveGame") \/ Goto(r, "remove") \/ Goto(r, "stop")
      BY <2>4 DEF ContinueExec, ContinueStop, FindStop
    <3> QED BY <3>1, <3>2, MovedBy, ExecLeft DEF Steps
  <2>5. CASE \/ FindGame(r) \/ RemoveFolder(r) \/ HandleWorldMtFile(r) \/ Overview(r)
             \/ CopyFolder(r) \/ RemoveTemp(r)
             \/ SaveGame(r)
    <3>1. UNCHANGED at
      BY <2>5 DEF FindGame, RemoveFolder, HandleWorldMtFile, Overview, CopyFolder,
         RemoveTemp, SaveGame, servers
    <3>2. \/ Return(r) \/ Goto(r, "findPort") \/ Goto(r, "worldMt")
          \/ Goto(r, "overview") \/ Goto(r, "copy")
          \/ Goto(r, "removeTemp") \/ Goto(r, "lookup")
      BY <2>5 DEF FindGame, RemoveFolder, Removed, HandleWorldMtFile, Overview,
         CopyFolder, RemoveTemp, SaveGame, Fail
    <3> QED BY <3>1, <3>2, MovedBy, ExecLeft DEF Steps
  <2> QED BY <1>4, <2>1, <2>2, <2>3, <2>4, <2>5 DEF Work
<1>5. ASSUME NEW c \in Children, ServerStep(c) PROVE ExecNamed'
  BY <1>5 DEF ServerStep, S!OnClose, S!Exit, S!requests, ExecNamed, Step
<1>6. CASE Crash
  BY <1>6 DEF Crash, ExecNamed, Step, Idle
<1>7. CASE UNCHANGED vars
  BY <1>7 DEF vars, servers, ExecNamed, Step
<1> QED BY <1>1, <1>2, <1>3, <1>4, <1>5, <1>6, <1>7 DEF Next

LEMMA PortsAreNumbers == Ports \subseteq Nat /\ None \notin Ports
BY PortNumbers, NoneIsFresh DEF Ports

\* The tables and the servers' worlds change when a server is started, when
\* one ends, and in a crash.
LEMMA ServersChange ==
  ASSUME [Next]_vars
  PROVE  \/ \E r \in Requests : ContinueExec(r)
         \/ \E c \in Children : ServerStep(c)
         \/ Crash
         \/ UNCHANGED <<childProcesses, serves>>
<1>1. UNCHANGED servers => UNCHANGED childProcesses
  BY DEF servers
<1>2. ASSUME NEW r \in Requests, NEW w \in Worlds, Arrive(r, w)
      PROVE  UNCHANGED <<childProcesses, serves>>
  BY <1>1, <1>2 DEF Arrive, Restart, Create, Update, Upload, Delete,
     DeleteFiles, Refuse, vars
<1>3. ASSUME NEW r \in Requests, BootRestart(r) \/ DeleteRow(r)
      PROVE  UNCHANGED <<childProcesses, serves>>
  BY <1>1, <1>3 DEF BootRestart, DeleteRow
<1>4. ASSUME NEW r \in Requests, Work(r), ~ContinueExec(r)
      PROVE  UNCHANGED <<childProcesses, serves>>
  <2>1. CASE FindPort(r) \/ WriteConf(r) \/ FindStop(r) \/ ContinueStop(r)
    BY <1>1, <2>1 DEF FindPort, WriteConf, FindStop, ContinueStop, Exec,
       S!CallExec, S!CallStop, S!StopChild, S!ContinueStop, S!tables
  <2>2. CASE \/ FindGame(r) \/ Lookup(r) \/ InsertRow(r) \/ SetPort(r)
             \/ RemoveFolder(r) \/ HandleWorldMtFile(r) \/ Overview(r)
             \/ CopyFolder(r) \/ RemoveTemp(r) \/ SaveGame(r)
    BY <1>1, <2>2 DEF FindGame, Lookup, InsertRow, SetPort, RemoveFolder,
       HandleWorldMtFile, Overview, CopyFolder, RemoveTemp, SaveGame
  <2> QED BY <1>4, <2>1, <2>2 DEF Work
<1>5. UNCHANGED vars => UNCHANGED <<childProcesses, serves>>
  BY <1>1 DEF vars
<1> QED BY <1>2, <1>3, <1>4, <1>5 DEF Next

\* The spawned server is one of the world that the handler works for, on a
\* port of that world; a tracked child is no new one.
LEMMA SpawnServesOwner ==
  ASSUME IInv, NEW r \in Requests, ContinueExec(r)
  PROVE  TrackedServesOwner' /\ serves' \in [Children -> Worlds \cup {None}]
<1>1. S!TypeOK /\ RowsInv /\ ExecNamed /\ TrackedServesOwner
  BY SupervisorTypes DEF IInv
<1>2. /\ Step(r) = "exec" /\ UNCHANGED rows
      /\ serves' = [c \in Children |-> IF proc[c] = "unborn" /\ proc'[c] # "unborn"
                                       THEN World(r) ELSE serves[c]]
  BY DEF ContinueExec, database
<1>3. World(r) \in Worlds
  BY <1>1, <1>2, WorldOfStep
<1>4. PICK x \in rows : x.world = World(r) /\ x.port = at[r]
  BY <1>1, <1>2 DEF RowsInv, StepsRemember, Remembers, ExecNamed, Step, World
<1>5. PICK c \in Children :
        /\ proc[c] = "unborn" /\ proc' = [proc EXCEPT ![c] = "running"]
        /\ childProcesses' = [childProcesses EXCEPT ![at[r]] = c]
  BY DEF ContinueExec, S!ContinueExec, S!Spawn, S!Unborn
<1>6. serves' = [serves EXCEPT ![c] = World(r)]
  <2>1. \A d \in Children : proc[d] = "unborn" /\ proc'[d] # "unborn" <=> d = c
    BY <1>1, <1>5 DEF S!TypeOK
  <2> QED BY <1>2, <2>1 DEF IInv, RestTypes
<1>7. TrackedServesOwner'
  <2> SUFFICES ASSUME NEW p \in Ports, childProcesses'[p] # None
               PROVE  \E y \in rows : y.port = p /\ y.world = serves'[childProcesses'[p]]
    BY <1>2 DEF TrackedServesOwner
  <2>1. CASE p = at[r]
    BY <1>1, <1>4, <1>5, <1>6, <2>1 DEF S!TypeOK, IInv, RestTypes
  <2>2. CASE p # at[r]
    <3>1. childProcesses'[p] = childProcesses[p]
      BY <1>1, <1>5, <2>2 DEF S!TypeOK
    <3>2. proc[childProcesses[p]] # "unborn" /\ childProcesses[p] \in Children
      BY <1>1, <3>1 DEF IInv, SP!IInv, SP!RunningsNotStale, S!TypeOK
    <3>3. serves'[childProcesses[p]] = serves[childProcesses[p]]
      BY <1>5, <1>6, <3>2 DEF IInv, RestTypes
    <3> QED BY <1>1, <3>1, <3>3 DEF TrackedServesOwner
  <2> QED BY <2>1, <2>2
<1> QED BY <1>3, <1>6, <1>7 DEF IInv, RestTypes

LEMMA ServesStep ==
  ASSUME IInv, [Next]_vars
  PROVE  TrackedServesOwner' /\ serves' \in [Children -> Worlds \cup {None}]
<1>1. S!TypeOK /\ RowsInv /\ TrackedServesOwner
  BY SupervisorTypes DEF IInv
<1>2. \A x \in rows : x.port # None => x \in rows'
  BY <1>1, RowsStep
<1>3. \A p \in Ports : childProcesses[p] # None =>
        \E x \in rows' : x.port = p /\ x.world = serves[childProcesses[p]]
  BY <1>1, <1>2, PortsAreNumbers DEF TrackedServesOwner
<1>4. CASE UNCHANGED <<childProcesses, serves>>
  BY <1>3, <1>4 DEF TrackedServesOwner, IInv, RestTypes
<1>5. ASSUME NEW c \in Children, ServerStep(c)
      PROVE  TrackedServesOwner' /\ serves' \in [Children -> Worlds \cup {None}]
  <2>1. UNCHANGED serves
    BY <1>5 DEF ServerStep
  <2>2. \A p \in Ports : childProcesses'[p] \in {None, childProcesses[p]}
    BY <1>1, <1>5 DEF ServerStep, S!OnClose, S!Exit, S!CloseResolve, S!tables,
       S!TypeOK
  <2> QED BY <1>3, <2>1, <2>2 DEF TrackedServesOwner, IInv, RestTypes
<1>6. CASE Crash
  BY <1>6 DEF Crash, S!Crash, TrackedServesOwner, IInv, RestTypes
<1> QED BY <1>4, <1>5, <1>6, SpawnServesOwner, ServersChange

LEMMA RestTypesStep ==
  ASSUME IInv, [Next]_vars
  PROVE  RestTypes'
<1> DEFINE Kept == /\ boot' \subseteq 1 .. MaxRows
                   /\ withFile' \subseteq games' /\ games' \subseteq Worlds
                   /\ worlds' \subseteq Worlds /\ temp' \subseteq Worlds
                   /\ failed' \subseteq Worlds
<1>1. RowsInv /\ RestTypes
  BY DEF IInv
<1>2. ASSUME NEW r \in Requests, NEW w \in Worlds, Arrive(r, w) PROVE Kept
  BY <1>1, <1>2 DEF RestTypes, Arrive, Restart, Create, Update, Upload, Delete,
     DeleteFiles, Refuse, vars, database
<1>3. ASSUME NEW r \in Requests, BootRestart(r) \/ DeleteRow(r) PROVE Kept
  BY <1>1, <1>3 DEF RestTypes, BootRestart, DeleteRow, database
<1>4. ASSUME NEW r \in Requests, Work(r) PROVE Kept
  <2>1. CASE \/ CopyFolder(r) \/ RemoveFolder(r) \/ RemoveTemp(r)
             \/ HandleWorldMtFile(r) \/ WriteConf(r) \/ SaveGame(r)
    <3>1. World(r) \in Worlds
      BY <1>1, <2>1, WorldOfStep DEF CopyFolder, RemoveFolder, RemoveTemp,
         HandleWorldMtFile, WriteConf, SaveGame, Callback
    <3>2. failed' \in {failed, failed \cup {World(r)}, failed \ {World(r)}}
      BY <2>1 DEF CopyFolder, RemoveFolder, RemoveTemp, HandleWorldMtFile,
         WriteConf, SaveGame, Fail
    <3>3. /\ boot' = boot
          /\ worlds' \in {worlds, worlds \cup {World(r)}, worlds \ {World(r)}}
          /\ temp' \in {temp, temp \ {World(r)}}
      BY <2>1 DEF CopyFolder, RemoveFolder, RemoveTemp, HandleWorldMtFile,
         WriteConf, SaveGame
    <3>4. \/ UNCHANGED <<games, withFile>>
          \/ games' = games \cup {World(r)} /\ withFile' = withFile \cup {World(r)}
      BY <2>1 DEF CopyFolder, RemoveFolder, RemoveTemp, HandleWorldMtFile,
         WriteConf, SaveGame, database
    <3> QED BY <1>1, <3>1, <3>2, <3>3, <3>4 DEF RestTypes
  <2>2. CASE \/ FindGame(r) \/ FindPort(r) \/ Lookup(r) \/ InsertRow(r)
             \/ SetPort(r) \/ ContinueExec(r) \/ FindStop(r)
             \/ ContinueStop(r) \/ Overview(r)
    BY <1>1, <2>2 DEF RestTypes, FindGame, FindPort, Lookup, InsertRow,
       SetPort, ContinueExec, FindStop, ContinueStop, Overview, database
  <2> QED BY <1>4, <2>1, <2>2 DEF Work
<1>5. ASSUME NEW c \in Children, ServerStep(c) PROVE Kept
  BY <1>1, <1>5 DEF RestTypes, ServerStep, database
<1>6. ASSUME Crash PROVE Kept
  <2>1. {x.id : x \in rows} \subseteq 1 .. MaxRows
    <3>1. \A x \in rows : x.id \in 1 .. MaxRows
      BY <1>1 DEF RowsInv, RowTypes
    <3> QED BY <3>1
  <2>2. /\ boot' = {x.id : x \in rows}
        /\ UNCHANGED <<games, withFile, worlds, temp, failed>>
    BY <1>6 DEF Crash, database
  <2>3. boot' \subseteq 1 .. MaxRows
    BY <2>1, <2>2
  <2> QED BY <1>1, <2>2, <2>3 DEF RestTypes
<1>7. ASSUME UNCHANGED vars PROVE Kept
  BY <1>1, <1>7 DEF RestTypes, vars, database
<1>8. Kept
  BY <1>2, <1>3, <1>4, <1>5, <1>6, <1>7 DEF Next
<1> QED BY <1>8, ServesStep DEF RestTypes

-----------------------------------------------------------------------------
(* The theorems. *)

LEMMA InitIInv == Init => IInv
<1> SUFFICES ASSUME Init PROVE IInv
  OBVIOUS
<1>1. SP!IInv
  BY SupervisorInit DEF Init
<1>2. RowTypes /\ RowsNumbered /\ StepsRemember /\ OwnRows
  BY IdleLocals DEF Init, RowTypes, RowsNumbered, StepsRemember, OwnRows,
     Remembers, Step, Idle
<1>3. RowsLeft
  <2>1. Pending = {}
    BY DEF Init, Pending, Pends, Idle
  <2> QED BY <2>1, FS_EmptySet, PortNumbers DEF Init, RowsLeft
<1>4. ExecNamed
  BY DEF Init, ExecNamed, Step, Idle
<1>5. TrackedServesOwner /\ RestTypes
  BY DEF Init, S!Init, TrackedServesOwner, RestTypes
<1> QED BY <1>1, <1>2, <1>3, <1>4, <1>5 DEF IInv, RowsInv

LEMMA NextIInv == IInv /\ [Next]_vars => IInv'
<1> SUFFICES ASSUME IInv, [Next]_vars PROVE IInv'
  OBVIOUS
<1>1. RowsInv /\ SP!IInv /\ S!TypeOK /\ ExecNamed
  BY SupervisorTypes DEF IInv
<1>2. SP!IInv'
  BY <1>1, WorldsCalls, SupervisorStep
<1> QED BY <1>1, <1>2, RowsStep, ExecStep, ServesStep, RestTypesStep DEF IInv

\* Whatever requests, bootstraps and crashes come: the supervisor, the rows and the
\* server tracked on each port agree.
THEOREM InvariantHolds == Spec => []IInv
BY InitIInv, NextIInv, PTL DEF Spec

\* Whatever requests arrive, for any worlds and in any order: every handler
\* calls the supervisor only from a callback, with a port of the table and
\* one call at a time, so that everything proved of MinetestServers holds here.
THEOREM SupervisorUsed == Spec => SupervisorSpec
<1>1. Init => S!Init
  BY DEF Init
<1>2. IInv /\ [Next]_vars => [S!Next]_S!vars
  BY WorldsCalls DEF IInv
<1>3. [S!Next]_S!vars => [UNCHANGED servers \/ S!Next]_servers
  BY DEF servers, S!vars, S!tables, S!requests, S!os
<1> QED BY <1>1, <1>2, <1>3, InvariantHolds, PTL DEF Spec, SupervisorSpec

\* The tables, the locals of the handlers and the rows keep their types; a
\* row that may still be inserted fits the bound.
THEOREM TypesKept == Spec => []TypeOK
<1>1. IInv => TypeOK
  <2> SUFFICES ASSUME IInv PROVE TypeOK
    OBVIOUS
  <2>1. RowsInv /\ RestTypes /\ S!TypeOK
    BY SupervisorTypes DEF IInv
  <2>2. lastRow \in 0 .. MaxRows
    BY <2>1, FewerPending, PortNumbers DEF RowsInv, RowTypes
  <2> QED BY <2>1, <2>2 DEF TypeOK, RowsInv, RowTypes, RestTypes
<1> QED BY <1>1, InvariantHolds, PTL

\* No two rows have a port in common.
LEMMA PortsApart ==
  ASSUME RowsInv, NEW x \in rows, NEW y \in rows, x.port # None, x.port = y.port
  PROVE  x = y
<1>1. x.id \in Nat /\ y.id \in Nat /\ PortsBegin \in Nat
  BY PortNumbers DEF RowsInv, RowTypes
<1>2. x.port = PortsBegin + x.id /\ y.port = PortsBegin + y.id
  BY DEF RowsInv, RowsNumbered
<1>3. PortsBegin + x.id = PortsBegin + y.id
  BY <1>2
<1>4. x.id = y.id
  BY <1>1, <1>3
<1> QED BY <1>4 DEF RowsInv, RowsNumbered

\* No two rows get the same port, although handlers for the same or for
\* different worlds insert at the same time and set the port later; and the
\* server tracked on a port was started for the world that owns the port.
THEOREM PortsServeTheirWorlds == Spec => []PortServesItsWorld
<1>1. IInv => PortServesItsWorld
  <2> SUFFICES ASSUME IInv PROVE PortServesItsWorld
    OBVIOUS
  <2>1. RowsInv /\ TrackedServesOwner
    BY DEF IInv
  <2>2. ASSUME NEW x \in rows, NEW y \in rows, x.port # None, x.port = y.port
        PROVE  x = y
    BY <2>1, <2>2, PortsApart
  <2> QED BY <2>1, <2>2 DEF PortServesItsWorld, TrackedServesOwner
<1> QED BY <1>1, InvariantHolds, PTL

\* The port a world was found under once is its port for ever: a row inserted
\* later, by a handler that had found none, is never found first.
THEOREM PortsStay == Spec => PortStable
<1>1. IInv /\ [Next]_vars =>
        [\A w \in Worlds : PortOf(w) # None => PortOf(w)' = PortOf(w)]_vars
  BY RowsStep DEF IInv
<1> QED BY <1>1, InvariantHolds, PTL DEF Spec, PortStable

-----------------------------------------------------------------------------
(* The worlds of careful clients: no two handlers are under way for one of   *)
(* them, as long as the first process lives.  Handlers of other worlds and   *)
(* servers that end by themselves come in between at any step.               *)

\* A server the present process has started and not seen end.
Alive(c)     == c \in attached /\ proc[c] \in {"running", "exited"}
NoneAlive(w) == \A c \in Children : serves[c] = w => ~Alive(c)

\* Every server was started for the world that owns its port, and every call of
\* the supervisor is for the port of the handler's world.
Serving ==
  \A c \in Children :
    IF proc[c] = "unborn" THEN serves[c] = None
    ELSE \E x \in rows : x.port = boundTo[c] /\ x.world = serves[c] /\ boundTo[c] # None
Calling ==
  \A r \in Requests : pc[r] # "idle" =>
    /\ Step(r) \in {"exec", "stop"}
    /\ \E x \in rows : x.port = at[r] /\ x.world = World(r)

\* What holds of a world nothing is under way for; folder and game of a world are
\* given up once an upload or a removal of it has failed.
Ported(w) == \A x \in RowsOf(w) : x.port # None
Clean(w)  == w \notin games \cup failed => w \notin worlds /\ NoneAlive(w)
HasFolder(w) == w \in withFile => w \in worlds \cup failed
Agrees(w) == Ported(w) /\ Clean(w) /\ HasFolder(w)

\* The steps of each handler: before the folder is copied, and after the stop.
StepsOf(kind) ==
  IF kind = "restart"
  THEN {"findGame", "findPort", "lookup", "insert", "setPort", "writeConf", "exec"}
  ELSE IF kind \in {"create", "update"}
  THEN Steps \ {"findGame", "findPort", "done"}
  ELSE IF kind = "delete" THEN {"findStop", "stop", "remove", "done"}
  ELSE {"findStop", "stop", "remove"}

BeforeCopy == {"findStop", "stop", "remove", "worldMt", "overview", "copy"}
Stopped == {"remove", "worldMt", "overview", "copy", "removeTemp", "lookup",
            "insert", "setPort", "writeConf", "done"}

\* What a handler h of w relies on at its step.
Fits(h, w) ==
  /\ h.step \in StepsOf(h.kind)
  /\ h.step # "setPort" => Ported(w)
  /\ h.step = "insert" => RowsOf(w) = {}
  /\ h.kind = "restart" => /\ HasFolder(w)
                           /\ IF h.step = "findGame" THEN Clean(w) ELSE w \in games
  /\ h.kind \in {"create", "update"} =>
       IF h.step \in BeforeCopy THEN w \in temp ELSE w \in worlds
  /\ h.step = "removeTemp" => w \in temp
  /\ h.kind = "update" => w \in games
  /\ h.kind = "delete" =>
       /\ h.answered => w \notin games
       /\ h.step = "done" => w \notin worlds \ failed /\ ~h.answered
  /\ h.kind = "deleteFiles" => w \in games /\ w \notin withFile
  /\ h.kind # "restart" /\ h.step \in Stopped => NoneAlive(w)

\* One handler at a time, one row, every server tracked.
SerialWorld(w) ==
  /\ \A q, r \in Requests : Busy(q) /\ Busy(r) /\ World(q) = w /\ World(r) = w => q = r
  /\ \A x, y \in RowsOf(w) : x = y
  /\ \A c \in Children : serves[c] = w /\ Alive(c) => childProcesses[boundTo[c]] = c
  /\ \A r \in Requests : Busy(r) /\ World(r) = w =>
       /\ Fits(handler[r], w)
       /\ pc[r] = "ready" => NoneAlive(w)
  /\ Settled(w) => Agrees(w)

\* The inductive invariant of this part; no boot follows while crashes = 0.
CarefulInv ==
  /\ Serving /\ Calling
  /\ crashes = 0 => boot = {} /\ \A w \in Careful : SerialWorld(w)

\* The handler r becomes g, and the others stay what they are.
Becomes(r, g) == handler' = [handler EXCEPT ![r] = g]

\* g is h at another step.
Same(g, h) == g.kind = h.kind /\ g.world = h.world /\ g.answered = h.answered

LEMMA BecomesIs ==
  ASSUME RowsInv, NEW r \in Requests, NEW g, Becomes(r, g)
  PROVE  \A q \in Requests : handler'[q] = IF q = r THEN g ELSE handler[q]
BY DEF RowsInv, RowTypes, Becomes

\* The handler goes to a step with a port, or with a row.
TakesPort(r, step, p) == handler' = [handler EXCEPT ![r].step = step, ![r].port = p]
TakesRow(r, step, i)  == handler' = [handler EXCEPT ![r].step = step, ![r].row = i]

LEMMA Goes ==
  ASSUME RowsInv, NEW r \in Requests
  PROVE  /\ \A step : Goto(r, step) =>
              \E g : Becomes(r, g) /\ g.step = step /\ Same(g, handler[r])
         /\ \A step, p : TakesPort(r, step, p) =>
              \E g : Becomes(r, g) /\ g.step = step /\ Same(g, handler[r])
         /\ \A step, i : TakesRow(r, step, i) =>
              \E g : Becomes(r, g) /\ g.step = step /\ Same(g, handler[r])
<1>1. handler \in [Requests -> Locals] /\ handler[r] \in Locals
  BY DEF RowsInv, RowTypes
<1>2. ASSUME NEW step, Goto(r, step)
      PROVE  \E g : Becomes(r, g) /\ g.step = step /\ Same(g, handler[r])
  <2>1. PICK g : g = [handler[r] EXCEPT !.step = step]
    OBVIOUS
  <2>2. Becomes(r, g)
    BY <1>2, <2>1 DEF Goto, Becomes
  <2>3. g.step = step /\ Same(g, handler[r])
    BY <1>1, <2>1 DEF Same, Locals
  <2> QED BY <2>2, <2>3
<1>3. ASSUME NEW step, NEW p, TakesPort(r, step, p)
      PROVE  \E g : Becomes(r, g) /\ g.step = step /\ Same(g, handler[r])
  <2>1. PICK g : g = [handler[r] EXCEPT !.step = step, !.port = p]
    OBVIOUS
  <2>2. Becomes(r, g)
    BY <1>1, <1>3, <2>1 DEF TakesPort, Becomes
  <2>3. g.step = step /\ Same(g, handler[r])
    BY <1>1, <2>1 DEF Same, Locals
  <2> QED BY <2>2, <2>3
<1>4. ASSUME NEW step, NEW i, TakesRow(r, step, i)
      PROVE  \E g : Becomes(r, g) /\ g.step = step /\ Same(g, handler[r])
  <2>1. PICK g : g = [handler[r] EXCEPT !.step = step, !.row = i]
    OBVIOUS
  <2>2. Becomes(r, g)
    BY <1>1, <1>4, <2>1 DEF TakesRow, Becomes
  <2>3. g.step = step /\ Same(g, handler[r])
    BY <1>1, <2>1 DEF Same, Locals
  <2> QED BY <2>2, <2>3
<1> QED BY <1>2, <1>3, <1>4

LEMMA Begins ==
  ASSUME RowsInv, NEW r \in Requests, NEW kind, NEW w \in Worlds, NEW step,
         NEW answered, Start(r, kind, w, step, answered)
  PROVE  \E g : /\ Becomes(r, g) /\ g # Idle
                /\ g.step = step /\ g.kind = kind /\ g.world = w
                /\ g.answered = answered
<1>1. PICK g : g = [Idle EXCEPT !.step = step, !.kind = kind, !.world = w,
                                !.answered = answered]
  OBVIOUS
<1>2. g.step = step /\ g.kind = kind /\ g.world = w /\ g.answered = answered
  BY <1>1 DEF Idle
<1>3. g # Idle
  BY <1>2, NoneIsFresh DEF Idle
<1> QED BY <1>1, <1>2, <1>3 DEF Start, Becomes

\* A step that leaves the handlers and rows of w, its folders, its game and its
\* servers alone keeps all that is said of w.
LEMMA Elsewhere ==
  ASSUME NEW w, SerialWorld(w),
         \A q \in Requests : World(q) = w \/ World(q)' = w =>
           handler'[q] = handler[q] /\ (pc'[q] = "ready" => pc[q] = "ready"),
         RowsOf(w)' = RowsOf(w),
         w \in games' <=> w \in games, w \in withFile' <=> w \in withFile,
         w \in worlds' <=> w \in worlds, w \in temp' <=> w \in temp,
         w \in failed' <=> w \in failed,
         \A c \in Children : serves'[c] = w <=> serves[c] = w,
         \A c \in Children : serves[c] = w /\ Alive(c)' =>
           Alive(c) /\ (childProcesses[boundTo[c]] = c => childProcesses'[boundTo'[c]] = c)
  PROVE  SerialWorld(w)'
<1>1. Ported(w)' <=> Ported(w)
  BY DEF Ported
<1>2. NoneAlive(w) => NoneAlive(w)'
  BY DEF NoneAlive
<1>3. Clean(w) => Clean(w)'
  BY <1>2 DEF Clean
<1>4. Agrees(w) => Agrees(w)'
  BY <1>1, <1>3 DEF Agrees, HasFolder
<1>5. \A h : Fits(h, w) => Fits(h, w)'
  BY <1>1, <1>2, <1>3 DEF Fits, HasFolder
<1>6. \A q \in Requests : Busy(q)' /\ World(q)' = w =>
        Busy(q) /\ World(q) = w /\ handler'[q] = handler[q]
  BY DEF Busy, World
<1>7. Settled(w)' => Settled(w)
  BY DEF Settled, Busy, World
<1>8. ASSUME NEW q \in Requests, Busy(q)', World(q)' = w
      PROVE  Fits(handler[q], w)' /\ (pc'[q] = "ready" => NoneAlive(w)')
  <2>1. Busy(q) /\ World(q) = w /\ handler'[q] = handler[q]
    BY <1>6, <1>8
  <2>2. Fits(handler[q], w) /\ (pc[q] = "ready" => NoneAlive(w))
    BY <2>1 DEF SerialWorld
  <2>3. pc'[q] = "ready" => pc[q] = "ready"
    BY <2>1
  <2>4. PICK h : h = handler[q]
    OBVIOUS
  <2>5. Fits(h, w)'
    BY <1>5, <2>2, <2>4
  <2> QED BY <1>2, <2>1, <2>2, <2>3, <2>4, <2>5
<1>9. \A c \in Children : serves'[c] = w /\ Alive(c)' => childProcesses'[boundTo'[c]] = c
  BY DEF SerialWorld
<1>10. \A x, y \in RowsOf(w)' : x = y
  BY DEF SerialWorld
<1>11. \A q, r \in Requests :
         Busy(q)' /\ Busy(r)' /\ World(q)' = w /\ World(r)' = w => q = r
  BY <1>6 DEF SerialWorld
<1>12. Settled(w)' => Agrees(w)'
  BY <1>4, <1>7 DEF SerialWorld
<1> QED BY <1>8, <1>9, <1>10, <1>11, <1>12 DEF SerialWorld

\* What is left to show of the step of a handler for w.
LEMMA Here ==
  ASSUME RowsInv, NEW w, SerialWorld(w), NEW r \in Requests,
         Settled(w) \/ (Busy(r) /\ World(r) = w),
         NEW g, Becomes(r, g), g = Idle \/ g.world = w,
         \A x, y \in RowsOf(w)' : x = y,
         \A c \in Children : serves'[c] = w /\ Alive(c)' => childProcesses'[boundTo'[c]] = c,
         g # Idle => Fits(g, w)' /\ (pc'[r] = "ready" => NoneAlive(w)'),
         g = Idle => Agrees(w)'
  PROVE  SerialWorld(w)'
<1>1. \A q \in Requests : handler'[q] = IF q = r THEN g ELSE handler[q]
  BY BecomesIs
<1>2. \A q \in Requests : q # r => ~(Busy(q)' /\ World(q)' = w)
  BY <1>1 DEF SerialWorld, Settled, Busy, World
<1>3. \A q, s \in Requests :
         Busy(q)' /\ Busy(s)' /\ World(q)' = w /\ World(s)' = w => q = s
  BY <1>2
<1>4. Settled(w)' => g = Idle \/ g.world # w
  BY <1>1 DEF Settled, Busy, World
<1>5. ASSUME NEW q \in Requests, Busy(q)', World(q)' = w
      PROVE  Fits(handler[q], w)' /\ (pc'[q] = "ready" => NoneAlive(w)')
  <2>1. q = r /\ handler'[q] = g /\ g # Idle
    BY <1>1, <1>2, <1>5 DEF Busy
  <2> QED BY <2>1
<1>6. Settled(w)' => Agrees(w)'
  <2>1. CASE g = Idle
    BY <2>1
  <2>2. CASE g # Idle
    BY <1>4, <2>2
  <2> QED BY <2>1, <2>2
<1> QED BY <1>3, <1>5, <1>6 DEF SerialWorld

\* The same for a step that does not touch the supervisor or the table.
LEMMA HereQuietly ==
  ASSUME RowsInv, NEW w, SerialWorld(w), NEW r \in Requests,
         Settled(w) \/ (Busy(r) /\ World(r) = w), S!LoopFree,
         UNCHANGED <<servers, rows, serves>>,
         NEW g, Becomes(r, g), g = Idle \/ g.world = w,
         g # Idle => Fits(g, w)',
         g = Idle => Agrees(w)'
  PROVE  SerialWorld(w)'
<1>1. UNCHANGED <<pc, proc, attached, boundTo, childProcesses>>
  BY DEF servers
<1>2. pc'[r] # "ready"
  BY <1>1 DEF S!LoopFree
<1>3. \A x, y \in RowsOf(w)' : x = y
  BY DEF RowsOf, SerialWorld
<1>4. \A c \in Children : serves'[c] = w /\ Alive(c)' => childProcesses'[boundTo'[c]] = c
  BY <1>1 DEF Alive, SerialWorld
<1> QED BY <1>2, <1>3, <1>4, Here

\* What such a step does not change.
LEMMA QuietFacts ==
  ASSUME NEW w, UNCHANGED <<servers, rows, serves>>
  PROVE  /\ Ported(w)' <=> Ported(w)
         /\ RowsOf(w)' = RowsOf(w)
         /\ NoneAlive(w)' <=> NoneAlive(w)
         /\ PortOf(w)' = PortOf(w)
<1>1. UNCHANGED <<proc, attached>>
  BY DEF servers
<1> QED BY <1>1 DEF Ported, RowsOf, NoneAlive, Alive, PortOf

-----------------------------------------------------------------------------
(* Every server serves the owner of its port. *)

\* What a step may do to the processes.
LEMMA ProcessesChange ==
  ASSUME [Next]_vars
  PROVE  \/ \E r \in Requests : ContinueExec(r)
         \/ \E c \in Children : ServerStep(c)
         \/ Crash
         \/ UNCHANGED <<childProcesses, proc, boundTo, attached, serves>>
<1> DEFINE Kept == UNCHANGED <<childProcesses, proc, boundTo, attached, serves>>
<1>1. UNCHANGED <<servers, serves>> => Kept
  BY DEF servers
<1>2. ASSUME NEW r \in Requests, NEW w \in Worlds, Arrive(r, w) PROVE Kept
  BY <1>1, <1>2 DEF Arrive, Restart, Create, Update, Upload, Delete,
     DeleteFiles, Refuse, vars
<1>3. ASSUME NEW r \in Requests, BootRestart(r) \/ DeleteRow(r) PROVE Kept
  BY <1>1, <1>3 DEF BootRestart, DeleteRow
<1>4. ASSUME NEW r \in Requests, Work(r), ~ContinueExec(r) PROVE Kept
  <2>1. CASE FindPort(r) \/ WriteConf(r) \/ FindStop(r) \/ ContinueStop(r)
    BY <1>1, <2>1 DEF FindPort, WriteConf, FindStop, ContinueStop, Exec,
       S!CallExec, S!CallStop, S!StopChild, S!ContinueStop, S!tables, S!os
  <2>2. CASE \/ FindGame(r) \/ Lookup(r) \/ InsertRow(r) \/ SetPort(r)
             \/ RemoveFolder(r) \/ HandleWorldMtFile(r) \/ Overview(r)
             \/ CopyFolder(r) \/ RemoveTemp(r) \/ SaveGame(r)
    BY <1>1, <2>2 DEF FindGame, Lookup, InsertRow, SetPort, RemoveFolder,
       HandleWorldMtFile, Overview, CopyFolder, RemoveTemp, SaveGame
  <2> QED BY <1>4, <2>1, <2>2 DEF Work
<1>5. UNCHANGED vars => Kept
  BY <1>1 DEF vars
<1> QED BY <1>2, <1>3, <1>4, <1>5 DEF Next

\* The server that execMinetest starts.
LEMMA Spawns ==
  ASSUME IInv, Serving, NEW r \in Requests, ContinueExec(r)
  PROVE  \E c \in Children :
           /\ proc[c] = "unborn" /\ serves[c] = None
           /\ proc' = [proc EXCEPT ![c] = "running"]
           /\ boundTo' = [boundTo EXCEPT ![c] = at[r]]
           /\ attached' = attached \cup {c}
           /\ childProcesses' = [childProcesses EXCEPT ![at[r]] = c]
           /\ serves' = [serves EXCEPT ![c] = World(r)]
           /\ World(r) \in Worlds /\ at[r] \in Ports
           /\ \E x \in rows : x.world = World(r) /\ x.port = at[r]
<1>1. S!TypeOK /\ RowsInv /\ ExecNamed
  BY SupervisorTypes DEF IInv
<1>2. /\ Step(r) = "exec" /\ pc[r] = "ready"
      /\ serves' = [c \in Children |-> IF proc[c] = "unborn" /\ proc'[c] # "unborn"
                                       THEN World(r) ELSE serves[c]]
  BY DEF ContinueExec, S!ContinueExec
<1>3. World(r) \in Worlds
  BY <1>1, <1>2, WorldOfStep
<1>4. PICK x \in rows : x.world = World(r) /\ x.port = at[r]
  BY <1>1, <1>2 DEF RowsInv, StepsRemember, Remembers, ExecNamed, Step, World
<1>5. at[r] \in Ports
  BY <1>2 DEF IInv, SP!IInv, SP!References
<1>6. PICK c \in Children :
        /\ proc[c] = "unborn" /\ proc' = [proc EXCEPT ![c] = "running"]
        /\ boundTo' = [boundTo EXCEPT ![c] = at[r]]
        /\ attached' = attached \cup {c}
        /\ childProcesses' = [childProcesses EXCEPT ![at[r]] = c]
  BY DEF ContinueExec, S!ContinueExec, S!Spawn, S!Unborn
<1>7. serves' = [serves EXCEPT ![c] = World(r)]
  <2>1. \A d \in Children : proc[d] = "unborn" /\ proc'[d] # "unborn" <=> d = c
    BY <1>1, <1>6 DEF S!TypeOK
  <2> QED BY <1>2, <2>1 DEF IInv, RestTypes
<1> QED BY <1>3, <1>4, <1>5, <1>6, <1>7 DEF Serving

LEMMA ServingStep ==
  ASSUME IInv, Serving, [Next]_vars
  PROVE  Serving'
<1>1. S!TypeOK /\ RowsInv /\ serves \in [Children -> Worlds \cup {None}]
  BY SupervisorTypes DEF IInv, RestTypes
<1>2. \A x \in rows : x.port # None => x \in rows'
  BY <1>1, RowsStep
<1>3. CASE UNCHANGED <<childProcesses, proc, boundTo, attached, serves>>
  BY <1>2, <1>3 DEF Serving
<1>4. ASSUME NEW r \in Requests, ContinueExec(r) PROVE Serving'
  <2>1. PICK c \in Children :
           /\ proc' = [proc EXCEPT ![c] = "running"]
           /\ boundTo' = [boundTo EXCEPT ![c] = at[r]]
           /\ serves' = [serves EXCEPT ![c] = World(r)]
           /\ at[r] \in Ports
           /\ \E x \in rows : x.world = World(r) /\ x.port = at[r]
    BY <1>4, Spawns
  <2>2. PICK x \in rows : x.world = World(r) /\ x.port = at[r]
    BY <2>1
  <2>3. at[r] # None /\ x \in rows'
    BY <1>2, <2>1, <2>2, PortsAreNumbers
  <2> SUFFICES ASSUME NEW d \in Children
               PROVE  IF proc'[d] = "unborn" THEN serves'[d] = None
                      ELSE \E y \in rows' : y.port = boundTo'[d] /\ y.world = serves'[d]
                                            /\ boundTo'[d] # None
    BY DEF Serving
  <2>4. CASE d = c
    BY <1>1, <2>1, <2>2, <2>3, <2>4 DEF S!TypeOK
  <2>5. CASE d # c
    <3>1. proc'[d] = proc[d] /\ boundTo'[d] = boundTo[d] /\ serves'[d] = serves[d]
      BY <1>1, <2>1, <2>5 DEF S!TypeOK
    <3> QED BY <1>2, <3>1 DEF Serving
  <2> QED BY <2>4, <2>5
<1>5. ASSUME NEW c \in Children, ServerStep(c) PROVE Serving'
  <2>1. UNCHANGED <<boundTo, serves>>
    BY <1>5 DEF ServerStep, S!OnClose, S!Exit
  <2>2. \A d \in Children : proc'[d] = "unborn" <=> proc[d] = "unborn"
    BY <1>1, <1>5 DEF ServerStep, S!OnClose, S!Exit, S!TypeOK
  <2> QED BY <1>2, <2>1, <2>2 DEF Serving
<1>6. CASE Crash
  BY <1>2, <1>6 DEF Crash, S!Crash, Serving
<1> QED BY <1>3, <1>4, <1>5, <1>6, ProcessesChange

-----------------------------------------------------------------------------
(* The calls of the supervisor. *)

\* The handlers but r, and what the supervisor knows of them, stay the same.
OthersStay(r) ==
  \A q \in Requests : q # r =>
    handler'[q] = handler[q] /\ pc'[q] = pc[q] /\ at'[q] = at[q]

\* Afterwards r works for the world it worked for, or not at all.
StaysAt(r) == handler'[r] = Idle \/ World(r)' = World(r)

LEMMA WorkStays ==
  ASSUME IInv, NEW r \in Requests, Work(r) \/ DeleteRow(r)
  PROVE  OthersStay(r) /\ StaysAt(r)
<1>1. S!TypeOK /\ RowsInv /\ handler \in [Requests -> Locals] /\ handler[r] \in Locals
  BY SupervisorTypes DEF IInv, RowsInv, RowTypes
<1>2. \A q \in Requests : q # r => pc'[q] = pc[q] /\ at'[q] = at[q]
  <2>1. CASE UNCHANGED servers
    BY <2>1 DEF servers
  <2>2. ASSUME NEW p, S!StopChild(r, p)
        PROVE  \A q \in Requests : q # r => pc'[q] = pc[q] /\ at'[q] = at[q]
    BY <1>1, <2>2 DEF S!StopChild, S!TypeOK
  <2>3. CASE S!Return(r)
    BY <1>1, <2>3 DEF S!Return, S!TypeOK
  <2>4. CASE DeleteRow(r) \/ FindGame(r) \/ Lookup(r) \/ InsertRow(r) \/ SetPort(r)
    BY <2>1, <2>4 DEF DeleteRow, FindGame, Lookup, InsertRow, SetPort
  <2>5. CASE \/ RemoveFolder(r) \/ HandleWorldMtFile(r) \/ Overview(r)
             \/ CopyFolder(r) \/ RemoveTemp(r) \/ SaveGame(r)
    BY <2>1, <2>5 DEF RemoveFolder, HandleWorldMtFile, Overview, CopyFolder,
       RemoveTemp, SaveGame
  <2>6. CASE FindPort(r) \/ WriteConf(r) \/ FindStop(r)
    BY <2>1, <2>2, <2>6 DEF FindPort, WriteConf, FindStop, Exec, S!CallExec,
       S!CallStop
  <2>7. CASE ContinueExec(r) \/ ContinueStop(r)
    BY <2>3, <2>7 DEF ContinueExec, ContinueStop, S!ContinueExec, S!ContinueStop
  <2> QED BY <2>4, <2>5, <2>6, <2>7 DEF Work
<1>3. ASSUME NEW g, Becomes(r, g), g = Idle \/ g.world = handler[r].world
      PROVE  /\ \A q \in Requests : q # r => handler'[q] = handler[q]
             /\ StaysAt(r)
  BY <1>1, <1>3, BecomesIs DEF StaysAt, World
<1>4. ASSUME Return(r)
      PROVE  \E g : Becomes(r, g) /\ (g = Idle \/ g.world = handler[r].world)
  <2>1. [handler[r] EXCEPT !.step = "done"].world = handler[r].world
    BY <1>1 DEF Locals
  <2>2. PICK g : g = IF handler[r].kind = "delete" /\ ~handler[r].answered
                     THEN [handler[r] EXCEPT !.step = "done"] ELSE Idle
    OBVIOUS
  <2>3. Becomes(r, g)
    BY <1>1, <1>4, <2>2 DEF Return, Becomes
  <2> QED BY <2>1, <2>2, <2>3
<1>5. CASE DeleteRow(r)
  <2>1. [handler[r] EXCEPT !.answered = TRUE].world = handler[r].world
    BY <1>1 DEF Locals
  <2>2. \E g : Becomes(r, g) /\ (g = Idle \/ g.world = handler[r].world)
    BY <1>1, <1>5, <2>1 DEF DeleteRow, Becomes
  <2> QED BY <1>2, <1>3, <2>2 DEF OthersStay
<1>6. CASE Work(r)
  <2>1. \/ Return(r) \/ \E step : Goto(r, step)
        \/ \E step, p : TakesPort(r, step, p)
        \/ \E step, i : TakesRow(r, step, i)
    <3>1. CASE FindGame(r) \/ FindPort(r) \/ Lookup(r) \/ InsertRow(r)
      BY <3>1 DEF FindGame, FindPort, Lookup, InsertRow, Exec, TakesPort, TakesRow
    <3>2. CASE SetPort(r) \/ WriteConf(r) \/ ContinueExec(r) \/ FindStop(r)
      BY <3>2 DEF SetPort, WriteConf, ContinueExec, FindStop, Exec, TakesPort, Fail
    <3>3. CASE \/ ContinueStop(r) \/ RemoveFolder(r) \/ HandleWorldMtFile(r) \/ Overview(r)
               \/ CopyFolder(r) \/ RemoveTemp(r)
               \/ SaveGame(r)
      BY <3>3 DEF ContinueStop, RemoveFolder, Removed, HandleWorldMtFile, Overview,
         CopyFolder, RemoveTemp, SaveGame, Fail
    <3> QED BY <1>6, <3>1, <3>2, <3>3 DEF Work
  <2>2. \E g : Becomes(r, g) /\ (g = Idle \/ g.world = handler[r].world)
    <3>1. ASSUME NEW step, \E g : Becomes(r, g) /\ g.step = step /\ Same(g, handler[r])
          PROVE  \E g : Becomes(r, g) /\ (g = Idle \/ g.world = handler[r].world)
      BY <3>1 DEF Same
    <3>2. ASSUME NEW step, Goto(r, step)
          PROVE  \E g : Becomes(r, g) /\ (g = Idle \/ g.world = handler[r].world)
      BY <1>1, <3>1, <3>2, Goes
    <3>3. ASSUME NEW step, NEW p, TakesPort(r, step, p)
          PROVE  \E g : Becomes(r, g) /\ (g = Idle \/ g.world = handler[r].world)
      BY <1>1, <3>1, <3>3, Goes
    <3>4. ASSUME NEW step, NEW i, TakesRow(r, step, i)
          PROVE  \E g : Becomes(r, g) /\ (g = Idle \/ g.world = handler[r].world)
      BY <1>1, <3>1, <3>4, Goes
    <3> QED BY <1>4, <2>1, <3>2, <3>3, <3>4
  <2> QED BY <1>2, <1>3, <2>2 DEF OthersStay
<1> QED BY <1>5, <1>6

\* A call of q is for the port of a row of its world.
CallFits(q) ==
  pc[q] # "idle" =>
    /\ Step(q) \in {"exec", "stop"}
    /\ \E x \in rows : x.port = at[q] /\ x.world = World(q)

LEMMA CallStays ==
  ASSUME IInv, [Next]_vars, NEW q \in Requests, CallFits(q),
         pc'[q] # "idle" => pc[q] # "idle", at'[q] = at[q],
         handler'[q].step = handler[q].step, handler'[q].world = handler[q].world
  PROVE  CallFits(q)'
<1>1. \A x \in rows : x.port # None => x \in rows'
  BY RowsStep DEF IInv
<1>2. pc[q] # "idle" => at[q] \in Ports
  BY DEF IInv, SP!IInv, SP!References
<1> QED BY <1>1, <1>2, PortsAreNumbers DEF CallFits, Step, World

\* A call with the port of a row of the handler's world.
LEMMA CallFitsNow ==
  ASSUME IInv, NEW r \in Requests, NEW step \in {"exec", "stop"}, NEW p, NEW x \in rows,
         x.port = p, x.world = World(r), UNCHANGED rows,
         S!StopChild(r, p), TakesPort(r, step, p) \/ Goto(r, step)
  PROVE  CallFits(r)'
<1>1. RowsInv /\ S!TypeOK
  BY SupervisorTypes DEF IInv
<1>2. at'[r] = p
  BY <1>1 DEF S!StopChild, S!TypeOK
<1>3. PICK g : Becomes(r, g) /\ g.step = step /\ Same(g, handler[r])
  <2>1. CASE TakesPort(r, step, p)
    BY <1>1, <2>1, Goes
  <2>2. CASE Goto(r, step)
    BY <1>1, <2>2, Goes
  <2> QED BY <2>1, <2>2
<1>4. handler'[r] = g
  BY <1>1, <1>3, BecomesIs
<1> QED BY <1>2, <1>3, <1>4 DEF CallFits, Step, World, Same

LEMMA CallingStep ==
  ASSUME IInv, Calling, [Next]_vars
  PROVE  Calling'
<1>1. S!TypeOK /\ RowsInv /\ handler \in [Requests -> Locals]
  BY SupervisorTypes DEF IInv, RowsInv, RowTypes
<1>2. \A q \in Requests : CallFits(q)
  BY DEF Calling, CallFits
<1>3. SUFFICES ASSUME NEW q \in Requests PROVE CallFits(q)'
  BY DEF Calling, CallFits
<1>4. ASSUME NEW r \in Requests, Work(r) \/ DeleteRow(r) PROVE CallFits(q)'
  <2>1. CASE q # r
    BY <1>2, <1>4, <2>1, WorkStays, CallStays DEF OthersStay
  <2>2. CASE q = r /\ UNCHANGED servers /\ Step(r) \notin {"exec", "stop"}
    <3>1. pc'[r] = "idle"
      BY <1>2, <2>2 DEF servers, CallFits
    <3> QED BY <2>2, <3>1 DEF CallFits
  <2>3. CASE q = r /\ DeleteRow(r)
    <3>1. [handler[r] EXCEPT !.answered = TRUE].step = handler[r].step
          /\ [handler[r] EXCEPT !.answered = TRUE].world = handler[r].world
      BY <1>1 DEF Locals
    <3>2. UNCHANGED servers
      BY <2>3 DEF DeleteRow
    <3>3. CASE Step(r) = "done"
      BY <2>2, <2>3, <3>2, <3>3
    <3>4. CASE Step(r) # "done"
      <4>1. handler'[r] = [handler[r] EXCEPT !.answered = TRUE]
        BY <1>1, <2>3, <3>4 DEF DeleteRow, Step
      <4> QED BY <1>2, <2>3, <3>1, <3>2, <4>1, CallStays DEF servers
    <3> QED BY <3>3, <3>4
  <2>4. CASE q = r /\ (FindGame(r) \/ Lookup(r) \/ InsertRow(r) \/ SetPort(r))
    BY <2>2, <2>4 DEF FindGame, Lookup, InsertRow, SetPort, Callback
  <2>5. CASE q = r /\ (\/ RemoveFolder(r) \/ HandleWorldMtFile(r) \/ Overview(r)
                       \/ CopyFolder(r) \/ RemoveTemp(r) \/ SaveGame(r))
    BY <2>2, <2>5 DEF RemoveFolder, HandleWorldMtFile, Overview, CopyFolder,
       RemoveTemp, SaveGame, Callback
  <2>6. CASE q = r /\ (ContinueExec(r) \/ ContinueStop(r))
    BY <1>1, <2>6 DEF ContinueExec, ContinueStop, S!ContinueExec, S!ContinueStop,
       S!Return, S!TypeOK, CallFits
  <2>7. CASE q = r /\ FindPort(r)
    <3>1. CASE UNCHANGED servers
      BY <2>2, <2>7, <3>1 DEF FindPort, Callback
    <3>2. CASE ~UNCHANGED servers
      <4>1. Exec(r, PortOf(World(r))) /\ PortOf(World(r)) # None /\ UNCHANGED rows
        BY <2>7, <3>2 DEF FindPort, database
      <4>2. PICK x \in rows : x.world = World(r) /\ x.port = PortOf(World(r))
        BY <1>1, <4>1, PortFound
      <4> QED BY <2>7, <4>1, <4>2, CallFitsNow DEF Exec, S!CallExec, TakesPort
    <3> QED BY <3>1, <3>2
  <2>8. CASE q = r /\ WriteConf(r)
    <3>1. PICK x \in rows : x.world = World(r) /\ x.port = handler[r].port
      BY <1>1, <2>8 DEF WriteConf, Callback, RowsInv, StepsRemember, Remembers,
         Step, World
    <3>2. CASE UNCHANGED servers
      BY <2>2, <2>8, <3>2 DEF WriteConf, Callback
    <3>3. CASE ~UNCHANGED servers
      <4>1. Exec(r, handler[r].port) /\ UNCHANGED rows
        BY <2>8, <3>3 DEF WriteConf, database
      <4> QED BY <2>8, <3>1, <4>1, CallFitsNow DEF Exec, S!CallExec, TakesPort
    <3> QED BY <3>2, <3>3
  <2>9. CASE q = r /\ FindStop(r)
    <3>1. CASE UNCHANGED servers
      BY <2>2, <2>9, <3>1 DEF FindStop, Callback
    <3>2. CASE ~UNCHANGED servers
      <4>1. /\ S!CallStop(r, PortOf(World(r))) /\ Goto(r, "stop")
            /\ PortOf(World(r)) # None /\ UNCHANGED rows
        BY <2>9, <3>2 DEF FindStop, database
      <4>2. PICK x \in rows : x.world = World(r) /\ x.port = PortOf(World(r))
        BY <1>1, <4>1, PortFound
      <4> QED BY <2>9, <4>1, <4>2, CallFitsNow DEF S!CallStop
    <3> QED BY <3>1, <3>2
  <2> QED BY <1>4, <2>1, <2>3, <2>4, <2>5, <2>6, <2>7, <2>8, <2>9 DEF Work
<1>5. ASSUME NEW r \in Requests, NEW kind, NEW w, NEW step, NEW a,
             ~Busy(r), Start(r, kind, w, step, a), UNCHANGED servers
      PROVE  CallFits(q)'
  <2>1. CASE q = r
    <3>1. pc[r] = "idle"
      BY <1>2, <1>5 DEF CallFits, Busy, Step, Idle
    <3> QED BY <1>5, <2>1, <3>1 DEF CallFits, servers
  <2>2. CASE q # r
    BY <1>1, <1>2, <1>5, <2>2, CallStays DEF Start, servers
  <2> QED BY <2>1, <2>2
<1>6. CASE UNCHANGED vars
  BY <1>2, <1>6, CallStays DEF vars, servers
<1>7. ASSUME NEW r \in Requests, NEW w \in Worlds, Arrive(r, w) PROVE CallFits(q)'
  BY <1>5, <1>6, <1>7 DEF Arrive, Restart, Create, Update, Upload, Delete,
     DeleteFiles, Refuse, MayBegin
<1>8. ASSUME NEW r \in Requests, BootRestart(r) PROVE CallFits(q)'
  BY <1>5, <1>8 DEF BootRestart
<1>9. ASSUME NEW c \in Children, ServerStep(c) PROVE CallFits(q)'
  <2>1. UNCHANGED <<at, handler>>
    BY <1>9 DEF ServerStep, S!OnClose, S!Exit, S!requests
  <2>2. pc'[q] # "idle" => pc[q] # "idle"
    BY <1>9 DEF ServerStep, S!OnClose, S!Exit, S!CloseResolve, S!requests
  <2> QED BY <1>2, <2>1, <2>2, CallStays
<1>10. CASE Crash
  BY <1>10 DEF Crash, S!Crash, CallFits
<1> QED BY <1>4, <1>6, <1>7, <1>8, <1>9, <1>10 DEF Next

-----------------------------------------------------------------------------
(* A handler of another world. *)

LEMMA TableElsewhere ==
  ASSUME IInv, NEW r \in Requests, Work(r) \/ DeleteRow(r), NEW w, World(r) # w
  PROVE  RowsOf(w)' = RowsOf(w)
<1>1. RowsInv
  BY DEF IInv
<1>2. CASE UNCHANGED rows
  BY <1>2 DEF RowsOf
<1>3. CASE InsertRow(r)
  BY <1>3 DEF InsertRow, RowsOf
<1>4. CASE SetPort(r)
  <2>1. PICK x \in rows : x.id = handler[r].row /\ x.world = World(r)
    BY <1>1, <1>4 DEF SetPort, Callback, RowsInv, StepsRemember, Remembers, Step,
       World
  <2>2. \A y \in rows : y.id = handler[r].row => y.world # w
    BY <1>1, <2>1 DEF RowsInv, RowsNumbered
  <2> QED BY <1>4, <2>2 DEF SetPort, RowsOf
<1>5. CASE ~InsertRow(r) /\ ~SetPort(r)
  <2>1. UNCHANGED rows
    BY <1>5 DEF Work, FindGame, FindPort, Lookup, WriteConf, ContinueExec,
       FindStop, ContinueStop, RemoveFolder, HandleWorldMtFile, Overview,
       CopyFolder, RemoveTemp, SaveGame,
       DeleteRow, database
  <2> QED BY <1>2, <2>1
<1> QED BY <1>3, <1>4, <1>5

LEMMA FoldersElsewhere ==
  ASSUME NEW r \in Requests, Work(r) \/ DeleteRow(r), NEW w, World(r) # w
  PROVE  /\ w \in games' <=> w \in games
         /\ w \in withFile' <=> w \in withFile
         /\ w \in worlds' <=> w \in worlds
         /\ w \in temp' <=> w \in temp
         /\ w \in failed' <=> w \in failed
<1> DEFINE Kept == /\ w \in games' <=> w \in games
                   /\ w \in withFile' <=> w \in withFile
                   /\ w \in worlds' <=> w \in worlds
                   /\ w \in temp' <=> w \in temp
                   /\ w \in failed' <=> w \in failed
<1>1. CASE DeleteRow(r)
  BY <1>1 DEF DeleteRow
<1>2. CASE RemoveFolder(r)
  BY <1>2 DEF RemoveFolder, database
<1>3. CASE CopyFolder(r)
  BY <1>3 DEF CopyFolder, database, Fail
<1>4. CASE RemoveTemp(r)
  BY <1>4 DEF RemoveTemp, database, Fail
<1>5. CASE SaveGame(r)
  BY <1>5 DEF SaveGame, Fail
<1>6. CASE FindGame(r) \/ FindPort(r) \/ Lookup(r) \/ InsertRow(r) \/ SetPort(r)
  BY <1>6 DEF FindGame, FindPort, Lookup, InsertRow, SetPort, database
<1>7. CASE WriteConf(r) \/ ContinueExec(r) \/ FindStop(r) \/ ContinueStop(r)
  BY <1>7 DEF WriteConf, ContinueExec, FindStop, ContinueStop, database, Fail
<1>8. CASE HandleWorldMtFile(r) \/ Overview(r)
  BY <1>8 DEF HandleWorldMtFile, Overview, database, Fail
<1> QED BY <1>1, <1>2, <1>3, <1>4, <1>5, <1>6, <1>7, <1>8 DEF Work

LEMMA WorkElsewhere ==
  ASSUME IInv, Serving, NEW r \in Requests, Work(r) \/ DeleteRow(r), [Next]_vars,
         NEW w \in Worlds, World(r) # w, SerialWorld(w)
  PROVE  SerialWorld(w)'
<1>1. S!TypeOK /\ RowsInv /\ serves \in [Children -> Worlds \cup {None}]
  BY SupervisorTypes DEF IInv, RestTypes
<1>2. \A q \in Requests : World(q) = w \/ World(q)' = w =>
        handler'[q] = handler[q] /\ (pc'[q] = "ready" => pc[q] = "ready")
  <2>1. w # None
    BY NoneIsFresh
  <2>2. World(r)' # w
    BY <2>1, WorkStays DEF StaysAt, World, Idle
  <2> QED BY <2>2, WorkStays DEF OthersStay
<1>3. /\ \A c \in Children : serves'[c] = w <=> serves[c] = w
      /\ \A c \in Children : serves[c] = w /\ Alive(c)' =>
           Alive(c) /\ (childProcesses[boundTo[c]] = c => childProcesses'[boundTo'[c]] = c)
  <2>1. CASE UNCHANGED <<childProcesses, proc, boundTo, attached, serves>>
    BY <2>1 DEF Alive
  <2>2. CASE ContinueExec(r)
    <3>1. PICK d \in Children :
            /\ proc[d] = "unborn" /\ serves[d] = None
            /\ proc' = [proc EXCEPT ![d] = "running"]
            /\ boundTo' = [boundTo EXCEPT ![d] = at[r]]
            /\ attached' = attached \cup {d}
            /\ childProcesses' = [childProcesses EXCEPT ![at[r]] = d]
            /\ serves' = [serves EXCEPT ![d] = World(r)]
            /\ at[r] \in Ports
            /\ \E x \in rows : x.world = World(r) /\ x.port = at[r]
      BY <2>2, Spawns
    <3>2. w # None
      BY NoneIsFresh
    <3>3. \A c \in Children : serves'[c] = w <=> serves[c] = w
      BY <1>1, <3>1, <3>2
    <3>4. ASSUME NEW c \in Children, serves[c] = w, Alive(c)'
          PROVE  Alive(c) /\ (childProcesses[boundTo[c]] = c => childProcesses'[boundTo'[c]] = c)
      <4>1. c # d
        BY <3>1, <3>2, <3>4
      <4>2. proc'[c] = proc[c] /\ boundTo'[c] = boundTo[c]
        BY <1>1, <3>1, <4>1 DEF S!TypeOK
      <4>3. Alive(c)
        BY <3>1, <3>4, <4>1, <4>2 DEF Alive
      <4>4. PICK y \in rows : y.port = boundTo[c] /\ y.world = w /\ boundTo[c] # None
        BY <3>4, <4>3 DEF Serving, Alive
      <4>5. PICK x \in rows : x.world = World(r) /\ x.port = at[r]
        BY <3>1
      <4>6. boundTo[c] # at[r]
        BY <1>1, <4>4, <4>5, PortsApart
      <4>7. childProcesses'[boundTo[c]] = childProcesses[boundTo[c]]
        BY <1>1, <3>1, <4>4, <4>6 DEF S!TypeOK
      <4> QED BY <4>2, <4>3, <4>7
    <3> QED BY <3>3, <3>4
  <2>3. CASE ~ContinueExec(r)
    <3>1. UNCHANGED <<childProcesses, proc, boundTo, attached, serves>>
      <4>1. CASE UNCHANGED <<servers, serves>>
        BY <4>1 DEF servers
      <4>2. CASE FindPort(r) \/ WriteConf(r) \/ FindStop(r) \/ ContinueStop(r)
        BY <4>1, <4>2 DEF FindPort, WriteConf, FindStop, ContinueStop, Exec,
           S!CallExec, S!CallStop, S!StopChild, S!ContinueStop, S!tables, S!os
      <4>3. CASE \/ FindGame(r) \/ Lookup(r) \/ InsertRow(r) \/ SetPort(r)
                 \/ RemoveFolder(r) \/ HandleWorldMtFile(r) \/ Overview(r)
                 \/ CopyFolder(r) \/ RemoveTemp(r) \/ SaveGame(r)
                 \/ DeleteRow(r)
        BY <4>1, <4>3 DEF FindGame, Lookup, InsertRow, SetPort, RemoveFolder,
           HandleWorldMtFile, Overview, CopyFolder, RemoveTemp, SaveGame, DeleteRow
      <4> QED BY <2>3, <4>2, <4>3 DEF Work
    <3> QED BY <2>1, <3>1
  <2> QED BY <2>2, <2>3
<1> QED BY <1>2, <1>3, TableElsewhere, FoldersElsewhere, Elsewhere

-----------------------------------------------------------------------------
(* A handler of the world itself. *)

\* The port of a world with one row.
LEMMA OneRow ==
  ASSUME IInv, NEW w, \A x, y \in RowsOf(w) : x = y
  PROVE  /\ \A x \in RowsOf(w) : x.port = PortOf(w)
         /\ Ported(w) /\ PortOf(w) = None => RowsOf(w) = {}
<1>1. Keyed(RowsOf(w)) /\ \A x \in RowsOf(w) : x.id \in Nat
  BY RowsKeyed DEF IInv, Keyed
<1>2. ASSUME NEW x \in RowsOf(w) PROVE x.port = PortOf(w)
  <2>1. x.id \in Nat
    BY <1>1
  <2>2. \A y \in RowsOf(w) : y = x
    OBVIOUS
  <2>3. \A y \in RowsOf(w) : x.id <= y.id
    BY <2>1, <2>2
  <2> QED BY <1>1, <2>3, LeastIs, PortOfIsLeast
<1> QED BY <1>2 DEF Ported

\* Without a row there is no server.
LEMMA NoRowNoServer ==
  ASSUME Serving, NEW w \in Worlds, RowsOf(w) = {}
  PROVE  NoneAlive(w)
<1> SUFFICES ASSUME NEW c \in Children, serves[c] = w, Alive(c) PROVE FALSE
  BY DEF NoneAlive
<1>1. proc[c] # "unborn"
  BY DEF Alive
<1> QED BY <1>1 DEF Serving, RowsOf

LEMMA Returns ==
  ASSUME RowsInv, NEW r \in Requests, Return(r)
  PROVE  \E g : /\ Becomes(r, g)
                /\ IF handler[r].kind = "delete" /\ ~handler[r].answered
                   THEN g.step = "done" /\ Same(g, handler[r]) ELSE g = Idle
<1>1. handler[r] \in Locals
  BY DEF RowsInv, RowTypes
<1>2. PICK g : g = IF handler[r].kind = "delete" /\ ~handler[r].answered
                   THEN [handler[r] EXCEPT !.step = "done"] ELSE Idle
  OBVIOUS
<1>3. Becomes(r, g)
  BY <1>2 DEF Return, Becomes
<1>4. [handler[r] EXCEPT !.step = "done"].step = "done"
      /\ Same([handler[r] EXCEPT !.step = "done"], handler[r])
  BY <1>1 DEF Locals, Same
<1> QED BY <1>2, <1>3, <1>4

\* Where the handler r of w is.
At(r, w) == /\ World(r) = w /\ Busy(r) /\ handler[r] \in Locals
            /\ Fits(handler[r], w) /\ (pc[r] = "ready" => NoneAlive(w))

LEMMA HandlerAt ==
  ASSUME IInv, NEW w \in Worlds, SerialWorld(w), NEW r \in Requests, World(r) = w
  PROVE  At(r, w)
<1>1. handler[r] # Idle
  BY NoneIsFresh DEF World, Idle
<1> QED BY <1>1 DEF At, Busy, SerialWorld, IInv, RowsInv, RowTypes

\* A handler of w that only goes on to another step.
LEMMA GoesQuietly ==
  ASSUME IInv, NEW w \in Worlds, SerialWorld(w), NEW r \in Requests, World(r) = w,
         S!LoopFree, UNCHANGED <<servers, rows, serves>>,
         NEW step,
         Goto(r, step) \/ (\E p : TakesPort(r, step, p)) \/ (\E i : TakesRow(r, step, i)),
         \A g : g.step = step /\ Same(g, handler[r]) => Fits(g, w)'
  PROVE  SerialWorld(w)'
<1>1. RowsInv /\ At(r, w)
  BY HandlerAt DEF IInv
<1>2. PICK g : Becomes(r, g) /\ g.step = step /\ Same(g, handler[r])
  BY <1>1, Goes
<1>3. g.world = w /\ g # Idle
  BY <1>1, <1>2, NoneIsFresh DEF At, World, Same, Idle
<1>4. Fits(g, w)'
  BY <1>2
<1> QED BY <1>1, <1>2, <1>3, <1>4, HereQuietly DEF At

\* A handler of w that returns.
LEMMA ReturnsQuietly ==
  ASSUME IInv, NEW w \in Worlds, SerialWorld(w), NEW r \in Requests, World(r) = w,
         S!LoopFree, UNCHANGED <<servers, rows, serves>>, Return(r),
         IF handler[r].kind = "delete" /\ ~handler[r].answered
         THEN \A g : g.step = "done" /\ Same(g, handler[r]) => Fits(g, w)'
         ELSE Agrees(w)'
  PROVE  SerialWorld(w)'
<1>1. RowsInv /\ At(r, w)
  BY HandlerAt DEF IInv
<1>2. PICK g : /\ Becomes(r, g)
               /\ IF handler[r].kind = "delete" /\ ~handler[r].answered
                  THEN g.step = "done" /\ Same(g, handler[r]) ELSE g = Idle
  BY <1>1, Returns
<1>3. CASE handler[r].kind = "delete" /\ ~handler[r].answered
  <2>1. g.world = w /\ g # Idle
    BY <1>1, <1>2, <1>3, NoneIsFresh DEF At, World, Same, Idle
  <2>2. Fits(g, w)'
    BY <1>2, <1>3
  <2> QED BY <1>1, <1>2, <2>1, <2>2, HereQuietly DEF At
<1>4. CASE ~(handler[r].kind = "delete" /\ ~handler[r].answered)
  <2>1. g = Idle /\ Agrees(w)'
    BY <1>2, <1>4
  <2> QED BY <1>1, <1>2, <2>1, HereQuietly DEF At
<1> QED BY <1>3, <1>4

\* A handler that calls the supervisor has begun to wait for it.
LEMMA CallsWait ==
  ASSUME IInv, NEW r \in Requests, NEW p, S!CallExec(r, p)
  PROVE  ~UNCHANGED servers
<1>1. S!TypeOK
  BY SupervisorTypes DEF IInv
<1>2. pc'[r] # "idle" /\ pc[r] = "idle"
  BY <1>1 DEF S!CallExec, S!StopChild, S!AfterAwait, S!MayCall, S!TypeOK
<1> QED BY <1>2 DEF servers

LEMMA OwnQuietStep ==
  ASSUME IInv, Serving, NEW w \in Worlds, SerialWorld(w), NEW r \in Requests,
         World(r) = w,
         \/ FindGame(r) \/ (FindPort(r) /\ PortOf(w) = None) \/ Lookup(r)
         \/ (FindStop(r) /\ PortOf(w) = None) \/ RemoveFolder(r)
         \/ HandleWorldMtFile(r) \/ Overview(r) \/ CopyFolder(r)
         \/ RemoveTemp(r) \/ (WriteConf(r) /\ UNCHANGED servers) \/ SaveGame(r)
  PROVE  SerialWorld(w)'
<1>1. At(r, w) /\ handler[r].kind \in Kinds /\ handler[r].answered \in BOOLEAN
  BY HandlerAt DEF At, Locals
<1>2. ASSUME UNCHANGED <<servers, rows, serves>>
      PROVE  /\ Ported(w)' <=> Ported(w)
             /\ RowsOf(w)' = RowsOf(w)
             /\ NoneAlive(w)' <=> NoneAlive(w)
  BY <1>2, QuietFacts
<1>3. \A x, y \in RowsOf(w) : x = y
  BY DEF SerialWorld
\* Whatever is left by an upload that fails.
<1>13. ASSUME handler[r].kind \in Uploads, Ported(w), S!LoopFree,
              UNCHANGED <<servers, rows, serves>>, Fail(r)
       PROVE  SerialWorld(w)'
  <2>1. w \in failed' /\ Return(r)
    BY <1>13 DEF Fail
  <2>2. Agrees(w)'
    BY <1>2, <1>13, <2>1 DEF Agrees, Clean, HasFolder
  <2> QED BY <1>13, <2>1, <2>2, ReturnsQuietly DEF Uploads
<1>4. CASE FindGame(r)
  <2>1. /\ S!LoopFree /\ UNCHANGED <<servers, rows, serves>>
        /\ UNCHANGED <<games, withFile, worlds, temp, failed>> /\ handler[r].step = "findGame"
    BY <1>4 DEF FindGame, Callback, database, Step
  <2>2. handler[r].kind = "restart" /\ Ported(w) /\ Clean(w) /\ HasFolder(w)
    BY <1>1, <2>1 DEF At, Fits, StepsOf, Kinds
  <2>3. CASE w \in games /\ Goto(r, "findPort")
    <3>1. ASSUME NEW g, g.step = "findPort", Same(g, handler[r]) PROVE Fits(g, w)'
      BY <1>2, <2>1, <2>2, <2>3, <3>1 DEF Same, Fits, HasFolder, StepsOf, Stopped
    <3> QED BY <2>1, <2>3, <3>1, GoesQuietly
  <2>4. CASE w \notin games /\ Return(r)
    <3>1. Agrees(w)'
      BY <1>2, <2>1, <2>2 DEF Agrees, HasFolder, Clean
    <3> QED BY <2>1, <2>2, <2>4, <3>1, ReturnsQuietly
  <2> QED BY <1>4, <2>3, <2>4 DEF FindGame
<1>5. CASE FindPort(r) /\ PortOf(w) = None
  <2>1. /\ S!LoopFree /\ UNCHANGED <<servers, rows, serves>> /\ Goto(r, "lookup")
        /\ UNCHANGED <<games, withFile, worlds, temp, failed>> /\ handler[r].step = "findPort"
    BY <1>5 DEF FindPort, Callback, database, Step
  <2>2. handler[r].kind = "restart" /\ Ported(w) /\ w \in games /\ HasFolder(w)
    BY <1>1, <2>1 DEF At, Fits, StepsOf, Kinds
  <2>3. ASSUME NEW g, g.step = "lookup", Same(g, handler[r]) PROVE Fits(g, w)'
    BY <1>2, <2>1, <2>2, <2>3 DEF Same, Fits, HasFolder, StepsOf, Stopped
  <2> QED BY <2>1, <2>3, GoesQuietly
<1>6. CASE Lookup(r)
  <2>1. /\ S!LoopFree /\ UNCHANGED <<servers, rows, serves>>
        /\ UNCHANGED <<games, withFile, worlds, temp, failed>> /\ handler[r].step = "lookup"
    BY <1>6 DEF Lookup, Callback, database, Step
  <2>2. handler[r].kind \in {"restart", "create", "update"} /\ Ported(w)
    BY <1>1, <2>1 DEF At, Fits, StepsOf, Kinds
  <2>3. ASSUME NEW g, g.step = "writeConf", Same(g, handler[r]) PROVE Fits(g, w)'
    BY <1>1, <1>2, <2>1, <2>2, <2>3 DEF At, Same, Fits, HasFolder, StepsOf,
       Stopped, BeforeCopy, Steps
  <2>4. CASE PortOf(w) = None /\ Goto(r, "insert")
    <3>1. RowsOf(w) = {}
      BY <1>3, <2>2, <2>4, OneRow
    <3>2. ASSUME NEW g, g.step = "insert", Same(g, handler[r]) PROVE Fits(g, w)'
      BY <1>1, <1>2, <2>1, <2>2, <3>1, <3>2 DEF At, Same, Fits, HasFolder, StepsOf,
         Stopped, BeforeCopy, Steps
    <3> QED BY <2>1, <2>4, <3>2, GoesQuietly
  <2>5. CASE PortOf(w) # None /\ TakesPort(r, "writeConf", PortOf(w))
    BY <2>1, <2>3, <2>5, GoesQuietly
  <2> QED BY <1>6, <2>4, <2>5 DEF Lookup, TakesPort
<1>7. CASE FindStop(r) /\ PortOf(w) = None
  <2>1. /\ S!LoopFree /\ UNCHANGED <<servers, rows, serves>> /\ Goto(r, "remove")
        /\ UNCHANGED <<games, withFile, worlds, temp, failed>> /\ handler[r].step = "findStop"
    BY <1>7 DEF FindStop, Callback, database, Step
  <2>2. handler[r].kind # "restart" /\ Ported(w)
    BY <1>1, <2>1 DEF At, Fits, StepsOf, Kinds
  <2>3. NoneAlive(w)
    BY <1>3, <1>7, <2>2, OneRow, NoRowNoServer
  <2>4. ASSUME NEW g, g.step = "remove", Same(g, handler[r]) PROVE Fits(g, w)'
    BY <1>1, <1>2, <2>1, <2>2, <2>3, <2>4 DEF At, Same, Fits, StepsOf, Stopped,
       BeforeCopy, Steps
  <2> QED BY <2>1, <2>4, GoesQuietly
<1>8. CASE RemoveFolder(r)
  <2>1. /\ S!LoopFree /\ UNCHANGED <<servers, rows, serves>> /\ handler[r].step = "remove"
        /\ UNCHANGED <<games, withFile, temp>> /\ w \notin worlds' \ failed'
    BY <1>8 DEF RemoveFolder, Callback, database, Step
  <2>2. handler[r].kind # "restart" /\ Ported(w) /\ NoneAlive(w)
    BY <1>1, <2>1 DEF At, Fits, StepsOf, Stopped
  <2>3. CASE handler[r].kind \in Uploads /\ Goto(r, "worldMt")
    <3>1. ASSUME NEW g, g.step = "worldMt", Same(g, handler[r]) PROVE Fits(g, w)'
      BY <1>1, <1>2, <2>1, <2>2, <2>3, <3>1
         DEF At, Same, Fits, StepsOf, Stopped, BeforeCopy, Steps, Uploads
    <3> QED BY <2>1, <2>3, <3>1, GoesQuietly
  <2>4. CASE handler[r].kind = "deleteFiles" /\ Return(r)
    <3>1. Agrees(w)'
      BY <1>1, <1>2, <2>1, <2>2, <2>4 DEF At, Fits, HasFolder, Agrees, Clean
    <3> QED BY <2>1, <2>4, <3>1, ReturnsQuietly
  <2>5. CASE handler[r].kind = "delete" /\ Return(r)
    <3>1. CASE ~handler[r].answered
      <4>1. ASSUME NEW g, g.step = "done", Same(g, handler[r]) PROVE Fits(g, w)'
        BY <1>1, <1>2, <2>1, <2>2, <2>5, <3>1, <4>1
           DEF At, Same, Fits, StepsOf, Stopped
      <4> QED BY <2>1, <2>5, <3>1, <4>1, ReturnsQuietly
    <3>2. CASE handler[r].answered
      <4>1. w \notin games /\ w \notin withFile
        BY <1>1, <2>5, <3>2 DEF At, Fits, IInv, RestTypes
      <4>2. Agrees(w)'
        BY <1>2, <2>1, <2>2, <4>1 DEF Agrees, HasFolder, Clean
      <4> QED BY <2>1, <2>5, <3>2, <4>2, ReturnsQuietly
    <3> QED BY <3>1, <3>2
  <2> QED BY <1>8, <2>3, <2>4, <2>5 DEF RemoveFolder, Removed
<1>9. CASE HandleWorldMtFile(r) \/ Overview(r)
  <2>1. /\ S!LoopFree /\ UNCHANGED <<servers, rows, serves>>
        /\ UNCHANGED <<games, withFile, worlds, temp>>
        /\ handler[r].step \in {"worldMt", "overview"}
    BY <1>9 DEF HandleWorldMtFile, Overview, Callback, database, Step
  <2>2. handler[r].kind \in Uploads /\ Ported(w) /\ NoneAlive(w)
    BY <1>1, <2>1 DEF At, Fits, StepsOf, Kinds, Stopped, Uploads
  <2>3. ASSUME NEW g, g.step \in {"overview", "copy"}, Same(g, handler[r])
        PROVE  Fits(g, w)'
    BY <1>1, <1>2, <2>1, <2>2, <2>3
       DEF At, Same, Fits, StepsOf, Stopped, BeforeCopy, Steps, Uploads
  <2>4. CASE \E step \in {"overview", "copy"} : Goto(r, step)
    BY <2>1, <2>3, <2>4, GoesQuietly
  <2> QED BY <1>9, <1>13, <2>1, <2>2, <2>4 DEF HandleWorldMtFile, Overview
<1>10. CASE CopyFolder(r) \/ RemoveTemp(r)
  <2>1. /\ S!LoopFree /\ UNCHANGED <<servers, rows, serves>>
        /\ UNCHANGED <<games, withFile>>
        /\ handler[r].step \in {"copy", "removeTemp"}
    BY <1>10 DEF CopyFolder, RemoveTemp, Callback, database, Step
  <2>2. handler[r].kind \in Uploads /\ Ported(w) /\ NoneAlive(w)
    BY <1>1, <2>1 DEF At, Fits, StepsOf, Kinds, Stopped, Uploads
  <2>3. CASE Fail(r)
    BY <1>13, <2>1, <2>2, <2>3
  <2>4. CASE CopyFolder(r) /\ Goto(r, "removeTemp") /\ w \in worlds' /\ w \in temp'
    <3>1. ASSUME NEW g, g.step = "removeTemp", Same(g, handler[r]) PROVE Fits(g, w)'
      BY <1>1, <1>2, <2>1, <2>2, <2>4, <3>1
         DEF At, Same, Fits, StepsOf, Stopped, BeforeCopy, Steps, Uploads
    <3> QED BY <2>1, <2>4, <3>1, GoesQuietly
  <2>5. CASE RemoveTemp(r) /\ Goto(r, "lookup") /\ UNCHANGED worlds
    <3>1. w \in worlds
      BY <1>1, <2>2, <2>5 DEF At, Fits, BeforeCopy, RemoveTemp, Callback, Step,
         Uploads
    <3>2. ASSUME NEW g, g.step = "lookup", Same(g, handler[r]) PROVE Fits(g, w)'
      BY <1>1, <1>2, <2>1, <2>2, <2>5, <3>1, <3>2
         DEF At, Same, Fits, StepsOf, Stopped, BeforeCopy, Steps, Uploads
    <3> QED BY <2>1, <2>5, <3>2, GoesQuietly
  <2> QED BY <1>10, <2>3, <2>4, <2>5 DEF CopyFolder, RemoveTemp
<1>11. CASE WriteConf(r) /\ UNCHANGED servers
  <2>1. /\ S!LoopFree /\ UNCHANGED <<servers, rows, serves>>
        /\ UNCHANGED <<games, withFile, worlds, temp>> /\ handler[r].step = "writeConf"
    BY <1>11 DEF WriteConf, Callback, database, Step
  <2>2. handler[r].kind \in Uploads \cup {"restart"} /\ Ported(w)
    BY <1>1, <2>1 DEF At, Fits, StepsOf, Kinds, Uploads
  <2>3. CASE Fail(r) /\ handler[r].kind \in Uploads
    BY <1>13, <2>1, <2>2, <2>3
  <2>4. CASE Fail(r) /\ handler[r].kind = "restart"
    <3>1. Return(r) /\ UNCHANGED failed
      BY <2>4 DEF Fail, Uploads
    <3>2. Agrees(w)'
      BY <1>1, <1>2, <2>1, <2>2, <2>4, <3>1 DEF At, Fits, Agrees, Clean, HasFolder
    <3> QED BY <2>1, <2>4, <3>1, <3>2, ReturnsQuietly
  <2>5. CASE Goto(r, "saveGame") /\ handler[r].kind # "restart"
    <3>1. handler[r].kind \in Uploads /\ w \in worlds /\ NoneAlive(w)
      BY <1>1, <2>1, <2>2, <2>5 DEF At, Fits, BeforeCopy, Stopped, Uploads
    <3>2. ASSUME NEW g, g.step = "saveGame", Same(g, handler[r]) PROVE Fits(g, w)'
      BY <1>1, <1>2, <2>1, <2>2, <3>1, <3>2
         DEF At, Same, Fits, StepsOf, Stopped, BeforeCopy, Steps, Uploads
    <3> QED BY <2>1, <2>5, <3>2, GoesQuietly
  <2>6. CASE Exec(r, handler[r].port)
    BY <1>11, <2>6, CallsWait DEF Exec
  <2> QED BY <1>11, <2>2, <2>3, <2>4, <2>5, <2>6 DEF WriteConf
<1>12. CASE SaveGame(r)
  <2>1. /\ S!LoopFree /\ UNCHANGED <<servers, rows, serves>>
        /\ handler[r].step = "saveGame" /\ UNCHANGED worlds
    BY <1>12 DEF SaveGame, Callback, Step
  <2>2. handler[r].kind \in Uploads /\ Ported(w) /\ w \in worlds
    BY <1>1, <2>1 DEF At, Fits, StepsOf, Kinds, BeforeCopy, Uploads
  <2>3. CASE Fail(r)
    BY <1>13, <2>1, <2>2, <2>3
  <2>4. CASE Return(r) /\ w \in games'
    <3>1. Agrees(w)'
      BY <1>2, <2>1, <2>2, <2>4 DEF Agrees, HasFolder, Clean
    <3> QED BY <2>1, <2>2, <2>4, <3>1, ReturnsQuietly DEF Uploads
  <2> QED BY <1>12, <2>3, <2>4 DEF SaveGame
<1> QED BY <1>4, <1>5, <1>6, <1>7, <1>8, <1>9, <1>10, <1>11, <1>12

LEMMA OwnDeleteRow ==
  ASSUME IInv, NEW w \in Worlds, SerialWorld(w), NEW r \in Requests,
         World(r) = w, DeleteRow(r)
  PROVE  SerialWorld(w)'
<1>1. At(r, w) /\ RowsInv /\ handler[r] \in Locals
  BY HandlerAt DEF At, IInv
<1>2. /\ S!LoopFree /\ UNCHANGED <<servers, rows, serves, worlds, temp, failed>>
      /\ handler[r].kind = "delete" /\ ~handler[r].answered
      /\ w \notin games' /\ w \notin withFile'
  BY DEF DeleteRow
<1>3. (Ported(w)' <=> Ported(w)) /\ (NoneAlive(w)' <=> NoneAlive(w))
  BY <1>2, QuietFacts
<1>4. handler[r].step \in {"findStop", "stop", "remove", "done"} /\ Ported(w)
  BY <1>1, <1>2 DEF At, Fits, StepsOf
<1>5. CASE handler[r].step = "done"
  <2>1. Becomes(r, Idle)
    BY <1>5 DEF DeleteRow, Becomes
  <2>2. Agrees(w)'
    BY <1>1, <1>2, <1>3, <1>4, <1>5 DEF At, Fits, HasFolder, Stopped, Agrees, Clean
  <2> QED BY <1>1, <1>2, <2>1, <2>2, HereQuietly DEF At
<1>6. CASE handler[r].step # "done"
  <2>1. PICK g : g = [handler[r] EXCEPT !.answered = TRUE]
    OBVIOUS
  <2>2. Becomes(r, g)
    BY <1>6, <2>1 DEF DeleteRow, Becomes
  <2>3. /\ g.step = handler[r].step /\ g.kind = "delete" /\ g.answered = TRUE
        /\ g.world = w
    BY <1>1, <1>2, <2>1 DEF Locals, At, World
  <2>4. Fits(g, w)'
    BY <1>1, <1>2, <1>3, <1>4, <1>6, <2>3 DEF At, Fits, StepsOf, Stopped
  <2>5. g # Idle
    BY <2>3, NoneIsFresh DEF Idle
  <2> QED BY <1>1, <1>2, <2>2, <2>3, <2>4, <2>5, HereQuietly DEF At
<1> QED BY <1>5, <1>6

\* The row of the world comes, without a port, and gets its port.
LEMMA OwnRowStep ==
  ASSUME IInv, NEW w \in Worlds, SerialWorld(w), NEW r \in Requests,
         World(r) = w, InsertRow(r) \/ SetPort(r)
  PROVE  SerialWorld(w)'
<1>1. At(r, w) /\ RowsInv /\ handler[r].kind \in Kinds
  BY HandlerAt DEF At, IInv, Locals
<1>2. /\ S!LoopFree /\ UNCHANGED <<servers, serves, games, withFile, worlds, temp, failed>>
      /\ handler[r].step \in {"insert", "setPort"}
  BY DEF InsertRow, SetPort, Callback, Step
<1>3. UNCHANGED <<pc, proc, attached, boundTo, childProcesses>>
  BY <1>2 DEF servers
<1>4. NoneAlive(w)' <=> NoneAlive(w)
  BY <1>2, <1>3 DEF NoneAlive, Alive
<1>5. pc'[r] # "ready"
  BY <1>2, <1>3 DEF S!LoopFree
<1>6. \A c \in Children : serves'[c] = w /\ Alive(c)' => childProcesses'[boundTo'[c]] = c
  BY <1>2, <1>3 DEF Alive, SerialWorld
<1>7. CASE InsertRow(r)
  <2>1. RowsOf(w) = {} /\ handler[r].step = "insert"
    BY <1>1, <1>7 DEF At, Fits, InsertRow, Callback, Step
  <2>2. RowsOf(w)' = {[id |-> lastRow + 1, world |-> w, port |-> None]}
    BY <1>7, <2>1 DEF InsertRow, RowsOf
  <2>3. TakesRow(r, "setPort", lastRow + 1)
    BY <1>7 DEF InsertRow, TakesRow
  <2>4. PICK g : Becomes(r, g) /\ g.step = "setPort" /\ Same(g, handler[r])
    BY <1>1, <2>3, Goes
  <2>5. Fits(g, w)'
    BY <1>1, <1>2, <1>4, <2>1, <2>4 DEF At, Same, Fits, HasFolder, StepsOf,
       Stopped, BeforeCopy, Steps, Kinds
  <2>6. g.world = w /\ g # Idle
    BY <1>1, <2>4, NoneIsFresh DEF At, World, Same, Idle
  <2> QED BY <1>1, <1>5, <1>6, <2>2, <2>4, <2>5, <2>6, Here DEF At
<1>8. CASE SetPort(r)
  <2>1. handler[r].step = "setPort"
    BY <1>8 DEF SetPort, Callback, Step
  <2>2. PICK x \in rows : x.id = handler[r].row /\ x.world = w /\ x.port = None
    BY <1>1, <2>1 DEF RowsInv, StepsRemember, Remembers, At, World
  <2>3. RowsOf(w) = {x}
    BY <2>2 DEF SerialWorld, RowsOf
  <2>4. PICK n : n = [id |-> handler[r].row, world |-> w, port |-> PortsBegin + handler[r].row]
    OBVIOUS
  <2>5. rows' = {y \in rows : y.id # handler[r].row} \cup {n}
    BY <1>8, <2>4 DEF SetPort
  <2>6. RowsOf(w)' = {n}
    BY <2>2, <2>3, <2>4, <2>5 DEF RowsOf
  <2>7. n.port # None
    <3>1. PortsBegin + handler[r].row \in Nat
      BY <1>1, PortNumbers DEF At, Locals
    <3> QED BY <2>4, <3>1, NoneIsFresh
  <2>8. TakesPort(r, "writeConf", PortsBegin + handler[r].row)
    BY <1>8 DEF SetPort, TakesPort
  <2>9. PICK g : Becomes(r, g) /\ g.step = "writeConf" /\ Same(g, handler[r])
    BY <1>1, <2>8, Goes
  <2>10. Ported(w)'
    BY <2>6, <2>7 DEF Ported
  <2>11. Fits(g, w)'
    BY <1>1, <1>2, <1>4, <2>1, <2>9, <2>10 DEF At, Same, Fits, HasFolder, StepsOf,
       Stopped, BeforeCopy, Steps, Kinds
  <2>12. g.world = w /\ g # Idle
    BY <1>1, <2>9, NoneIsFresh DEF At, World, Same, Idle
  <2> QED BY <1>1, <1>5, <1>6, <2>6, <2>9, <2>11, <2>12, Here DEF At
<1> QED BY <1>7, <1>8

\* A call of the supervisor goes on at once only when no server of the world is left:
\* a server that is left is tracked on the port and its promise is open.
LEMMA OwnCall ==
  ASSUME IInv, Serving, NEW w \in Worlds, SerialWorld(w), NEW r \in Requests,
         NEW x \in RowsOf(w), x.port # None, S!StopChild(r, x.port)
  PROVE  /\ pc'[r] = "ready" => NoneAlive(w)
         /\ UNCHANGED <<proc, attached, boundTo, childProcesses>>
<1>1. S!TypeOK /\ SP!IInv /\ x \in rows /\ x.port \in Ports
  BY SupervisorTypes DEF IInv, RowsInv, RowTypes, RowsOf
<1>2. UNCHANGED <<proc, attached, boundTo, childProcesses>>
  BY DEF S!StopChild, S!tables
<1>3. CASE childProcesses[x.port] = None
  <2>1. ASSUME NEW c \in Children, serves[c] = w, Alive(c) PROVE FALSE
    <3>1. PICK y \in rows : y.port = boundTo[c] /\ y.world = w
      BY <2>1 DEF Serving, Alive
    <3>2. y = x
      BY <3>1 DEF RowsOf, SerialWorld
    <3>3. childProcesses[x.port] = c
      BY <2>1, <3>1, <3>2 DEF SerialWorld
    <3> QED BY <1>3, <3>3, NoneIsFresh
  <2> QED BY <1>2, <2>1 DEF NoneAlive
<1>4. CASE childProcesses[x.port] # None
  <2>1. childProcessPromises[x.port] = childProcesses[x.port]
    BY <1>1 DEF SP!IInv, SP!TablesAgree
  <2>2. childProcesses[x.port] \notin resolved
    BY <1>1 DEF SP!IInv, SP!References
  <2>3. pc'[r] = "waiting"
    BY <1>1, <1>4, <2>1, <2>2 DEF S!StopChild, S!AfterAwait, S!TypeOK
  <2> QED BY <1>2, <2>3
<1> QED BY <1>2, <1>3, <1>4

LEMMA OwnCallStep ==
  ASSUME IInv, Serving, NEW w \in Worlds, SerialWorld(w), NEW r \in Requests,
         World(r) = w,
         \/ FindPort(r) /\ PortOf(w) # None
         \/ WriteConf(r) /\ ~UNCHANGED servers
         \/ FindStop(r) /\ PortOf(w) # None
  PROVE  SerialWorld(w)'
<1>1. At(r, w) /\ RowsInv /\ handler[r].kind \in Kinds
  BY HandlerAt DEF At, IInv, Locals
<1>2. UNCHANGED <<rows, serves, games, withFile, worlds, temp, failed>>
  BY DEF FindPort, WriteConf, FindStop, database
<1>3. (Ported(w)' <=> Ported(w)) /\ RowsOf(w)' = RowsOf(w)
  BY <1>2 DEF Ported, RowsOf
<1>4. ASSUME NEW step \in {"exec", "stop"}, NEW x \in RowsOf(w), x.port # None,
             S!StopChild(r, x.port), Goto(r, step) \/ TakesPort(r, step, x.port),
             \A g : g.step = step /\ Same(g, handler[r]) => Fits(g, w)'
      PROVE  SerialWorld(w)'
  <2>1. /\ pc'[r] = "ready" => NoneAlive(w)
        /\ UNCHANGED <<proc, attached, boundTo, childProcesses>>
    BY <1>4, OwnCall
  <2>2. NoneAlive(w)' <=> NoneAlive(w)
    BY <1>2, <2>1 DEF NoneAlive, Alive
  <2>3. \A c \in Children : serves'[c] = w /\ Alive(c)' => childProcesses'[boundTo'[c]] = c
    BY <1>2, <2>1 DEF Alive, SerialWorld
  <2>4. PICK g : Becomes(r, g) /\ g.step = step /\ Same(g, handler[r])
    <3>1. CASE Goto(r, step)
      BY <1>1, <3>1, Goes
    <3>2. CASE TakesPort(r, step, x.port)
      BY <1>1, <3>2, Goes
    <3> QED BY <1>4, <3>1, <3>2
  <2>5. Fits(g, w)' /\ g.world = w /\ g # Idle
    BY <1>1, <1>4, <2>4, NoneIsFresh DEF At, World, Same, Idle
  <2>6. \A y, z \in RowsOf(w)' : y = z
    BY <1>3 DEF SerialWorld
  <2> QED BY <1>1, <2>1, <2>2, <2>3, <2>4, <2>5, <2>6, Here DEF At
<1>5. CASE FindPort(r) /\ PortOf(w) # None
  <2>1. handler[r].step = "findPort" /\ Exec(r, PortOf(w))
    BY <1>1, <1>5 DEF FindPort, Callback, Step, At
  <2>2. PICK x \in RowsOf(w) : x.port = PortOf(w)
    BY <1>1, <1>5, PortFound DEF RowsOf
  <2>3. handler[r].kind = "restart" /\ Ported(w) /\ w \in games /\ HasFolder(w)
    BY <1>1, <2>1 DEF At, Fits, StepsOf, Kinds
  <2>4. ASSUME NEW g, g.step = "exec", Same(g, handler[r]) PROVE Fits(g, w)'
    BY <1>2, <1>3, <2>3, <2>4 DEF Same, Fits, HasFolder, StepsOf, Stopped
  <2> QED BY <1>4, <1>5, <2>1, <2>2, <2>4 DEF Exec, S!CallExec, TakesPort
<1>6. CASE WriteConf(r) /\ ~UNCHANGED servers
  <2>1. handler[r].step = "writeConf" /\ Exec(r, handler[r].port)
    BY <1>6 DEF WriteConf, Callback, Step
  <2>2. PICK x \in RowsOf(w) : x.port = handler[r].port /\ x.port # None
    BY <1>1, <2>1 DEF RowsInv, StepsRemember, Remembers, At, World, RowsOf
  <2>3. ASSUME NEW g, g.step = "exec", Same(g, handler[r]) PROVE Fits(g, w)'
    BY <1>1, <1>2, <1>3, <2>1, <2>3
       DEF At, Same, Fits, HasFolder, StepsOf, Stopped, BeforeCopy, Steps, Kinds
  <2> QED BY <1>4, <2>1, <2>2, <2>3 DEF Exec, S!CallExec, TakesPort
<1>7. CASE FindStop(r) /\ PortOf(w) # None
  <2>1. handler[r].step = "findStop" /\ Goto(r, "stop") /\ S!CallStop(r, PortOf(w))
    BY <1>1, <1>7 DEF FindStop, Callback, Step, At
  <2>2. PICK x \in RowsOf(w) : x.port = PortOf(w)
    BY <1>1, <1>7, PortFound DEF RowsOf
  <2>3. ASSUME NEW g, g.step = "stop", Same(g, handler[r]) PROVE Fits(g, w)'
    BY <1>1, <1>2, <1>3, <2>1, <2>3
       DEF At, Same, Fits, StepsOf, Stopped, BeforeCopy, Steps, Kinds
  <2> QED BY <1>4, <1>7, <2>1, <2>2, <2>3 DEF S!CallStop
<1> QED BY <1>5, <1>6, <1>7

\* The handler goes on: no server of the world was left, and a new one is tracked.
LEMMA OwnContinue ==
  ASSUME IInv, Serving, NEW w \in Worlds, SerialWorld(w), NEW r \in Requests,
         World(r) = w, ContinueExec(r) \/ ContinueStop(r)
  PROVE  SerialWorld(w)'
<1>1. /\ At(r, w) /\ RowsInv /\ handler[r].kind \in Kinds /\ S!TypeOK
      /\ serves \in [Children -> Worlds \cup {None}]
  BY HandlerAt, SupervisorTypes DEF At, IInv, Locals, RestTypes
<1>2. UNCHANGED <<rows, games, withFile, worlds, temp, failed>> /\ pc[r] = "ready"
  BY DEF ContinueExec, ContinueStop, S!ContinueExec, S!ContinueStop, database
<1>3. (Ported(w)' <=> Ported(w)) /\ RowsOf(w)' = RowsOf(w) /\ NoneAlive(w)
  BY <1>1, <1>2 DEF Ported, RowsOf, At
<1>4. pc'[r] # "ready"
  BY <1>1 DEF ContinueExec, ContinueStop, S!ContinueExec, S!ContinueStop, S!Return,
     S!TypeOK
<1>5. \A y, z \in RowsOf(w)' : y = z
  BY <1>3 DEF SerialWorld
<1>6. CASE ContinueExec(r)
  <2>1. PICK d \in Children :
          /\ proc' = [proc EXCEPT ![d] = "running"]
          /\ boundTo' = [boundTo EXCEPT ![d] = at[r]]
          /\ attached' = attached \cup {d}
          /\ childProcesses' = [childProcesses EXCEPT ![at[r]] = d]
          /\ serves' = [serves EXCEPT ![d] = World(r)]
          /\ at[r] \in Ports
    BY <1>6, Spawns
  <2>2. ASSUME NEW c \in Children, serves'[c] = w, Alive(c)'
        PROVE  childProcesses'[boundTo'[c]] = c
    <3>1. c = d
      BY <1>1, <1>3, <2>1, <2>2 DEF NoneAlive, Alive, S!TypeOK
    <3> QED BY <1>1, <2>1, <3>1 DEF S!TypeOK
  <2>3. handler[r].step = "exec"
    BY <1>6 DEF ContinueExec, Step
  <2>4. Ported(w) /\ handler[r].kind \in {"restart", "create", "update"}
    BY <1>1, <2>3 DEF At, Fits, StepsOf, Kinds
  <2>5. CASE handler[r].kind = "restart" /\ Return(r)
    <3>1. Becomes(r, Idle)
      BY <1>1, <2>5, Returns
    <3>2. Agrees(w)'
      BY <1>1, <1>2, <1>3, <2>3, <2>4, <2>5 DEF At, Fits, HasFolder, Agrees, Clean
    <3> QED BY <1>1, <1>4, <1>5, <2>2, <3>1, <3>2, Here DEF At
  <2>6. CASE handler[r].kind # "restart" /\ Goto(r, "saveGame")
    <3>1. PICK g : Becomes(r, g) /\ g.step = "saveGame" /\ Same(g, handler[r])
      BY <1>1, <2>6, Goes
    <3>2. Fits(g, w)'
      BY <1>1, <1>2, <1>3, <2>3, <2>4, <2>6, <3>1
         DEF At, Same, Fits, StepsOf, Stopped, BeforeCopy, Steps
    <3>3. g.world = w /\ g # Idle
      BY <1>1, <3>1, NoneIsFresh DEF At, World, Same, Idle
    <3> QED BY <1>1, <1>4, <1>5, <2>2, <3>1, <3>2, <3>3, Here DEF At
  <2> QED BY <1>6, <2>5, <2>6 DEF ContinueExec
<1>7. CASE ContinueStop(r)
  <2>1. /\ handler[r].step = "stop" /\ Goto(r, "remove")
        /\ UNCHANGED <<proc, attached, boundTo, childProcesses, serves>>
    BY <1>7 DEF ContinueStop, S!ContinueStop, S!tables, S!os, Step
  <2>2. NoneAlive(w)'
    BY <1>3, <2>1 DEF NoneAlive, Alive
  <2>3. \A c \in Children : serves'[c] = w /\ Alive(c)' => childProcesses'[boundTo'[c]] = c
    BY <2>1, <2>2 DEF NoneAlive
  <2>4. PICK g : Becomes(r, g) /\ g.step = "remove" /\ Same(g, handler[r])
    BY <1>1, <2>1, Goes
  <2>5. Fits(g, w)'
    BY <1>1, <1>2, <1>3, <2>1, <2>2, <2>4
       DEF At, Same, Fits, StepsOf, Stopped, BeforeCopy, Steps, Kinds
  <2>6. g.world = w /\ g # Idle
    BY <1>1, <2>4, NoneIsFresh DEF At, World, Same, Idle
  <2> QED BY <1>1, <1>4, <1>5, <2>3, <2>4, <2>5, <2>6, Here DEF At
<1> QED BY <1>6, <1>7

LEMMA OwnStep ==
  ASSUME IInv, Serving, NEW w \in Worlds, SerialWorld(w), NEW r \in Requests,
         World(r) = w, Work(r) \/ DeleteRow(r)
  PROVE  SerialWorld(w)'
BY OwnQuietStep, OwnDeleteRow, OwnRowStep, OwnCallStep, OwnContinue DEF Work

-----------------------------------------------------------------------------
(* Requests and processes. *)

LEMMA ArriveSerial ==
  ASSUME IInv, NEW w \in Worlds, w \in Careful, SerialWorld(w),
         NEW r \in Requests, NEW v \in Worlds, Arrive(r, v)
  PROVE  SerialWorld(w)'
<1>1. RowsInv /\ MayBegin(r, v) /\ S!LoopFree /\ UNCHANGED <<servers, rows, serves>>
  BY DEF IInv, Arrive, Restart, Create, Update, Upload, Delete, DeleteFiles, Refuse,
     Start, database, vars
<1>2. /\ Ported(w)' <=> Ported(w)
      /\ RowsOf(w)' = RowsOf(w)
      /\ NoneAlive(w)' <=> NoneAlive(w)
  BY <1>1, QuietFacts
<1>3. UNCHANGED <<pc, proc, attached, boundTo, childProcesses>>
  BY <1>1 DEF servers
<1>4. ASSUME UNCHANGED vars PROVE SerialWorld(w)'
  <2>1. UNCHANGED <<handler, games, withFile, worlds, temp, failed>>
    BY <1>4 DEF vars, database
  <2> QED BY <1>1, <1>2, <1>3, <2>1, Elsewhere DEF Alive, World
<1>5. ASSUME NEW kind, NEW step, NEW a, Start(r, kind, v, step, a), v # w,
             w \in games' <=> w \in games, w \in withFile' <=> w \in withFile,
             w \in worlds' <=> w \in worlds, w \in temp' <=> w \in temp,
             UNCHANGED failed
      PROVE  SerialWorld(w)'
  <2>1. PICK g : Becomes(r, g) /\ g.world = v
    BY <1>1, <1>5, Begins
  <2>2. \A q \in Requests : handler'[q] = IF q = r THEN g ELSE handler[q]
    BY <1>1, <2>1, BecomesIs
  <2>3. World(r) # w
    BY <1>1, NoneIsFresh DEF MayBegin, Busy, World, Idle
  <2>4. \A q \in Requests : World(q) = w \/ World(q)' = w => handler'[q] = handler[q]
    BY <1>5, <2>1, <2>2, <2>3 DEF World
  <2> QED BY <1>1, <1>2, <1>3, <1>5, <2>4, Elsewhere DEF Alive
<1>6. ASSUME NEW kind, NEW step, NEW a, Start(r, kind, w, step, a), v = w,
             \A g : g.step = step /\ g.kind = kind /\ g.answered = a => Fits(g, w)'
      PROVE  SerialWorld(w)'
  <2>1. PICK g : /\ Becomes(r, g) /\ g # Idle
                 /\ g.step = step /\ g.kind = kind /\ g.world = w
                 /\ g.answered = a
    BY <1>1, <1>6, Begins
  <2>2. Settled(w)
    BY <1>1, <1>6 DEF MayBegin, Settled
  <2>3. Fits(g, w)'
    BY <1>6, <2>1
  <2> QED BY <1>1, <2>1, <2>2, <2>3, HereQuietly
<1>7. ASSUME v = w PROVE Agrees(w)
  BY <1>1, <1>7 DEF MayBegin, Settled, SerialWorld
<1>8. CASE Restart(r, v)
  <2>1. /\ Start(r, "restart", v, "findGame", FALSE)
        /\ UNCHANGED <<games, withFile, worlds, temp, failed>>
    BY <1>8 DEF Restart, database
  <2>2. ASSUME v = w, NEW g, g.step = "findGame", g.kind = "restart" PROVE Fits(g, w)'
    BY <1>2, <1>7, <2>1, <2>2 DEF Agrees, Clean, Fits, HasFolder, StepsOf
  <2> QED BY <1>5, <1>6, <2>1, <2>2
<1>9. CASE Create(r, v) \/ Update(r, v)
  <2>1. PICK kind \in {"create", "update"} :
          /\ Start(r, kind, v, "findStop", FALSE)
          /\ UNCHANGED <<games, withFile, worlds, failed>>
          /\ temp' = temp \cup {v} /\ (kind = "update" => v \in games)
    BY <1>9 DEF Create, Update, Upload, database
  <2>2. ASSUME v = w, NEW g, g.step = "findStop", g.kind = kind PROVE Fits(g, w)'
    BY <1>2, <1>7, <2>1, <2>2 DEF Agrees, Fits, StepsOf, Steps, Stopped, BeforeCopy
  <2> QED BY <1>5, <1>6, <2>1, <2>2
<1>10. CASE Delete(r, v)
  <2>1. /\ Start(r, "delete", v, "findStop", FALSE)
        /\ UNCHANGED <<games, withFile, worlds, temp, failed>>
    BY <1>10 DEF Delete, database
  <2>2. ASSUME v = w, NEW g, g.step = "findStop", g.kind = "delete", g.answered = FALSE
        PROVE  Fits(g, w)'
    BY <1>2, <1>7, <2>1, <2>2 DEF Agrees, Fits, StepsOf, Stopped
  <2> QED BY <1>5, <1>6, <2>1, <2>2
<1>11. CASE DeleteFiles(r, v)
  <2>1. /\ Start(r, "deleteFiles", v, "findStop", TRUE) /\ v \in games
        /\ UNCHANGED <<games, worlds, temp, failed>> /\ withFile' = withFile \ {v}
    BY <1>11 DEF DeleteFiles
  <2>2. ASSUME v = w, NEW g, g.step = "findStop", g.kind = "deleteFiles"
        PROVE  Fits(g, w)'
    BY <1>2, <1>7, <2>1, <2>2 DEF Agrees, Fits, StepsOf, Stopped
  <2> QED BY <1>5, <1>6, <2>1, <2>2
<1> QED BY <1>4, <1>8, <1>9, <1>10, <1>11 DEF Arrive, Refuse

\* The last server of the world ends.
LEMMA LastServerEnds ==
  ASSUME NEW w, SerialWorld(w), NoneAlive(w)',
         UNCHANGED <<handler, rows, games, withFile, worlds, temp, failed>>
  PROVE  SerialWorld(w)'
<1>1. (Ported(w)' <=> Ported(w)) /\ RowsOf(w)' = RowsOf(w) /\ (Settled(w)' <=> Settled(w))
  BY DEF Ported, RowsOf, Settled, Busy, World
<1>2. \A h : Fits(h, w) => Fits(h, w)'
  BY <1>1 DEF Fits, HasFolder, Clean
<1>3. \A q \in Requests : Fits(handler[q], w) => Fits(handler[q], w)'
  BY <1>2
<1>4. Agrees(w) => Agrees(w)'
  BY <1>1 DEF Agrees, HasFolder, Clean
<1>5. \A r \in Requests : Busy(r)' /\ World(r)' = w => Fits(handler[r], w)'
  BY <1>3 DEF SerialWorld, Busy, World
<1>6. \A c \in Children : serves'[c] = w /\ Alive(c)' => childProcesses'[boundTo'[c]] = c
  BY DEF NoneAlive
<1>7. \A q, r \in Requests :
        Busy(q)' /\ Busy(r)' /\ World(q)' = w /\ World(r)' = w => q = r
  BY DEF SerialWorld, Busy, World
<1>8. \A x, y \in RowsOf(w)' : x = y
  BY <1>1 DEF SerialWorld
<1>9. Settled(w)' => Agrees(w)'
  BY <1>1, <1>4 DEF SerialWorld
<1> QED BY <1>5, <1>6, <1>7, <1>8, <1>9 DEF SerialWorld

LEMMA ServerSerial ==
  ASSUME IInv, Serving, Calling, NEW w \in Worlds, SerialWorld(w),
         NEW d \in Children, ServerStep(d)
  PROVE  SerialWorld(w)'
<1>1. S!TypeOK /\ SP!IInv /\ RowsInv
  BY SupervisorTypes DEF IInv
<1>2. /\ UNCHANGED <<handler, rows, games, withFile, worlds, temp, failed, serves>>
      /\ UNCHANGED <<boundTo, attached, at, promise>>
  BY DEF ServerStep, S!OnClose, S!Exit, S!requests, database
<1>3. RowsOf(w)' = RowsOf(w)
  BY <1>2 DEF RowsOf
<1>4. CASE S!Exit(d)
  <2>1. UNCHANGED <<pc, childProcesses>> /\ proc[d] = "running"
        /\ \A c \in Children : proc'[c] = IF c = d THEN "exited" ELSE proc[c]
    BY <1>1, <1>4 DEF S!Exit, S!requests, S!tables, S!TypeOK
  <2>2. \A c \in Children : Alive(c)' => Alive(c)
    BY <1>2, <2>1 DEF Alive
  <2> QED BY <1>2, <1>3, <2>1, <2>2, Elsewhere
<1>5. CASE S!OnClose(d)
  <2>1. Alive(d) /\ ~Alive(d)' /\ \A c \in Children : c # d => (Alive(c)' <=> Alive(c))
    BY <1>1, <1>2, <1>5 DEF S!OnClose, S!TypeOK, Alive
  <2>2. PICK y \in rows : y.port = boundTo[d] /\ y.world = serves[d] /\ boundTo[d] # None
    BY <2>1 DEF Serving, Alive
  <2>3. ASSUME NEW c \in Children, Alive(c), boundTo[c] = boundTo[d]
        PROVE  serves[c] = serves[d]
    <3>1. PICK x \in rows : x.port = boundTo[c] /\ x.world = serves[c]
      BY <2>3 DEF Serving, Alive
    <3> QED BY <1>1, <2>2, <2>3, <3>1, PortsApart
  <2>4. CASE serves[d] = w
    <3>1. ASSUME NEW c \in Children, serves[c] = w, Alive(c) PROVE c = d
      <4>1. PICK x \in rows : x.port = boundTo[c] /\ x.world = w
        BY <3>1 DEF Serving, Alive
      <4>2. x = y
        BY <2>2, <2>4, <4>1 DEF RowsOf, SerialWorld
      <4>3. childProcesses[boundTo[c]] = c /\ childProcesses[boundTo[d]] = d
        BY <2>1, <2>4, <3>1 DEF SerialWorld
      <4> QED BY <2>2, <4>1, <4>2, <4>3
    <3>2. NoneAlive(w)'
      BY <1>2, <2>1, <3>1 DEF NoneAlive
    <3> QED BY <1>2, <3>2, LastServerEnds
  <2>5. CASE serves[d] # w
    <3> DEFINE k == childProcessCloseResolves[boundTo[d]]
    <3>1. ASSUME NEW q \in Requests, World(q) = w, pc'[q] = "ready"
          PROVE  pc[q] = "ready"
      <4> SUFFICES ASSUME pc[q] = "waiting" /\ promise[q] = k PROVE FALSE
        BY <1>5, <3>1 DEF S!OnClose, S!CloseResolve
      <4>1. /\ promise[q] # None /\ childProcesses[at[q]] = promise[q]
            /\ childProcessCloseResolves[at[q]] = promise[q] /\ at[q] \in Ports
        BY <1>1 DEF SP!IInv, SP!NoLostWakeup, SP!References
      <4>2. boundTo[k] = at[q]
        BY <1>1, <4>1 DEF SP!IInv, SP!References
      <4>3. boundTo[d] \in Ports
        BY <1>1, <2>1 DEF SP!IInv, SP!References, Alive
      <4>4. boundTo[k] = boundTo[d]
        BY <1>1, <4>1, <4>3 DEF SP!IInv, SP!References
      <4>5. PICK x \in rows : x.port = at[q] /\ x.world = w
        BY <3>1 DEF Calling
      <4>6. x = y
        BY <1>1, <2>2, <4>2, <4>4, <4>5, PortsApart
      <4> QED BY <2>2, <2>5, <4>5, <4>6
    <3>2. ASSUME NEW c \in Children, serves[c] = w, Alive(c)'
          PROVE  Alive(c) /\ childProcesses'[boundTo'[c]] = childProcesses[boundTo[c]]
      <4>1. c # d /\ Alive(c)
        BY <2>1, <3>2
      <4>2. boundTo[c] # boundTo[d]
        BY <2>3, <2>5, <3>2, <4>1
      <4>3. boundTo[c] \in Ports
        BY <1>1, <4>1 DEF SP!IInv, SP!References, Alive
      <4>4. childProcesses'[boundTo[c]] = childProcesses[boundTo[c]]
        BY <1>1, <1>5, <4>2, <4>3 DEF S!OnClose, S!CloseResolve, S!TypeOK
      <4> QED BY <1>2, <4>1, <4>4
    <3>3. \A q \in Requests : World(q) = w \/ World(q)' = w =>
            handler'[q] = handler[q] /\ (pc'[q] = "ready" => pc[q] = "ready")
      BY <1>2, <3>1 DEF World
    <3> HIDE DEF k
    <3> QED BY <1>2, <1>3, <3>2, <3>3, Elsewhere
  <2> QED BY <2>4, <2>5
<1> QED BY <1>4, <1>5 DEF ServerStep

-----------------------------------------------------------------------------
(* The worlds of careful clients. *)

LEMMA InitCarefulInv == Init => CarefulInv
<1> SUFFICES ASSUME Init PROVE CarefulInv
  OBVIOUS
<1>1. Serving /\ Calling /\ boot = {}
  BY DEF Init, S!Init, Serving, Calling
<1>2. ASSUME NEW w \in Worlds PROVE SerialWorld(w)
  <2>1. /\ \A r \in Requests : ~Busy(r)
        /\ \A c \in Children : ~Alive(c)
        /\ RowsOf(w) = {} /\ w \notin withFile /\ w \notin worlds
    BY DEF Init, S!Init, Busy, Alive, RowsOf
  <2>2. Agrees(w)
    BY <2>1 DEF Agrees, HasFolder, Ported, Clean, NoneAlive
  <2> QED BY <2>1, <2>2 DEF SerialWorld
<1> QED BY <1>1, <1>2, CarefulWorlds DEF CarefulInv

\* The boots are over while the first process lives.
LEMMA CrashCounted ==
  ASSUME IInv, [Next]_vars, crashes' = 0
  PROVE  crashes = 0 /\ ~Crash /\ (boot = {} => boot' = {})
<1>1. crashes \in Nat
  BY SupervisorTypes, Bounds DEF IInv, S!TypeOK
<1>2. ~Crash
  BY <1>1 DEF Crash, S!Crash
<1>3. UNCHANGED servers => crashes' = crashes
  BY DEF servers
<1>4. ASSUME NEW r \in Requests, NEW w \in Worlds, Arrive(r, w)
      PROVE  UNCHANGED <<crashes, boot>>
  BY <1>3, <1>4 DEF Arrive, Restart, Create, Update, Upload, Delete, DeleteFiles,
     Refuse, vars
<1>5. ASSUME NEW r \in Requests, BootRestart(r)
      PROVE  crashes' = crashes /\ boot # {}
  BY <1>3, <1>5 DEF BootRestart
<1>6. ASSUME NEW r \in Requests, DeleteRow(r) PROVE UNCHANGED <<crashes, boot>>
  BY <1>3, <1>6 DEF DeleteRow
<1>7. ASSUME NEW r \in Requests, Work(r) PROVE UNCHANGED <<crashes, boot>>
  <2>1. CASE FindGame(r) \/ Lookup(r) \/ InsertRow(r) \/ SetPort(r)
    BY <1>3, <2>1 DEF FindGame, Lookup, InsertRow, SetPort
  <2>2. CASE \/ RemoveFolder(r) \/ HandleWorldMtFile(r) \/ Overview(r)
             \/ CopyFolder(r) \/ RemoveTemp(r) \/ SaveGame(r)
    BY <1>3, <2>2 DEF RemoveFolder, HandleWorldMtFile, Overview, CopyFolder,
       RemoveTemp, SaveGame
  <2>3. CASE FindPort(r) \/ WriteConf(r) \/ FindStop(r)
    BY <1>3, <2>3 DEF FindPort, WriteConf, FindStop, Exec, S!CallExec, S!CallStop,
       S!StopChild
  <2>4. CASE ContinueExec(r) \/ ContinueStop(r)
    BY <2>4 DEF ContinueExec, ContinueStop, S!ContinueExec, S!ContinueStop
  <2> QED BY <1>7, <2>1, <2>2, <2>3, <2>4 DEF Work
<1>8. ASSUME NEW c \in Children, ServerStep(c) PROVE UNCHANGED <<crashes, boot>>
  BY <1>8 DEF ServerStep, S!OnClose, S!Exit
<1>9. UNCHANGED vars => UNCHANGED <<crashes, boot>>
  BY <1>3 DEF vars
<1> QED BY <1>2, <1>4, <1>5, <1>6, <1>7, <1>8, <1>9 DEF Next

LEMMA NextCarefulInv == IInv /\ CarefulInv /\ [Next]_vars => CarefulInv'
<1> SUFFICES ASSUME IInv, CarefulInv, [Next]_vars PROVE CarefulInv'
  OBVIOUS
<1>1. Serving /\ Calling
  BY DEF CarefulInv
<1>2. Serving' /\ Calling'
  BY <1>1, ServingStep, CallingStep
<1>3. ASSUME crashes' = 0, NEW w \in Careful PROVE SerialWorld(w)'
  <2>1. w \in Worlds
    BY CarefulWorlds
  <2>2. crashes = 0 /\ boot = {} /\ ~Crash
    BY <1>3, CrashCounted DEF CarefulInv
  <2>3. SerialWorld(w)
    BY <2>2 DEF CarefulInv
  <2>4. ASSUME NEW r \in Requests, NEW v \in Worlds, Arrive(r, v) PROVE SerialWorld(w)'
    BY <2>1, <2>3, <2>4, ArriveSerial
  <2>5. ASSUME NEW r \in Requests PROVE ~BootRestart(r)
    BY <2>2 DEF BootRestart
  <2>6. ASSUME NEW r \in Requests, Work(r) \/ DeleteRow(r) PROVE SerialWorld(w)'
    BY <1>1, <2>1, <2>3, <2>6, OwnStep, WorkElsewhere
  <2>7. ASSUME NEW c \in Children, ServerStep(c) PROVE SerialWorld(w)'
    BY <1>1, <2>1, <2>3, <2>7, ServerSerial
  <2>8. CASE UNCHANGED vars
    <3>1. /\ UNCHANGED <<handler, rows, games, withFile, worlds, temp, failed, serves>>
          /\ UNCHANGED <<pc, proc, attached, boundTo, childProcesses>>
      BY <2>8 DEF vars, servers, database
    <3> QED BY <2>3, <3>1, Elsewhere DEF RowsOf, Alive, World
  <2> QED BY <2>2, <2>4, <2>5, <2>6, <2>7, <2>8 DEF Next
<1>4. crashes' = 0 => boot' = {}
  BY CrashCounted DEF CarefulInv
<1> QED BY <1>2, <1>3, <1>4 DEF CarefulInv

\* Whatever requests overlap elsewhere, and at whatever step an upload fails: for a
\* world whose clients wait, the one handler at work finds the row, the folders, the
\* game and the servers of the world as its step needs them, and leaves them in
\* agreement when it returns, the folder and the game as far as nothing has failed.
THEOREM CarefulInvariantHolds == Spec => []CarefulInv
BY InitCarefulInv, NextCarefulInv, InvariantHolds, PTL DEF Spec

\* What it says of the worlds the properties are about.
LEMMA SerialIs == CarefulInv => \A w \in Serial : SerialWorld(w) /\ w \in Worlds
BY CarefulWorlds DEF CarefulInv, Serial

\* A live server of such a world is tracked on the port its world is found under, so
\* that a restart or a delete stops it: no restart of restartMinetestServerByGameWorldName
\* ever loses the server it replaces.
THEOREM CarefulServersReachable == Spec => []ServersReachable
<1>1. IInv /\ CarefulInv => ServersReachable
  <2> SUFFICES ASSUME IInv, CarefulInv, NEW c \in Children, Live(c), serves[c] \in Serial
               PROVE  PortOf(serves[c]) # None /\ childProcesses[PortOf(serves[c])] = c
    BY DEF ServersReachable
  <2>1. SerialWorld(serves[c]) /\ Serving /\ Alive(c)
    BY SerialIs DEF CarefulInv, Live, Alive
  <2>2. PICK x \in rows : x.port = boundTo[c] /\ x.world = serves[c] /\ x.port # None
    BY <2>1 DEF Serving, Alive
  <2>3. PortOf(serves[c]) = boundTo[c]
    BY <2>1, <2>2, OneRow DEF SerialWorld, RowsOf
  <2> QED BY <2>1, <2>2, <2>3 DEF SerialWorld
<1> QED BY <1>1, InvariantHolds, CarefulInvariantHolds, PTL

\* Once nothing is under way for such a world, a game with a file has its folder,
\* unless an upload of it failed after it had removed the folder: an upload sets the
\* file after the copy, deleteGameProjectFiles clears it before the folder goes.
THEOREM CarefulGameHasFolder == Spec => []GameHasFolder
<1>1. CarefulInv => GameHasFolder
  BY SerialIs DEF GameHasFolder, SerialWorld, Agrees, HasFolder
<1> QED BY <1>1, CarefulInvariantHolds, PTL

\* Once nothing is under way for such a world without a game, no folder and no live
\* server of it is left, although delete answers before the removal is over, except
\* by a removal or an upload that failed: a game refused after its upload leaves both.
THEOREM CarefulNothingLeft == Spec => []NothingWithoutGame
<1>1. CarefulInv => NothingWithoutGame
  BY SerialIs DEF NothingWithoutGame, SerialWorld, Agrees, HasFolder, Clean,
     NoneAlive, Alive, Live
<1> QED BY <1>1, CarefulInvariantHolds, PTL

\* Only one step takes a folder away.
LEMMA FolderRemoved ==
  ASSUME [Next]_vars, NEW w \in worlds \ worlds'
  PROVE  \E r \in Requests : RemoveFolder(r) /\ World(r) = w
<1>1. ASSUME NEW r \in Requests, NEW v \in Worlds, Arrive(r, v) PROVE UNCHANGED worlds
  BY <1>1 DEF Arrive, Restart, Create, Update, Upload, Delete, DeleteFiles, Refuse,
     vars
<1>2. ASSUME NEW r \in Requests, BootRestart(r) \/ DeleteRow(r) PROVE UNCHANGED worlds
  BY <1>2 DEF BootRestart, DeleteRow
<1>3. ASSUME NEW r \in Requests, Work(r), ~RemoveFolder(r) PROVE w \in worlds'
  <2>1. CASE CopyFolder(r)
    BY <2>1 DEF CopyFolder
  <2>2. CASE ~CopyFolder(r)
    BY <1>3, <2>2 DEF Work, FindGame, FindPort, Lookup, InsertRow, SetPort,
       WriteConf, ContinueExec, FindStop, ContinueStop, HandleWorldMtFile,
       Overview, RemoveTemp, SaveGame
  <2> QED BY <2>1, <2>2
<1>4. ASSUME NEW r \in Requests, RemoveFolder(r) PROVE World(r) = w
  BY <1>4 DEF RemoveFolder
<1>5. ASSUME NEW c \in Children, ServerStep(c) PROVE UNCHANGED worlds
  BY <1>5 DEF ServerStep
<1>6. Crash \/ UNCHANGED vars => UNCHANGED worlds
  BY DEF Crash, vars
<1> QED BY <1>1, <1>2, <1>3, <1>4, <1>5, <1>6 DEF Next

\* deleteGameResourceDirectory removes the folder of such a world only when no server of
\* it runs: the stop before it was over because the server had closed.
THEOREM CarefulRemovals == Spec => NoRemovalUnderServer
<1>1. IInv /\ CarefulInv /\ [Next]_vars =>
        [\A w \in (worlds \ worlds') \cap Serial :
           \A c \in Children : Live(c) => serves[c] # w]_vars
  <2> SUFFICES ASSUME IInv, CarefulInv, [Next]_vars, NEW w \in worlds \ worlds', w \in Serial,
                      NEW c \in Children, Live(c)
               PROVE  serves[c] # w
    OBVIOUS
  <2>1. SerialWorld(w) /\ w \in Worlds
    BY SerialIs
  <2>2. PICK r \in Requests : RemoveFolder(r) /\ World(r) = w
    BY FolderRemoved
  <2>3. Fits(handler[r], w) /\ handler[r].step = "remove"
    BY <2>1, <2>2, HandlerAt DEF At, RemoveFolder, Callback, Step
  <2>4. NoneAlive(w)
    BY <2>3 DEF Fits, StepsOf, Stopped
  <2> QED BY <2>4 DEF NoneAlive, Live, Alive
<1> QED BY <1>1, InvariantHolds, CarefulInvariantHolds, PTL
           DEF Spec, NoRemovalUnderServer

=============================================================================
