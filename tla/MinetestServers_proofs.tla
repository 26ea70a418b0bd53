----------------------- MODULE MinetestServers_proofs -----------------------
(***************************************************************************)
(* For every set of ports, handlers and children and every number of       *)
(* crashes: the supervisor keeps its tables consistent, never lists a dead  *)
(* server and never loses the wakeup of a waiting handler.                  *)
(***************************************************************************)
EXTENDS MinetestServers, TLAPS

\* The initial tables are empty and no handler runs.
LEMMA InitIInv == Init => IInv
BY NoneIsFresh, CrashBound DEF Init, IInv, TypeOK, TablesAgree, RunningsNotStale,
   NoLostWakeup, OneDrain, ReplacedIsNew, References

\* stopMinetestChildProcessByPort up to its await: the handler waits for the
\* tracked child, or continues at once when there is none.
LEMMA StopChildStep ==
  ASSUME IInv, NEW r \in Requests, NEW p \in Ports, LoopFree, pc[r] = "idle",
         op' \in [Requests -> {"restart", "stop"}], StopChild(r, p)
  PROVE  IInv'
<1> DEFINE c == childProcesses[p]
           k == IF c = None THEN None ELSE childProcessPromises[p]
<1>1. c \in Children \cup {None} /\ k = c
  BY DEF IInv, TypeOK, TablesAgree
<1>2. /\ at' = [at EXCEPT ![r] = p]
      /\ existed' = [existed EXCEPT ![r] = c]
      /\ promise' = [promise EXCEPT ![r] = c]
      /\ signalled' = signalled \cup {d \in {c} \ {None} : proc[d] = "running"}
      /\ pc' = [pc EXCEPT ![r] = IF c = None THEN "ready" ELSE "waiting"]
      /\ UNCHANGED <<childProcesses, childProcessPromises,
                     childProcessCloseResolves, resolved, proc, boundTo,
                     attached, crashes>>
  BY <1>1 DEF StopChild, AfterAwait, tables, IInv, References
<1>3. TypeOK'
  <2>1. signalled' \subseteq Children
    BY <1>1, <1>2 DEF IInv, TypeOK
  <2> QED
    BY <1>1, <1>2, <2>1 DEF IInv, TypeOK
<1>4. TablesAgree' /\ RunningsNotStale'
  BY <1>2 DEF IInv, TablesAgree, RunningsNotStale
<1>5. NoLostWakeup'
  <2> SUFFICES ASSUME NEW s \in Requests, pc'[s] = "waiting"
               PROVE  /\ promise'[s] # None
                      /\ promise'[s] \notin resolved'
                      /\ childProcesses'[at'[s]] = promise'[s]
                      /\ childProcessCloseResolves'[at'[s]] = promise'[s]
                      /\ \/ promise'[s] \in signalled'
                         \/ proc'[promise'[s]] = "exited"
    BY DEF NoLostWakeup
  <2>1. CASE s = r
    <3>1. c # None /\ promise'[s] = c /\ at'[s] = p
      BY <1>2, <2>1 DEF IInv, TypeOK
    <3>2. c \notin resolved /\ childProcessCloseResolves[p] = c
          /\ proc[c] \in {"running", "exited"}
      BY <3>1 DEF IInv, TablesAgree, RunningsNotStale, References
    <3>3. c \in signalled' \/ proc'[c] = "exited"
      BY <1>2, <3>1, <3>2
    <3> QED BY <1>2, <3>1, <3>2, <3>3
  <2>2. CASE s # r
    BY <1>2, <2>2 DEF IInv, TypeOK, NoLostWakeup
  <2> QED BY <2>1, <2>2
<1>6. OneDrain'
  <2> SUFFICES ASSUME NEW q \in Requests, NEW s \in Requests,
                      pc'[q] = "ready", pc'[s] = "waiting"
               PROVE  at'[q] # at'[s]
    BY DEF OneDrain
  <2>1. q = r /\ c = None /\ s # r /\ pc[s] = "waiting"
    BY <1>2 DEF LoopFree, IInv, TypeOK
  <2>2. childProcesses[at[s]] # None /\ at[s] \in Ports
    BY <2>1 DEF IInv, NoLostWakeup, References
  <2> QED BY <1>2, <2>1, <2>2 DEF IInv, TypeOK
<1>7. ReplacedIsNew'
  <2> SUFFICES ASSUME NEW s \in Requests, pc'[s] = "ready"
               PROVE  childProcesses'[at'[s]] \notin signalled'
    BY DEF ReplacedIsNew
  <2>1. s = r /\ c = None
    BY <1>2 DEF LoopFree, IInv, TypeOK
  <2> QED BY <1>2, <2>1, NoneIsFresh DEF IInv, TypeOK
<1>8. References'
  BY <1>2 DEF IInv, TypeOK, References
<1> QED BY <1>3, <1>4, <1>5, <1>6, <1>7, <1>8 DEF IInv

\* execMinetest after its await: nobody waits on the port, so overwriting
\* the tables orphans no wait.
LEMMA ContinueExecStep ==
  ASSUME IInv, NEW r \in Requests, ContinueExec(r)
  PROVE  IInv'
<1> DEFINE p == at[r]
<1>1. p \in Ports /\ pc[r] = "ready"
  BY DEF ContinueExec, IInv, References
<1>2. PICK c \in Children :
        /\ proc[c] = "unborn"
        /\ proc' = [proc EXCEPT ![c] = "running"]
        /\ boundTo' = [boundTo EXCEPT ![c] = p]
        /\ attached' = attached \cup {c}
        /\ childProcesses' = [childProcesses EXCEPT ![p] = c]
        /\ childProcessCloseResolves' =
             [childProcessCloseResolves EXCEPT ![p] = c]
        /\ childProcessPromises' = [childProcessPromises EXCEPT ![p] = c]
  BY DEF ContinueExec, Spawn, Unborn
<1>3. /\ pc' = [pc EXCEPT ![r] = "idle"]
      /\ at' = [at EXCEPT ![r] = None]
      /\ existed' = [existed EXCEPT ![r] = None]
      /\ promise' = [promise EXCEPT ![r] = None]
      /\ op' = [op EXCEPT ![r] = "stop"]
      /\ UNCHANGED <<resolved, signalled, crashes>>
  BY DEF ContinueExec, Return
<1>4. c # None /\ c \notin resolved
  BY <1>2, NoneIsFresh DEF IInv, References
<1>5. TypeOK'
  BY <1>1, <1>2, <1>3 DEF IInv, TypeOK
<1>6. TablesAgree'
  BY <1>1, <1>2 DEF IInv, TypeOK, TablesAgree
<1>7. RunningsNotStale'
  <2> SUFFICES ASSUME NEW q \in Ports, childProcesses'[q] # None
               PROVE  /\ childProcesses'[q] \in attached'
                      /\ boundTo'[childProcesses'[q]] = q
                      /\ proc'[childProcesses'[q]] \in {"running", "exited"}
    BY DEF RunningsNotStale
  <2>1. CASE q = p
    BY <1>1, <1>2, <2>1 DEF IInv, TypeOK
  <2>2. CASE q # p
    <3>1. childProcesses'[q] = childProcesses[q] /\ childProcesses[q] # c
      BY <1>1, <1>2, <2>2 DEF IInv, TypeOK, RunningsNotStale
    <3> QED BY <1>2, <3>1 DEF IInv, TypeOK, RunningsNotStale
  <2> QED BY <2>1, <2>2
<1>8. NoLostWakeup'
  <2> SUFFICES ASSUME NEW s \in Requests, pc'[s] = "waiting"
               PROVE  /\ promise'[s] # None
                      /\ promise'[s] \notin resolved'
                      /\ childProcesses'[at'[s]] = promise'[s]
                      /\ childProcessCloseResolves'[at'[s]] = promise'[s]
                      /\ \/ promise'[s] \in signalled'
                         \/ proc'[promise'[s]] = "exited"
    BY DEF NoLostWakeup
  <2>1. s # r /\ pc[s] = "waiting" /\ at[s] # p /\ at[s] \in Ports
    BY <1>1, <1>3 DEF IInv, TypeOK, OneDrain, References
  <2>2. at'[s] = at[s] /\ promise'[s] = promise[s]
    BY <1>3, <2>1 DEF IInv, TypeOK
  <2>3. promise[s] # c
    BY <1>2, <1>4, <2>1 DEF IInv, NoLostWakeup, RunningsNotStale
  <2> QED
    BY <1>2, <1>3, <2>1, <2>2, <2>3 DEF IInv, TypeOK, NoLostWakeup
<1>9. OneDrain'
  BY <1>3 DEF IInv, TypeOK, OneDrain
<1>10. ReplacedIsNew'
  <2>1. c \notin signalled
    BY <1>2 DEF IInv, References
  <2> QED BY <1>1, <1>2, <1>3, <2>1 DEF IInv, TypeOK, ReplacedIsNew
<1>11. References'
  <2>1. \A q \in Ports : childProcessCloseResolves'[q] # None =>
          /\ boundTo'[childProcessCloseResolves'[q]] = q
          /\ proc'[childProcessCloseResolves'[q]] # "unborn"
    BY <1>1, <1>2 DEF IInv, TypeOK, References
  <2>2. \A q \in Ports : childProcesses'[q] \notin resolved'
    BY <1>1, <1>2, <1>3, <1>4 DEF IInv, TypeOK, References
  <2>3. \A d \in resolved' \cup signalled' : proc'[d] # "unborn"
    BY <1>2, <1>3 DEF IInv, TypeOK, References
  <2>4. \A d \in attached' : boundTo'[d] \in Ports
    BY <1>1, <1>2 DEF IInv, TypeOK, References
  <2>5. \A s \in Requests : pc'[s] # "idle" => at'[s] \in Ports
    BY <1>3 DEF IInv, TypeOK, References
  <2> QED BY <2>1, <2>2, <2>3, <2>4, <2>5 DEF References
<1> QED BY <1>5, <1>6, <1>7, <1>8, <1>9, <1>10, <1>11 DEF IInv

\* Only the wait of the returning handler ends.
LEMMA ContinueStopStep ==
  ASSUME IInv, NEW r \in Requests, ContinueStop(r)
  PROVE  IInv'
<1>1. /\ pc' = [pc EXCEPT ![r] = "idle"]
      /\ at' = [at EXCEPT ![r] = None]
      /\ existed' = [existed EXCEPT ![r] = None]
      /\ promise' = [promise EXCEPT ![r] = None]
      /\ op' = [op EXCEPT ![r] = "stop"]
      /\ UNCHANGED <<childProcesses, childProcessPromises,
                     childProcessCloseResolves, resolved, proc, boundTo,
                     signalled, attached, crashes>>
  BY DEF ContinueStop, Return, tables, os
<1>2. TypeOK'
  BY <1>1 DEF IInv, TypeOK
<1>3. TablesAgree' /\ RunningsNotStale'
  BY <1>1 DEF IInv, TablesAgree, RunningsNotStale
<1>4. NoLostWakeup' /\ OneDrain' /\ ReplacedIsNew'
  BY <1>1 DEF IInv, TypeOK, NoLostWakeup, OneDrain, ReplacedIsNew
<1>5. References'
  BY <1>1 DEF IInv, TypeOK, References
<1> QED BY <1>2, <1>3, <1>4, <1>5 DEF IInv

\* The close event of any child of a port clears the slot of the port, if it
\* is taken, and wakes everybody who waits on the port.
LEMMA OnCloseStep ==
  ASSUME IInv, NEW c \in Children, OnClose(c)
  PROVE  IInv'
<1> DEFINE p == boundTo[c]
           k == childProcessCloseResolves[p]
<1>1. /\ p \in Ports
      /\ c \in attached
      /\ proc[c] = "exited"
      /\ \A r \in Requests : pc[r] # "ready"
  BY DEF OnClose, LoopFree, IInv, References
<1>2. /\ proc' = [proc EXCEPT ![c] = "closed"]
      /\ childProcesses' = [childProcesses EXCEPT ![p] = IF @ = k THEN None ELSE @]
      /\ childProcessPromises' =
           [childProcessPromises EXCEPT ![p] = IF @ = k THEN None ELSE @]
      /\ resolved' = resolved \cup ({k} \ {None})
      /\ pc' = [r \in Requests |-> IF pc[r] = "waiting" /\ promise[r] = k
                                   THEN "ready" ELSE pc[r]]
      /\ UNCHANGED <<childProcessCloseResolves, op, at, existed, promise,
                     boundTo, signalled, attached, crashes>>
  BY DEF OnClose, CloseResolve
<1>3. k \in Children \cup {None}
  BY <1>1 DEF IInv, TypeOK
<1>4. childProcesses'[p] = None /\ childProcessPromises'[p] = None
  BY <1>1, <1>2 DEF IInv, TypeOK, TablesAgree
<1>5. \A q \in Ports : q # p => /\ childProcesses'[q] = childProcesses[q]
                               /\ childProcessPromises'[q] = childProcessPromises[q]
  BY <1>1, <1>2 DEF IInv, TypeOK
<1>6. \A s \in Requests : pc'[s] = "waiting" =>
        pc[s] = "waiting" /\ at[s] \in Ports /\ at[s] # p
  <2> SUFFICES ASSUME NEW s \in Requests, pc'[s] = "waiting"
               PROVE  pc[s] = "waiting" /\ at[s] \in Ports /\ at[s] # p
    OBVIOUS
  <2>1. pc[s] = "waiting" /\ promise[s] # k
    BY <1>2 DEF IInv, TypeOK
  <2>2. childProcessCloseResolves[at[s]] = promise[s] /\ at[s] \in Ports
    BY <2>1 DEF IInv, NoLostWakeup, References
  <2> QED BY <2>1, <2>2
<1>7. TypeOK'
  BY <1>1, <1>2, <1>3 DEF IInv, TypeOK
<1>8. TablesAgree'
  BY <1>2, <1>4, <1>5 DEF IInv, TablesAgree
<1>9. RunningsNotStale'
  <2> SUFFICES ASSUME NEW q \in Ports, childProcesses'[q] # None
               PROVE  /\ childProcesses'[q] \in attached'
                      /\ boundTo'[childProcesses'[q]] = q
                      /\ proc'[childProcesses'[q]] \in {"running", "exited"}
    BY DEF RunningsNotStale
  <2>1. q # p /\ childProcesses'[q] = childProcesses[q]
    BY <1>4, <1>5
  <2>2. childProcesses[q] # c
    BY <1>1, <2>1 DEF IInv, RunningsNotStale
  <2> QED BY <1>2, <2>1, <2>2 DEF IInv, TypeOK, RunningsNotStale
<1>10. NoLostWakeup'
  <2> SUFFICES ASSUME NEW s \in Requests, pc'[s] = "waiting"
               PROVE  /\ promise'[s] # None
                      /\ promise'[s] \notin resolved'
                      /\ childProcesses'[at'[s]] = promise'[s]
                      /\ childProcessCloseResolves'[at'[s]] = promise'[s]
                      /\ \/ promise'[s] \in signalled'
                         \/ proc'[promise'[s]] = "exited"
    BY DEF NoLostWakeup
  <2>1. pc[s] = "waiting" /\ at[s] \in Ports /\ at[s] # p
    BY <1>6
  <2>2. boundTo[promise[s]] = at[s] /\ promise[s] \in Children
    BY <2>1 DEF IInv, TypeOK, NoLostWakeup, RunningsNotStale
  <2>3. promise[s] # c
    BY <2>1, <2>2
  <2>4. promise[s] # k
    BY <1>1, <2>1, <2>2, NoneIsFresh DEF IInv, References
  <2>5. promise[s] \notin resolved'
    BY <1>2, <2>1, <2>4 DEF IInv, NoLostWakeup
  <2> QED
    BY <1>2, <1>5, <2>1, <2>2, <2>3, <2>5 DEF IInv, TypeOK, NoLostWakeup
<1>11. OneDrain'
  <2> SUFFICES ASSUME NEW r \in Requests, NEW s \in Requests,
                      pc'[r] = "ready", pc'[s] = "waiting"
               PROVE  at'[r] # at'[s]
    BY DEF OneDrain
  <2>1. pc[r] = "waiting" /\ promise[r] = k
    BY <1>1, <1>2 DEF IInv, TypeOK
  <2>2. at[r] = p
    BY <1>1, <2>1 DEF IInv, NoLostWakeup, References
  <2> QED BY <1>2, <1>6, <2>2
<1>12. ReplacedIsNew'
  <2> SUFFICES ASSUME NEW r \in Requests, pc'[r] = "ready"
               PROVE  childProcesses'[at'[r]] \notin signalled'
    BY DEF ReplacedIsNew
  <2>1. pc[r] = "waiting" /\ promise[r] = k
    BY <1>1, <1>2 DEF IInv, TypeOK
  <2>2. at[r] = p
    BY <1>1, <2>1 DEF IInv, NoLostWakeup, References
  <2> QED BY <1>2, <1>4, <2>2, NoneIsFresh DEF IInv, TypeOK
<1>13. References'
  <2>1. \A q \in Ports : childProcessCloseResolves'[q] # None =>
          /\ boundTo'[childProcessCloseResolves'[q]] = q
          /\ proc'[childProcessCloseResolves'[q]] # "unborn"
    BY <1>2 DEF IInv, TypeOK, References
  <2>2. \A q \in Ports : childProcesses'[q] \notin resolved'
    <3> SUFFICES ASSUME NEW q \in Ports
                 PROVE  childProcesses'[q] \notin resolved'
      OBVIOUS
    <3>1. CASE q = p
      BY <1>2, <1>4, <3>1, NoneIsFresh DEF IInv, TypeOK
    <3>2. CASE q # p
      <4>1. childProcesses'[q] = childProcesses[q]
        BY <1>5, <3>2
      <4>2. k # None => childProcesses[q] # k
        BY <1>1, <1>3, <3>2 DEF IInv, References, RunningsNotStale
      <4> QED BY <1>2, <4>1, <4>2 DEF IInv, References
    <3> QED BY <3>1, <3>2
  <2>3. \A d \in resolved' \cup signalled' : proc'[d] # "unborn"
    BY <1>1, <1>2, <1>3 DEF IInv, TypeOK, References
  <2>4. \A d \in attached' : boundTo'[d] \in Ports
    BY <1>2 DEF IInv, References
  <2>5. \A s \in Requests : pc'[s] # "idle" => at'[s] \in Ports
    BY <1>2 DEF IInv, TypeOK, References
  <2> QED BY <2>1, <2>2, <2>3, <2>4, <2>5 DEF References
<1> QED BY <1>7, <1>8, <1>9, <1>10, <1>11, <1>12, <1>13 DEF IInv

\* A process may end at any time; nothing in the service changes.
LEMMA ExitStep ==
  ASSUME IInv, NEW c \in Children, Exit(c)
  PROVE  IInv'
<1>1. /\ proc[c] = "running"
      /\ proc' = [proc EXCEPT ![c] = "exited"]
      /\ UNCHANGED <<childProcesses, childProcessPromises,
                     childProcessCloseResolves, resolved, pc, op, at, existed,
                     promise, boundTo, signalled, attached, crashes>>
  BY DEF Exit, tables, requests
<1>2. TypeOK' /\ TablesAgree' /\ OneDrain' /\ ReplacedIsNew'
  BY <1>1 DEF IInv, TypeOK, TablesAgree, OneDrain, ReplacedIsNew
<1>3. RunningsNotStale'
  BY <1>1 DEF IInv, TypeOK, RunningsNotStale
<1>4. NoLostWakeup'
  BY <1>1 DEF IInv, TypeOK, NoLostWakeup
<1>5. References'
  BY <1>1 DEF IInv, TypeOK, References
<1> QED BY <1>2, <1>3, <1>4, <1>5 DEF IInv

\* A new Node process starts with empty tables and no handler.
LEMMA CrashStep == IInv /\ Crash => IInv'
BY NoneIsFresh, CrashBound DEF IInv, Crash, TypeOK, TablesAgree,
   RunningsNotStale, NoLostWakeup, OneDrain, ReplacedIsNew, References

\* A stutter changes nothing.
LEMMA StutterStep == IInv /\ UNCHANGED vars => IInv'
BY DEF IInv, vars, tables, requests, os, TypeOK, TablesAgree,
   RunningsNotStale, NoLostWakeup, OneDrain, ReplacedIsNew, References

\* Every step keeps the invariant.
LEMMA NextIInv == IInv /\ [Next]_vars => IInv'
<1> SUFFICES ASSUME IInv, [Next]_vars PROVE IInv'
  OBVIOUS
<1>1. ASSUME NEW r \in Requests, NEW p \in Ports, CallExec(r, p) PROVE IInv'
  <2>1. op' \in [Requests -> {"restart", "stop"}]
    BY <1>1 DEF CallExec, IInv, TypeOK
  <2> QED BY <1>1, <2>1, StopChildStep DEF CallExec
<1>2. ASSUME NEW r \in Requests, NEW p \in Ports, CallStop(r, p) PROVE IInv'
  <2>1. op' \in [Requests -> {"restart", "stop"}]
    BY <1>2 DEF CallStop, IInv, TypeOK
  <2> QED BY <1>2, <2>1, StopChildStep DEF CallStop
<1>3. ASSUME NEW r \in Requests, ContinueExec(r) PROVE IInv'
  BY <1>3, ContinueExecStep
<1>4. ASSUME NEW r \in Requests, ContinueStop(r) PROVE IInv'
  BY <1>4, ContinueStopStep
<1>5. ASSUME NEW c \in Children, OnClose(c) PROVE IInv'
  BY <1>5, OnCloseStep
<1>6. ASSUME NEW c \in Children, Exit(c) PROVE IInv'
  BY <1>6, ExitStep
<1>7. CASE Crash
  BY <1>7, CrashStep
<1>8. CASE UNCHANGED vars
  BY <1>8, StutterStep
<1> QED BY <1>1, <1>2, <1>3, <1>4, <1>5, <1>6, <1>7, <1>8 DEF Next

\* The invariant holds in every reachable state, for all constants.
THEOREM InvariantHolds == Spec => []IInv
BY InitIInv, NextIInv, PTL DEF Spec

\* /runnings never lists a port whose child is gone, the tables of
\* MinetestGamesService agree, and every variable has its type.
THEOREM SupervisorConsistent ==
  Spec => [](TypeOK /\ TablesAgree /\ RunningsNotStale)
<1>1. IInv => TypeOK /\ TablesAgree /\ RunningsNotStale
  BY DEF IInv
<1> QED BY <1>1, InvariantHolds, PTL

\* No restart or stop waits for a promise whose resolver was overwritten or
\* for a child that nobody told to end.
THEOREM NoWakeupLost == Spec => []NoLostWakeup
<1>1. IInv => NoLostWakeup
  BY DEF IInv
<1> QED BY <1>1, InvariantHolds, PTL

\* A spawn never replaces a server that was told to stop.
LEMMA SlotStep ==
  ASSUME IInv, Next
  PROVE  \A p \in Ports :
           LET c == childProcesses[p]
           IN c \in signalled /\ childProcesses'[p] # c /\ crashes' = crashes
                => childProcesses'[p] = None /\ c \in resolved'
<1> SUFFICES ASSUME NEW p \in Ports, childProcesses[p] \in signalled,
                    childProcesses'[p] # childProcesses[p], crashes' = crashes
             PROVE  childProcesses'[p] = None /\ childProcesses[p] \in resolved'
  OBVIOUS
<1>1. ASSUME NEW r \in Requests, ContinueExec(r) PROVE FALSE
  <2>1. at[r] # p
    BY <1>1 DEF ContinueExec, IInv, ReplacedIsNew
  <2> QED BY <1>1, <2>1 DEF ContinueExec, Spawn, IInv, TypeOK
<1>2. ASSUME NEW c \in Children, OnClose(c)
      PROVE  childProcesses'[p] = None /\ childProcesses[p] \in resolved'
  <2>1. p = boundTo[c] /\ childProcesses[p] = childProcessCloseResolves[p]
    BY <1>2 DEF OnClose, CloseResolve, IInv, TypeOK
  <2>2. childProcesses[p] # None
    BY NoneIsFresh DEF IInv, TypeOK
  <2> QED BY <1>2, <2>1, <2>2 DEF OnClose, CloseResolve, IInv, TypeOK
<1>3. ASSUME NEW r \in Requests, NEW q \in Ports,
             CallExec(r, q) \/ CallStop(r, q) PROVE FALSE
  BY <1>3 DEF CallExec, CallStop, StopChild, tables
<1>4. ASSUME NEW r \in Requests, ContinueStop(r) PROVE FALSE
  BY <1>4 DEF ContinueStop, tables
<1>5. ASSUME NEW c \in Children, Exit(c) PROVE FALSE
  BY <1>5 DEF Exit, tables
<1>6. CASE Crash
  BY <1>6 DEF Crash, IInv, TypeOK
<1> QED BY <1>1, <1>2, <1>3, <1>4, <1>5, <1>6 DEF Next

\* A server told to stop leaves its slot only by a close event of its port,
\* which resolves the promise its stoppers wait for (or with a crash).
THEOREM SlotKept == Spec => StoppingKeepsSlot
<1>1. IInv /\ [Next]_vars =>
        [\A p \in Ports :
           LET c == childProcesses[p]
           IN c \in signalled /\ childProcesses'[p] # c /\ crashes' = crashes
                => childProcesses'[p] = None /\ c \in resolved']_vars
  BY SlotStep
<1> QED BY <1>1, InvariantHolds, PTL DEF Spec, StoppingKeepsSlot

-----------------------------------------------------------------------------
\* On the ports whose calls do not overlap: at most one call is under way, the
\* slot is free when its continuation runs, and it waits for the child it found.
Exclusive == Ports \ Shared

OneCallEach ==
  \A r, s \in Requests :
    pc[r] # "idle" /\ pc[s] # "idle" /\ at[r] = at[s] /\ at[r] \in Exclusive
      => r = s

OneCallFindsSlot ==
  \A r \in Requests : at[r] \in Exclusive =>
    /\ pc[r] = "ready" => childProcesses[at[r]] = None
    /\ pc[r] = "waiting" => existed[r] = promise[r]

ExclInv ==
  /\ IInv
  /\ OneCallEach
  /\ crashes = 0 => OneCallFindsSlot
  /\ ServersAreTracked
  /\ ExclusiveStopWaits

\* Initially there is neither a call nor a server.
LEMMA InitExclInv == Init => ExclInv
BY InitIInv, NoneIsFresh
DEF Init, ExclInv, OneCallEach, OneCallFindsSlot, ServersAreTracked,
    ExclusiveStopWaits, StopsWaitOn

\* A call on an exclusive port is the only one there and finds the slot free
\* or waits for the child in it.
LEMMA ExclCallStep ==
  ASSUME ExclInv, NEW r \in Requests, NEW p \in Ports, LoopFree, pc[r] = "idle",
         MayCall(p), StopChild(r, p), IInv'
  PROVE  ExclInv'
<1>1. childProcesses[p] # None =>
        childProcessPromises[p] = childProcesses[p]
        /\ childProcesses[p] \notin resolved
  BY DEF ExclInv, IInv, TablesAgree, References
<1>2. /\ existed' = [existed EXCEPT ![r] = childProcesses[p]]
      /\ promise' = [promise EXCEPT ![r] = childProcesses[p]]
      /\ at' = [at EXCEPT ![r] = p]
      /\ pc' = [pc EXCEPT ![r] =
                  IF childProcesses[p] = None THEN "ready" ELSE "waiting"]
      /\ UNCHANGED <<childProcesses, proc, boundTo, crashes>>
  BY <1>1 DEF StopChild, AfterAwait, tables
<1>3. /\ at \in [Requests -> Ports \cup {None}]
      /\ existed \in [Requests -> Children \cup {None}]
      /\ promise \in [Requests -> Children \cup {None}]
      /\ pc \in [Requests -> {"idle", "waiting", "ready"}]
  BY DEF ExclInv, IInv, TypeOK
<1>4. OneCallEach'
  <2> SUFFICES ASSUME NEW q \in Requests, NEW s \in Requests,
                      pc'[q] # "idle", pc'[s] # "idle", at'[q] = at'[s],
                      at'[q] \in Exclusive
               PROVE  q = s
    BY DEF OneCallEach, Exclusive
  <2>1. p \in Exclusive => \A t \in Requests : pc[t] # "idle" => at[t] # p
    BY DEF MayCall, Exclusive
  <2>2. CASE q # r /\ s # r
    BY <1>2, <1>3, <2>2 DEF ExclInv, OneCallEach
  <2>3. CASE q = r \/ s = r
    BY <1>2, <1>3, <2>1, <2>3
  <2> QED BY <2>2, <2>3
<1>5. crashes' = 0 => OneCallFindsSlot'
  BY <1>2, <1>3 DEF ExclInv, OneCallFindsSlot, LoopFree, Exclusive
<1>6. ServersAreTracked'
  BY <1>2 DEF ExclInv, ServersAreTracked
<1>7. ExclusiveStopWaits'
  BY <1>2, <1>3 DEF LoopFree, ExclusiveStopWaits, StopsWaitOn
<1> QED BY <1>4, <1>5, <1>6, <1>7 DEF ExclInv

\* A continuation on an exclusive port spawns into a free slot.
LEMMA ExclContinueStep ==
  ASSUME ExclInv, NEW r \in Requests, ContinueExec(r), IInv'
  PROVE  ExclInv'
<1>1. at[r] \in Ports /\ pc[r] = "ready"
      /\ (crashes = 0 /\ at[r] \in Exclusive => childProcesses[at[r]] = None)
  BY DEF ContinueExec, ExclInv, IInv, References, OneCallFindsSlot
<1>2. PICK c \in Children :
        /\ proc[c] = "unborn"
        /\ proc' = [proc EXCEPT ![c] = "running"]
        /\ boundTo' = [boundTo EXCEPT ![c] = at[r]]
        /\ childProcesses' = [childProcesses EXCEPT ![at[r]] = c]
  BY DEF ContinueExec, Spawn, Unborn
<1>3. /\ pc' = [pc EXCEPT ![r] = "idle"]
      /\ at' = [at EXCEPT ![r] = None]
      /\ existed' = [existed EXCEPT ![r] = None]
      /\ promise' = [promise EXCEPT ![r] = None]
      /\ crashes' = crashes
  BY DEF ContinueExec, Return
<1>4. TypeOK
  BY DEF ExclInv, IInv
<1>5. None \notin Exclusive
  BY NoneIsFresh DEF Exclusive
<1>6. OneCallEach'
  BY <1>3, <1>4 DEF ExclInv, OneCallEach, TypeOK, Exclusive
<1>7. crashes' = 0 => OneCallFindsSlot'
  <2> SUFFICES ASSUME crashes = 0, NEW s \in Requests, at'[s] \in Exclusive
               PROVE  /\ pc'[s] = "ready" => childProcesses'[at'[s]] = None
                      /\ pc'[s] = "waiting" => existed'[s] = promise'[s]
    BY <1>3 DEF OneCallFindsSlot, Exclusive
  <2>1. s # r /\ pc'[s] = pc[s] /\ at'[s] = at[s] /\ existed'[s] = existed[s]
        /\ promise'[s] = promise[s]
    BY <1>3, <1>4, <1>5 DEF TypeOK
  <2>2. pc[s] = "ready" => at[s] # at[r]
    BY <1>1, <2>1 DEF ExclInv, OneCallEach
  <2> QED BY <1>1, <1>2, <1>4, <2>1, <2>2 DEF ExclInv, OneCallFindsSlot, TypeOK
<1>8. ServersAreTracked'
  <2> SUFFICES ASSUME crashes = 0, NEW d \in Children,
                      boundTo'[d] \in Exclusive,
                      proc'[d] \in {"running", "exited"}
               PROVE  childProcesses'[boundTo'[d]] = d
    BY <1>3 DEF ServersAreTracked, Exclusive
  <2>1. CASE d = c
    BY <1>1, <1>2, <1>4, <2>1 DEF TypeOK
  <2>2. CASE d # c
    <3>1. proc[d] \in {"running", "exited"} /\ boundTo'[d] = boundTo[d]
      BY <1>2, <1>4, <2>2 DEF TypeOK
    <3>2. childProcesses[boundTo[d]] = d
      BY <3>1 DEF ExclInv, ServersAreTracked, Exclusive
    <3>3. boundTo[d] # at[r]
      BY <1>1, <3>1, <3>2, NoneIsFresh
    <3> QED BY <1>1, <1>2, <1>4, <3>1, <3>2, <3>3 DEF TypeOK
  <2> QED BY <2>1, <2>2
<1>9. ExclusiveStopWaits'
  <2> SUFFICES ASSUME crashes = 0, NEW s \in Requests, at'[s] \in Exclusive,
                      pc'[s] = "ready", existed'[s] # None
               PROVE  proc'[existed'[s]] = "closed"
    BY <1>3 DEF ExclusiveStopWaits, StopsWaitOn, Exclusive
  <2>1. s # r /\ pc[s] = "ready" /\ at'[s] = at[s] /\ existed'[s] = existed[s]
    BY <1>3, <1>4 DEF TypeOK
  <2>2. proc[existed[s]] = "closed" /\ existed[s] \in Children
    BY <1>4, <2>1 DEF ExclInv, ExclusiveStopWaits, StopsWaitOn, Exclusive, TypeOK
  <2> QED BY <1>2, <1>4, <2>1, <2>2 DEF TypeOK
<1> QED BY <1>6, <1>7, <1>8, <1>9 DEF ExclInv

\* The child that closes on an exclusive port is the tracked one, so the
\* closure the port has is its own and wakes the call that waits for it.
LEMMA ExclCloseStep ==
  ASSUME ExclInv, NEW c \in Children, OnClose(c), IInv'
  PROVE  ExclInv'
<1> DEFINE p == boundTo[c]
           k == childProcessCloseResolves[p]
<1>1. TypeOK
  BY DEF ExclInv, IInv
<1>2. /\ p \in Ports /\ proc[c] = "exited" /\ crashes' = crashes
      /\ \A r \in Requests : pc[r] # "ready"
  BY DEF OnClose, LoopFree, ExclInv, IInv, References
<1>3. /\ proc' = [proc EXCEPT ![c] = "closed"]
      /\ childProcesses' = [childProcesses EXCEPT ![p] = IF @ = k THEN None ELSE @]
      /\ pc' = [r \in Requests |-> IF pc[r] = "waiting" /\ promise[r] = k
                                   THEN "ready" ELSE pc[r]]
      /\ UNCHANGED <<at, existed, promise, boundTo>>
  BY DEF OnClose, CloseResolve
<1>4. crashes = 0 /\ p \in Exclusive => childProcesses[p] = c /\ k = c
  BY <1>2, NoneIsFresh
  DEF ExclInv, ServersAreTracked, IInv, TablesAgree, Exclusive
<1>5. \A r \in Requests : pc'[r] = "ready" =>
        pc[r] = "waiting" /\ promise[r] = k /\ at[r] = p
  <2> SUFFICES ASSUME NEW r \in Requests, pc'[r] = "ready"
               PROVE  pc[r] = "waiting" /\ promise[r] = k /\ at[r] = p
    OBVIOUS
  <2>1. pc[r] = "waiting" /\ promise[r] = k
    BY <1>2, <1>3
  <2>2. at[r] \in Ports /\ childProcessCloseResolves[at[r]] = k /\ k # None
    BY <2>1 DEF ExclInv, IInv, NoLostWakeup, References
  <2> QED BY <1>2, <2>1, <2>2 DEF ExclInv, IInv, References
<1>6. OneCallEach'
  BY <1>3 DEF ExclInv, OneCallEach, Exclusive
<1>7. crashes' = 0 => OneCallFindsSlot'
  <2> SUFFICES ASSUME crashes = 0, NEW r \in Requests, at[r] \in Exclusive
               PROVE  /\ pc'[r] = "ready" => childProcesses'[at[r]] = None
                      /\ pc'[r] = "waiting" => existed[r] = promise[r]
    BY <1>2, <1>3 DEF OneCallFindsSlot, Exclusive
  <2>1. pc'[r] = "ready" => childProcesses'[at[r]] = None
    BY <1>1, <1>2, <1>3, <1>4, <1>5 DEF TypeOK
  <2>2. pc'[r] = "waiting" => existed[r] = promise[r]
    BY <1>3 DEF ExclInv, OneCallFindsSlot
  <2> QED BY <2>1, <2>2
<1>8. ServersAreTracked'
  <2> SUFFICES ASSUME crashes = 0, NEW d \in Children,
                      boundTo[d] \in Exclusive,
                      proc'[d] \in {"running", "exited"}
               PROVE  childProcesses'[boundTo[d]] = d
    BY <1>2, <1>3 DEF ServersAreTracked, Exclusive
  <2>1. d # c /\ proc[d] \in {"running", "exited"}
    BY <1>1, <1>3 DEF TypeOK
  <2>2. childProcesses[boundTo[d]] = d
    BY <2>1 DEF ExclInv, ServersAreTracked, Exclusive
  <2>3. boundTo[d] # p
    BY <1>4, <2>1, <2>2
  <2> QED BY <1>1, <1>3, <2>2, <2>3 DEF TypeOK, Exclusive
<1>9. ExclusiveStopWaits'
  <2> SUFFICES ASSUME crashes = 0, NEW r \in Requests, at[r] \in Exclusive,
                      pc'[r] = "ready", existed[r] # None
               PROVE  proc'[existed[r]] = "closed"
    BY <1>2, <1>3 DEF ExclusiveStopWaits, StopsWaitOn, Exclusive
  <2>1. existed[r] = c
    BY <1>4, <1>5 DEF ExclInv, OneCallFindsSlot
  <2> QED BY <1>1, <1>3, <2>1 DEF TypeOK
<1> QED BY <1>6, <1>7, <1>8, <1>9 DEF ExclInv

\* The other steps change no table; a crash ends what is claimed.
LEMMA ExclOtherSteps ==
  ASSUME ExclInv, IInv',
         \/ \E r \in Requests : ContinueStop(r)
         \/ \E c \in Children : Exit(c)
         \/ Crash
         \/ UNCHANGED vars
  PROVE  ExclInv'
<1>1. TypeOK /\ None \notin Exclusive
  BY NoneIsFresh DEF ExclInv, IInv, Exclusive
<1>2. ASSUME NEW r \in Requests, ContinueStop(r) PROVE ExclInv'
  <2>1. /\ pc' = [pc EXCEPT ![r] = "idle"]
        /\ at' = [at EXCEPT ![r] = None]
        /\ existed' = [existed EXCEPT ![r] = None]
        /\ promise' = [promise EXCEPT ![r] = None]
        /\ UNCHANGED <<childProcesses, proc, boundTo, crashes>>
    BY <1>2 DEF ContinueStop, Return, tables, os
  <2>2. OneCallEach'
    BY <1>1, <2>1 DEF ExclInv, OneCallEach, TypeOK, Exclusive
  <2>3. crashes' = 0 => OneCallFindsSlot'
    BY <1>1, <2>1 DEF ExclInv, OneCallFindsSlot, TypeOK, Exclusive
  <2>4. ServersAreTracked' /\ ExclusiveStopWaits'
    BY <1>1, <2>1 DEF ExclInv, ServersAreTracked, ExclusiveStopWaits,
       StopsWaitOn, TypeOK
  <2> QED BY <2>2, <2>3, <2>4 DEF ExclInv
<1>3. ASSUME NEW c \in Children, Exit(c) PROVE ExclInv'
  <2>1. /\ proc[c] = "running"
        /\ proc' = [proc EXCEPT ![c] = "exited"]
        /\ UNCHANGED <<childProcesses, boundTo, pc, at, existed, promise, crashes>>
    BY <1>3 DEF Exit, tables, requests
  <2>2. OneCallEach' /\ (crashes' = 0 => OneCallFindsSlot')
    BY <2>1 DEF ExclInv, OneCallEach, OneCallFindsSlot, Exclusive
  <2>3. ServersAreTracked'
    BY <1>1, <2>1 DEF ExclInv, ServersAreTracked, TypeOK
  <2>4. ExclusiveStopWaits'
    BY <1>1, <2>1 DEF ExclInv, ExclusiveStopWaits, StopsWaitOn, TypeOK
  <2> QED BY <2>2, <2>3, <2>4 DEF ExclInv
<1>4. CASE Crash
  <2>1. crashes' # 0 /\ \A r \in Requests : pc'[r] = "idle"
    BY <1>1, <1>4, CrashBound DEF Crash, TypeOK
  <2> QED BY <2>1 DEF ExclInv, OneCallEach, ServersAreTracked,
             ExclusiveStopWaits
<1>5. CASE UNCHANGED vars
  BY <1>5 DEF ExclInv, OneCallEach, OneCallFindsSlot, ServersAreTracked,
     ExclusiveStopWaits, StopsWaitOn, Exclusive, vars, tables, requests, os
<1> QED BY <1>2, <1>3, <1>4, <1>5

\* On a port whose calls do not overlap, and as long as the Node process
\* lives, every live server is the tracked one, so that there is at most one,
\* and a stop returns only after the server it killed has closed; whatever
\* overlaps on the other ports.
THEOREM ExclusivePortsSafe ==
  Spec => [](ServersAreTracked /\ ExclusiveStopWaits)
<1>1. ExclInv /\ [Next]_vars => ExclInv'
  <2> SUFFICES ASSUME ExclInv, [Next]_vars PROVE ExclInv'
    OBVIOUS
  <2>1. IInv'
    BY NextIInv DEF ExclInv
  <2>2. ASSUME NEW r \in Requests, NEW p \in Ports,
               CallExec(r, p) \/ CallStop(r, p)
        PROVE  ExclInv'
    BY <2>1, <2>2, ExclCallStep DEF CallExec, CallStop
  <2>3. ASSUME NEW r \in Requests, ContinueExec(r) PROVE ExclInv'
    BY <2>1, <2>3, ExclContinueStep
  <2>4. ASSUME NEW c \in Children, OnClose(c) PROVE ExclInv'
    BY <2>1, <2>4, ExclCloseStep
  <2> QED BY <2>1, <2>2, <2>3, <2>4, ExclOtherSteps DEF Next
<1>2. ExclInv => ServersAreTracked /\ ExclusiveStopWaits
  BY DEF ExclInv
<1> QED BY <1>1, <1>2, InitExclInv, PTL DEF Spec

\* On such a port a stop is over only when the process it killed has closed.
THEOREM ExclusiveStopsWait == Spec => []ExclusiveStopWaits
<1>1. ServersAreTracked /\ ExclusiveStopWaits => ExclusiveStopWaits
  OBVIOUS
<1> QED BY <1>1, ExclusivePortsSafe, PTL
=============================================================================
