------------------------------ MODULE Ratings ------------------------------
(***************************************************************************)
(* RatingsService: users create, change and delete their rating of a game,  *)
(* and after each change a task nobody waits for recomputes the average     *)
(* kept in the game's row.                                                  *)
(*                                                                          *)
(* One process per request, one step per database statement it awaits; the  *)
(* recomputation goes on in the same process after the answer was sent.     *)
(* repository.save selects the row and then writes the difference, if any;  *)
(* both together have the effect of one atomic write, at the select when    *)
(* nothing differs and at the write otherwise.                              *)
(***************************************************************************)
EXTENDS FiniteSetsExt, Naturals

CONSTANTS Games, Users,
          Values,      \* ratings users give
          Requests,    \* request processes, reused
          Patient,     \* users who send a request only after the last answer
          MaxRows,     \* bound: rating rows ever inserted
          Null         \* no rating, no row

ASSUME ValuesAreRatings == Values \subseteq 100 .. 500
ASSUME PatientUsers == Patient \subseteq Users
ASSUME RowBound == MaxRows \in Nat

\* Rows of the rating table, whatever the bound.
AnyRow == [id : Nat, game : Games, user : Users, value : Values]

ASSUME NullIsFresh == Null \notin Nat \cup AnyRow

VARIABLES
  games,    \* games that have a row
  rating,   \* the rating column of the game table
  rows,     \* the rating table
  lastId,   \* its AUTO_INCREMENT counter
  pc,       \* request -> the statement it awaits next
  job,      \* request -> what was asked
  entity,   \* request -> local entity (update) or rating (delete)
  average,  \* request -> local rating of updateGameRating
  raced     \* history: games on which two requests were under way at once

vars == <<games, rating, rows, lastId, pc, job, entity, average, raced>>

Row  == [id : 1 .. MaxRows, game : Games, user : Users, value : Values]
Jobs ==
  [op : {"update"}, game : Games, user : Users, value : Values] \cup
  [op : {"delete"}, game : Games, user : Users, value : {Null}]
Steps == {"idle", "find", "save", "remove", "recompute", "store"}

\* Ratings and averages lie between 100 and 500, ids within the counter.
TypeOK ==
  /\ games \subseteq Games
  /\ rating \in [Games -> 100 .. 500 \cup {Null}]
  /\ rows \subseteq Row
  /\ lastId \in 0 .. MaxRows
  /\ pc \in [Requests -> Steps]
  /\ job \in [Requests -> Jobs \cup {Null}]
  /\ entity \in [Requests -> Row \cup {Null}]
  /\ average \in [Requests -> 100 .. 500 \cup {Null}]
  /\ raced \subseteq Games

Init ==
  /\ games = Games
  /\ rating = [g \in Games |-> Null]
  /\ rows = {}
  /\ lastId = 0
  /\ pc = [r \in Requests |-> "idle"]
  /\ job = [r \in Requests |-> Null]
  /\ entity = [r \in Requests |-> Null]
  /\ average = [r \in Requests |-> Null]
  /\ raced = {}

-----------------------------------------------------------------------------
\* Before its answer a request awaits one of these.
Unanswered(r) == pc[r] \in {"find", "save", "remove"}

RowsOf(g) == {row \in rows : row.game = g}
RowsBy(g, u) == {row \in RowsOf(g) : row.user = u}

\* Math.floor of the mean, null without ratings.
FloorMean(S) ==
  IF S = {} THEN Null
  ELSE MapThenSumSet(LAMBDA row : row.value, S) \div Cardinality(S)

\* A request reaches the service.
Begin(r, j) ==
  /\ pc[r] = "idle"
  /\ j.user \in Patient =>
       \A s \in Requests : Unanswered(s) => job[s].user # j.user
  /\ pc' = [pc EXCEPT ![r] = "find"]
  /\ job' = [job EXCEPT ![r] = j]
  /\ raced' = raced \cup {g \in {j.game} :
                \E s \in Requests : pc[s] # "idle" /\ job[s].game = g}
  /\ UNCHANGED <<games, rating, rows, lastId, entity, average>>

\* Bound: every row that may still be inserted has an id.
RowLeft ==
  lastId + Cardinality({r \in Requests : Unanswered(r) /\ job[r].op = "update"})
    < MaxRows

\* update: the game is counted (without one the request fails unchanged).
BeginUpdate(r, g, u, v) ==
  /\ g \in games /\ RowLeft
  /\ Begin(r, [op |-> "update", game |-> g, user |-> u, value |-> v])

\* delete: looks at no game.
BeginDelete(r, g, u) ==
  Begin(r, [op |-> "delete", game |-> g, user |-> u, value |-> Null])

\* findOne({ where: { gameId, username } }): some matching row.
FindRating(r) ==
  LET found == RowsBy(job[r].game, job[r].user)
  IN /\ pc[r] = "find"
     /\ \/ found # {} /\ \E row \in found : entity' = [entity EXCEPT ![r] = row]
        \/ found = {} /\ entity' = [entity EXCEPT ![r] = Null]
     /\ \/ /\ job[r].op = "update"
           /\ pc' = [pc EXCEPT ![r] = "save"]
           /\ job' = job
        \/ /\ job[r].op = "delete" /\ found # {}
           /\ pc' = [pc EXCEPT ![r] = "remove"]
           /\ job' = job
        \/ /\ job[r].op = "delete" /\ found = {}   \* Rating not found
           /\ pc' = [pc EXCEPT ![r] = "idle"]
           /\ job' = [job EXCEPT ![r] = Null]
     /\ UNCHANGED <<games, rating, rows, lastId, average, raced>>

\* (Mutant: every save inserts.)
SaveRatingInserts(r) ==
  /\ pc[r] = "save"
  /\ rows' = rows \cup {[id |-> lastId + 1, game |-> job[r].game,
                          user |-> job[r].user, value |-> job[r].value]}
  /\ lastId' = lastId + 1
  /\ entity' = [entity EXCEPT ![r] = Null]
  /\ pc' = [pc EXCEPT ![r] = "recompute"]
  /\ UNCHANGED <<games, rating, job, average, raced>>

\* ratingRepository.save: insert a new row, or write the found one back
\* under its id, even if it was deleted in the meantime.
SaveRating(r) ==
  LET new == [id |-> IF entity[r] = Null THEN lastId + 1 ELSE entity[r].id,
              game |-> job[r].game, user |-> job[r].user,
              value |-> job[r].value]
  IN /\ pc[r] = "save"
     /\ rows' = {row \in rows : row.id # new.id} \cup {new}
     /\ lastId' = IF entity[r] = Null THEN lastId + 1 ELSE lastId
     /\ entity' = [entity EXCEPT ![r] = Null]
     /\ pc' = [pc EXCEPT ![r] = "recompute"]
     /\ UNCHANGED <<games, rating, job, average, raced>>

\* (Mutants: the whole game's ratings go; the average is not recomputed.)
RemoveRatingsOfGame(r) ==
  /\ pc[r] = "remove"
  /\ rows' = {row \in rows : row.game # job[r].game}
  /\ entity' = [entity EXCEPT ![r] = Null]
  /\ pc' = [pc EXCEPT ![r] = "recompute"]
  /\ UNCHANGED <<games, rating, lastId, job, average, raced>>
RemoveRatingOnly(r) ==
  /\ pc[r] = "remove"
  /\ rows' = {row \in rows : row.id # entity[r].id}
  /\ entity' = [entity EXCEPT ![r] = Null]
  /\ pc' = [pc EXCEPT ![r] = "idle"]
  /\ job' = [job EXCEPT ![r] = Null]
  /\ UNCHANGED <<games, rating, lastId, average, raced>>

\* ratingRepository.delete by id.
RemoveRating(r) ==
  /\ pc[r] = "remove"
  /\ rows' = {row \in rows : row.id # entity[r].id}
  /\ entity' = [entity EXCEPT ![r] = Null]
  /\ pc' = [pc EXCEPT ![r] = "recompute"]
  /\ UNCHANGED <<games, rating, lastId, job, average, raced>>

\* updateGameRating, first await: all ratings of the game in one select.
Recompute(r) ==
  /\ pc[r] = "recompute"
  /\ average' = [average EXCEPT ![r] = FloorMean(RowsOf(job[r].game))]
  /\ pc' = [pc EXCEPT ![r] = "store"]
  /\ UNCHANGED <<games, rating, rows, lastId, job, entity, raced>>

\* updateGameRating, second await.  For a game deleted in the meantime save
\* tries an insert that lacks mandatory columns; the rejection is only logged.
StoreAverage(r) ==
  /\ pc[r] = "store"
  /\ rating' = [g \in Games |-> IF g = job[r].game /\ g \in games
                                THEN average[r] ELSE rating[g]]
  /\ average' = [average EXCEPT ![r] = Null]
  /\ pc' = [pc EXCEPT ![r] = "idle"]
  /\ job' = [job EXCEPT ![r] = Null]
  /\ UNCHANGED <<games, rows, lastId, entity, raced>>

\* The owner deletes the game; its rating rows stay.
DeleteGame(g) ==
  /\ g \in games
  /\ games' = games \ {g}
  /\ UNCHANGED <<rating, rows, lastId, pc, job, entity, average, raced>>

Step(r) ==
  \/ FindRating(r)
  \/ SaveRating(r)
  \/ RemoveRating(r)
  \/ Recompute(r)
  \/ StoreAverage(r)

Next ==
  \/ \E r \in Requests, g \in Games, u \in Users, v \in Values :
       BeginUpdate(r, g, u, v)
  \/ \E r \in Requests, g \in Games, u \in Users : BeginDelete(r, g, u)
  \/ \E r \in Requests : Step(r)
  \/ \E g \in Games : DeleteGame(g)

Spec == Init /\ [][Next]_vars

-----------------------------------------------------------------------------
\* "Create or update your rating": one row per game for each user who waits
\* for the answers.  There is no unique index; it rests on the row that
\* findOne did not see not having been inserted by the time of the save.
OneRatingPerUser ==
  \A a, b \in rows :
    a.user \in Patient /\ a.game = b.game /\ a.user = b.user => a = b

\* What findOne of a patient user's request answered is still so when the
\* request acts on it.
FoundStillTrue ==
  \A r \in Requests : pc[r] \in {"save", "remove"} /\ job[r].user \in Patient =>
    RowsBy(job[r].game, job[r].user) = {entity[r]} \ {Null}

\* A game on which requests never overlapped shows the floor of the mean of
\* its ratings once no request for it is under way.
UndisturbedAverage ==
  \A g \in games \ raced :
    (\A r \in Requests : pc[r] # "idle" => job[r].game # g)
      => rating[g] = FloorMean(RowsOf(g))

\* "Calculated average rating of the game": the same for every game.  It does
\* not hold for raced ones: recomputations store their results in any order.
CalculatedAverage ==
  \A g \in games :
    (\A r \in Requests : pc[r] # "idle" => job[r].game # g)
      => rating[g] = FloorMean(RowsOf(g))

=============================================================================
