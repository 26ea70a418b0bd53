--------------------------- MODULE Ratings_proofs ---------------------------
(***************************************************************************)
(* For all sets of games, users, values and request processes: a user who   *)
(* waits for the answer before the next request has one rating per game,    *)
(* and what such a request found in the rating table is still so when it    *)
(* writes, whatever other users send.                                       *)
(***************************************************************************)
EXTENDS Ratings, TLAPS

\* The part of the types the proof needs; no bound on the ids.
RatingTypes ==
  /\ rows \subseteq AnyRow
  /\ lastId \in Nat
  /\ pc \in [Requests -> Steps]
  /\ job \in [Requests -> Jobs \cup {Null}]
  /\ \A r \in Requests : pc[r] # "idle" => job[r] \in Jobs
  /\ entity \in [Requests -> AnyRow \cup {Null}]

\* Ids are unique and were all given out by the counter.
UniqueIds ==
  /\ \A a, b \in rows : a.id = b.id => a = b
  /\ \A a \in rows : a.id <= lastId

\* A patient user has at most one request without an answer.
OneUnanswered ==
  \A r, s \in Requests :
    /\ Unanswered(r) /\ Unanswered(s)
    /\ job[r].user = job[s].user /\ job[r].user \in Patient
    => r = s

\* Only deletes of a row that was found get as far as the removal, and only
\* updates save.
RightStep ==
  \A r \in Requests :
    /\ pc[r] = "save" => job[r].op = "update"
    /\ pc[r] = "remove" => entity[r] # Null

\* A found row that a request is about to write.
Holds(r) == pc[r] \in {"save", "remove"} /\ entity[r] # Null

SameOwner(x, y) == x.game = y.game /\ x.user = y.user

\* An id stands for one user's rating of one game for good, even when the row
\* was deleted after a request found it.
IdsKeepOwner ==
  \A r \in Requests : Holds(r) =>
    /\ entity[r].id <= lastId
    /\ SameOwner(entity[r], job[r])
    /\ \A row \in rows : row.id = entity[r].id => SameOwner(row, entity[r])
    /\ \A s \in Requests : Holds(s) /\ entity[s].id = entity[r].id =>
         SameOwner(entity[s], entity[r])

RInv ==
  /\ RatingTypes
  /\ UniqueIds
  /\ OneUnanswered
  /\ RightStep
  /\ IdsKeepOwner
  /\ OneRatingPerUser
  /\ FoundStillTrue

\* FoundStillTrue without the sets: the row found is the only one.
LEMMA FoundRow ==
  ASSUME RInv, NEW r \in Requests, pc[r] \in {"save", "remove"},
         job[r].user \in Patient
  PROVE  /\ entity[r] # Null => entity[r] \in rows
         /\ \A row \in rows : SameOwner(row, job[r]) => row = entity[r]
<1>1. RowsBy(job[r].game, job[r].user) = {entity[r]} \ {Null}
  BY DEF RInv, FoundStillTrue
<1> QED BY <1>1 DEF RowsBy, RowsOf, SameOwner

\* Initially there are no rows and no requests.
LEMMA InitRInv == Init => RInv
BY NullIsFresh DEF Init, RInv, RatingTypes, UniqueIds, OneUnanswered, RightStep,
   IdsKeepOwner, Holds, OneRatingPerUser, FoundStillTrue, Unanswered, Steps

\* Starting a request keeps the others' findings; a patient user has no other.
LEMMA BeginStep ==
  ASSUME RInv, NEW r \in Requests, NEW j \in Jobs, Begin(r, j)
  PROVE  RInv'
<1>1. /\ pc[r] = "idle"
      /\ pc' = [pc EXCEPT ![r] = "find"]
      /\ job' = [job EXCEPT ![r] = j]
      /\ UNCHANGED <<rows, lastId, entity>>
  BY DEF Begin
<1>2. j.user \in Patient =>
        \A s \in Requests : Unanswered(s) => job[s].user # j.user
  BY DEF Begin
<1>3. RatingTypes'
  BY <1>1 DEF RInv, RatingTypes, Steps
<1>4. UniqueIds' /\ OneRatingPerUser'
  BY <1>1 DEF RInv, UniqueIds, OneRatingPerUser
<1>5. OneUnanswered'
  BY <1>1, <1>2 DEF RInv, RatingTypes, OneUnanswered, Unanswered
<1>6. RightStep' /\ FoundStillTrue'
  BY <1>1 DEF RInv, RatingTypes, RightStep, FoundStillTrue, RowsBy, RowsOf
<1>7. IdsKeepOwner'
  BY <1>1 DEF RInv, RatingTypes, IdsKeepOwner, Holds, SameOwner
<1> QED BY <1>3, <1>4, <1>5, <1>6, <1>7 DEF RInv

\* findOne: some row of the user and game; of a patient user, the only one.
LEMMA FindStep ==
  ASSUME RInv, NEW r \in Requests, FindRating(r)
  PROVE  RInv'
<1> DEFINE found == RowsBy(job[r].game, job[r].user)
<1>1. /\ pc[r] = "find"
      /\ job[r] \in Jobs
      /\ UNCHANGED <<rows, lastId>>
  BY DEF FindRating, RInv, RatingTypes
<1>2. PICK e \in AnyRow \cup {Null} :
        /\ entity' = [entity EXCEPT ![r] = e]
        /\ e # Null => e \in rows /\ SameOwner(e, job[r])
        /\ found # {} => e # Null
        /\ job[r].user \in Patient => found = {e} \ {Null}
  <2>1. CASE found # {}
    <3>1. PICK row \in found : entity' = [entity EXCEPT ![r] = row]
      BY <2>1 DEF FindRating
    <3>2. row \in AnyRow /\ row \in rows /\ SameOwner(row, job[r])
      BY <3>1 DEF RowsBy, RowsOf, SameOwner, RInv, RatingTypes
    <3>3. row # Null
      BY <3>2, NullIsFresh
    <3>4. job[r].user \in Patient => found = {row}
      BY <3>1 DEF RowsBy, RowsOf, RInv, OneRatingPerUser
    <3> QED BY <3>1, <3>2, <3>3, <3>4
  <2>2. CASE found = {}
    BY <2>2 DEF FindRating
  <2> QED BY <2>1, <2>2
<1>3. \/ /\ job[r].op = "update"
         /\ pc' = [pc EXCEPT ![r] = "save"] /\ job' = job
      \/ /\ found # {}
         /\ pc' = [pc EXCEPT ![r] = "remove"] /\ job' = job
      \/ /\ pc' = [pc EXCEPT ![r] = "idle"]
         /\ job' = [job EXCEPT ![r] = Null]
  BY DEF FindRating
<1>4. RatingTypes'
  BY <1>1, <1>2, <1>3 DEF RInv, RatingTypes, Steps
<1>5. UniqueIds' /\ OneRatingPerUser'
  BY <1>1 DEF RInv, UniqueIds, OneRatingPerUser
<1>6. OneUnanswered'
  BY <1>1, <1>3 DEF RInv, RatingTypes, OneUnanswered, Unanswered
<1>7. RightStep'
  BY <1>1, <1>2, <1>3 DEF RInv, RatingTypes, RightStep
<1>8. \A s \in Requests : s # r =>
        pc'[s] = pc[s] /\ job'[s] = job[s] /\ entity'[s] = entity[s]
  BY <1>2, <1>3 DEF RInv, RatingTypes
<1>9. pc'[r] \in {"save", "remove"} => job'[r] = job[r] /\ entity'[r] = e
  BY <1>2, <1>3 DEF RInv, RatingTypes
<1>10. FoundStillTrue'
  <2> SUFFICES ASSUME NEW s \in Requests, pc'[s] \in {"save", "remove"},
                      job'[s].user \in Patient
               PROVE  {row \in rows' : /\ row.game = job'[s].game
                                      /\ row.user = job'[s].user}
                        = {entity'[s]} \ {Null}
    BY DEF FoundStillTrue, RowsBy, RowsOf
  <2>1. CASE s = r
    BY <1>1, <1>2, <1>9, <2>1 DEF RowsBy, RowsOf
  <2>2. CASE s # r
    BY <1>1, <1>8, <2>2 DEF RInv, FoundStillTrue, RowsBy, RowsOf
  <2> QED BY <2>1, <2>2
<1>11. IdsKeepOwner'
  <2> SUFFICES ASSUME NEW s \in Requests, Holds(s)'
               PROVE  /\ entity'[s].id <= lastId
                      /\ SameOwner(entity'[s], job'[s])
                      /\ \A row \in rows : row.id = entity'[s].id =>
                           SameOwner(row, entity'[s])
                      /\ \A t \in Requests :
                           Holds(t)' /\ entity'[t].id = entity'[s].id =>
                             SameOwner(entity'[t], entity'[s])
    BY <1>1 DEF IdsKeepOwner, SameOwner
  <2>1. \A t \in Requests : Holds(t)' /\ t # r => Holds(t)
    BY <1>8 DEF Holds
  <2>2. Holds(r)' => entity'[r] \in rows /\ SameOwner(entity'[r], job'[r])
    BY <1>2, <1>9 DEF Holds
  <2>3. CASE s = r
    BY <1>8, <2>1, <2>2, <2>3
    DEF RInv, UniqueIds, IdsKeepOwner, SameOwner
  <2>4. CASE s # r
    BY <1>8, <2>1, <2>2, <2>4 DEF RInv, IdsKeepOwner, SameOwner
  <2> QED BY <2>3, <2>4
<1> QED BY <1>4, <1>5, <1>6, <1>7, <1>10, <1>11 DEF RInv

\* A write of one user's rows leaves the findings about patient others true.
LEMMA OthersKeepFindings ==
  ASSUME RInv, NEW r \in Requests, pc[r] \in {"save", "remove"},
         pc' = [pc EXCEPT ![r] = "recompute"], job' = job,
         entity' = [entity EXCEPT ![r] = Null],
         \A x \in (rows \ rows') \cup (rows' \ rows) : x.user = job[r].user
  PROVE  FoundStillTrue'
<1> SUFFICES ASSUME NEW s \in Requests, pc'[s] \in {"save", "remove"},
                    job'[s].user \in Patient
             PROVE  {row \in rows' : /\ row.game = job'[s].game
                                    /\ row.user = job'[s].user}
                      = {entity'[s]} \ {Null}
  BY DEF FoundStillTrue, RowsBy, RowsOf
<1>1. /\ s # r /\ pc[s] \in {"save", "remove"}
      /\ entity'[s] = entity[s] /\ job'[s] = job[s]
  BY DEF RInv, RatingTypes
<1>2. job[s].user # job[r].user
  BY <1>1 DEF RInv, OneUnanswered, Unanswered
<1>3. {row \in rows' : row.game = job[s].game /\ row.user = job[s].user}
        = {row \in rows : row.game = job[s].game /\ row.user = job[s].user}
  BY <1>2
<1>4. {row \in rows : row.game = job[s].game /\ row.user = job[s].user}
        = {entity[s]} \ {Null}
  BY <1>1 DEF RInv, FoundStillTrue, RowsBy, RowsOf
<1> QED BY <1>1, <1>3, <1>4

\* save: the new row takes the place of the one found, or has a new id.  Of a
\* patient user it is then the only one for the game.
LEMMA SaveStep ==
  ASSUME RInv, NEW r \in Requests, SaveRating(r)
  PROVE  RInv'
<1> DEFINE old == entity[r]
           id == IF old = Null THEN lastId + 1 ELSE old.id
           new == [id |-> id, game |-> job[r].game, user |-> job[r].user,
                   value |-> job[r].value]
<1>1. /\ pc[r] = "save"
      /\ rows' = {row \in rows : row.id # new.id} \cup {new}
      /\ lastId' = IF old = Null THEN lastId + 1 ELSE lastId
      /\ entity' = [entity EXCEPT ![r] = Null]
      /\ pc' = [pc EXCEPT ![r] = "recompute"]
      /\ job' = job
  BY DEF SaveRating
<1>2. /\ job[r] \in Jobs /\ job[r].op = "update"
      /\ job[r].game \in Games /\ job[r].user \in Users
      /\ job[r].value \in Values
  BY <1>1 DEF RInv, RatingTypes, RightStep, Jobs
<1>3. /\ rows \subseteq AnyRow /\ lastId \in Nat
      /\ entity \in [Requests -> AnyRow \cup {Null}]
  BY DEF RInv, RatingTypes
<1>4. old # Null => /\ old \in AnyRow /\ old.id <= lastId
                    /\ SameOwner(old, new) /\ Holds(r)
  BY <1>1, <1>3 DEF RInv, IdsKeepOwner, Holds, SameOwner
<1>5. id \in Nat /\ id <= lastId' /\ lastId <= lastId' /\ lastId' \in Nat
  BY <1>1, <1>3, <1>4 DEF AnyRow
<1>6. new \in AnyRow
  BY <1>2, <1>5 DEF AnyRow
<1>7. RatingTypes'
  BY <1>1, <1>3, <1>5, <1>6 DEF RInv, RatingTypes, Steps
<1>8. \A a \in rows : a.id \in Nat /\ a.id <= lastId
  BY <1>3 DEF AnyRow, RInv, UniqueIds
<1>9. UniqueIds'
  <2>1. \A a \in rows' : a.id <= lastId'
    BY <1>1, <1>3, <1>5, <1>8
  <2>2. \A a, b \in rows' : a.id = b.id => a = b
    BY <1>1 DEF RInv, UniqueIds
  <2> QED BY <2>1, <2>2 DEF UniqueIds
<1>10. \A row \in rows : row.id = id => SameOwner(row, new)
  <2>1. CASE old = Null
    BY <1>3, <1>8, <2>1
  <2>2. CASE old # Null
    BY <1>4, <2>2 DEF RInv, IdsKeepOwner, SameOwner
  <2> QED BY <2>1, <2>2
<1>11. OneRatingPerUser'
  <2> SUFFICES ASSUME NEW a \in rows', NEW b \in rows', a.user \in Patient,
                      SameOwner(a, b)
               PROVE  a = b
    BY DEF OneRatingPerUser, SameOwner
  <2>1. new.user \in Patient =>
          \A row \in rows : SameOwner(row, new) => row.id = id
    <3> SUFFICES ASSUME new.user \in Patient, NEW row \in rows,
                        SameOwner(row, new)
                 PROVE  row.id = id
      OBVIOUS
    <3>1. row = old
      BY <1>1, FoundRow DEF SameOwner
    <3> QED BY <1>3, <3>1, NullIsFresh
  <2> QED BY <1>1, <2>1 DEF RInv, OneRatingPerUser, SameOwner
<1>12. OneUnanswered' /\ RightStep'
  BY <1>1 DEF RInv, RatingTypes, OneUnanswered, Unanswered, RightStep
<1>13. FoundStillTrue'
  <2>1. \A x \in (rows \ rows') \cup (rows' \ rows) : x.user = job[r].user
    BY <1>1, <1>10 DEF SameOwner
  <2> QED BY <1>1, <2>1, OthersKeepFindings
<1>14. IdsKeepOwner'
  <2>1. \A s \in Requests : Holds(s)' =>
          /\ s # r /\ Holds(s) /\ job'[s] = job[s] /\ entity'[s] = entity[s]
    BY <1>1 DEF RInv, RatingTypes, Holds
  <2>2. \A s \in Requests : Holds(s)' /\ entity[s].id = id =>
          SameOwner(new, entity[s])
    <3> SUFFICES ASSUME NEW s \in Requests, Holds(s), entity[s].id = id
                 PROVE  SameOwner(new, entity[s])
      BY <2>1
    <3>1. id <= lastId
      BY DEF RInv, IdsKeepOwner
    <3>2. old # Null
      BY <1>3, <3>1
    <3> QED BY <1>4, <3>2 DEF RInv, IdsKeepOwner, SameOwner
  <2>3. \A s \in Requests : Holds(s)' => entity[s].id <= lastId'
    <3> SUFFICES ASSUME NEW s \in Requests, Holds(s)
                 PROVE  entity[s].id <= lastId'
      BY <2>1
    <3>1. entity[s].id \in Nat /\ entity[s].id <= lastId
      BY <1>3 DEF Holds, AnyRow, RInv, IdsKeepOwner
    <3> QED BY <1>3, <1>5, <3>1
  <2> QED BY <1>1, <2>1, <2>2, <2>3 DEF RInv, IdsKeepOwner, SameOwner
<1> QED BY <1>7, <1>9, <1>11, <1>12, <1>13, <1>14 DEF RInv

\* delete: takes away the row that was found, which is nobody else's.
LEMMA RemoveStep ==
  ASSUME RInv, NEW r \in Requests, RemoveRating(r)
  PROVE  RInv'
<1> DEFINE old == entity[r]
<1>1. /\ pc[r] = "remove"
      /\ rows' = {row \in rows : row.id # old.id}
      /\ entity' = [entity EXCEPT ![r] = Null]
      /\ pc' = [pc EXCEPT ![r] = "recompute"]
      /\ UNCHANGED <<job, lastId>>
  BY DEF RemoveRating
<1>2. Holds(r)
  BY <1>1 DEF RInv, RightStep, Holds
<1>3. RatingTypes'
  BY <1>1 DEF RInv, RatingTypes, Steps
<1>4. UniqueIds' /\ OneRatingPerUser'
  BY <1>1 DEF RInv, UniqueIds, OneRatingPerUser
<1>5. OneUnanswered' /\ RightStep'
  BY <1>1 DEF RInv, RatingTypes, OneUnanswered, Unanswered, RightStep
<1>6. FoundStillTrue'
  <2>1. \A x \in (rows \ rows') \cup (rows' \ rows) : x.user = job[r].user
    BY <1>1, <1>2 DEF RInv, IdsKeepOwner, SameOwner
  <2> QED BY <1>1, <2>1, OthersKeepFindings
<1>7. IdsKeepOwner'
  <2>1. \A s \in Requests : Holds(s)' =>
          Holds(s) /\ job'[s] = job[s] /\ entity'[s] = entity[s]
    BY <1>1 DEF RInv, RatingTypes, Holds
  <2> QED BY <1>1, <2>1 DEF RInv, IdsKeepOwner, SameOwner
<1> QED BY <1>3, <1>4, <1>5, <1>6, <1>7 DEF RInv

\* The recomputation and the removal of a game touch no rating row.
LEMMA OtherSteps ==
  ASSUME RInv,
         \/ \E r \in Requests : Recompute(r) \/ StoreAverage(r)
         \/ \E g \in Games : DeleteGame(g)
         \/ UNCHANGED vars
  PROVE  RInv'
<1>1. /\ UNCHANGED <<rows, lastId, entity>>
      /\ \/ UNCHANGED <<pc, job>>
         \/ \E r \in Requests : /\ pc[r] = "recompute" /\ job' = job
                               /\ pc' = [pc EXCEPT ![r] = "store"]
         \/ \E r \in Requests : /\ job' = [job EXCEPT ![r] = Null]
                               /\ pc' = [pc EXCEPT ![r] = "idle"]
  BY DEF Recompute, StoreAverage, DeleteGame, vars
<1>2. RatingTypes'
  BY <1>1 DEF RInv, RatingTypes, Steps
<1>3. UniqueIds' /\ OneRatingPerUser'
  BY <1>1 DEF RInv, UniqueIds, OneRatingPerUser
<1>4. OneUnanswered' /\ RightStep'
  BY <1>1 DEF RInv, RatingTypes, OneUnanswered, Unanswered, RightStep
<1>5. \A s \in Requests : pc'[s] \in {"save", "remove"} =>
        pc[s] = pc'[s] /\ job'[s] = job[s]
  BY <1>1 DEF RInv, RatingTypes
<1>6. FoundStillTrue'
  BY <1>1, <1>5 DEF RInv, FoundStillTrue, RowsBy, RowsOf
<1>7. IdsKeepOwner'
  BY <1>1, <1>5 DEF RInv, IdsKeepOwner, Holds, SameOwner
<1> QED BY <1>2, <1>3, <1>4, <1>6, <1>7 DEF RInv

\* Every step keeps the invariant.
LEMMA NextRInv == RInv /\ [Next]_vars => RInv'
<1> SUFFICES ASSUME RInv, [Next]_vars PROVE RInv'
  OBVIOUS
<1>1. ASSUME NEW r \in Requests, NEW g \in Games, NEW u \in Users,
             NEW v \in Values, BeginUpdate(r, g, u, v)
      PROVE  RInv'
  <2>1. [op |-> "update", game |-> g, user |-> u, value |-> v] \in Jobs
    BY DEF Jobs
  <2> QED BY <1>1, <2>1, BeginStep DEF BeginUpdate
<1>2. ASSUME NEW r \in Requests, NEW g \in Games, NEW u \in Users,
             BeginDelete(r, g, u)
      PROVE  RInv'
  <2>1. [op |-> "delete", game |-> g, user |-> u, value |-> Null] \in Jobs
    BY DEF Jobs
  <2> QED BY <1>2, <2>1, BeginStep DEF BeginDelete
<1>3. ASSUME NEW r \in Requests, Step(r) PROVE RInv'
  BY <1>3, FindStep, SaveStep, RemoveStep, OtherSteps DEF Step
<1>4. ASSUME NEW g \in Games, DeleteGame(g) PROVE RInv'
  BY <1>4, OtherSteps
<1>5. CASE UNCHANGED vars
  BY <1>5, OtherSteps
<1> QED BY <1>1, <1>2, <1>3, <1>4, <1>5 DEF Next

\* Users who wait for their answers have one rating per game, although the
\* table has no unique index, and none of their requests acts on an outdated
\* finding; what impatient users do cannot change that.
THEOREM OneRatingEach == Spec => [](OneRatingPerUser /\ FoundStillTrue)
<1>1. RInv => OneRatingPerUser /\ FoundStillTrue
  BY DEF RInv
<1> QED BY <1>1, InitRInv, NextRInv, PTL DEF Spec

-----------------------------------------------------------------------------
\* Two requests for a game are known to have raced, and without a race nothing
\* but a write of its ratings parts the average from them, until it is stored.
RacesKnown ==
  \A r, s \in Requests :
    pc[r] # "idle" /\ pc[s] # "idle" /\ job[r].game = job[s].game
      /\ job[r].game \notin raced => r = s

AverageKept ==
  \A g \in games \ raced :
    /\ (\A r \in Requests : pc[r] \in {"recompute", "store"} => job[r].game # g)
         => rating[g] = FloorMean(RowsOf(g))
    /\ \A r \in Requests : pc[r] = "store" /\ job[r].game = g =>
         average[r] = FloorMean(RowsOf(g))

AInv ==
  /\ games \subseteq Games
  /\ rating = [g \in Games |-> rating[g]]
  /\ average = [r \in Requests |-> average[r]]
  /\ RacesKnown
  /\ AverageKept

LEMMA InitAInv == Init => AInv
<1> SUFFICES ASSUME Init PROVE AInv
  OBVIOUS
<1>1. FloorMean({}) = Null
  BY DEF FloorMean
<1>2. \A g : RowsOf(g) = {}
  BY DEF Init, RowsOf
<1>3. AverageKept
  BY <1>1, <1>2 DEF Init, AverageKept
<1>4. RacesKnown
  BY DEF Init, RacesKnown
<1> QED BY <1>3, <1>4 DEF Init, AInv

\* A step of a request that writes no rating of another game.
LEMMA StepKeepsAverages ==
  ASSUME RInv, RInv', AInv, NEW r \in Requests, Step(r)
  PROVE  AInv'
<1>1. /\ pc \in [Requests -> Steps] /\ job \in [Requests -> Jobs \cup {Null}]
      /\ UNCHANGED <<games, raced>> /\ pc[r] # "idle"
      /\ \A s \in Requests : s # r => pc'[s] = pc[s] /\ job'[s] = job[s] /\ average'[s] = average[s]
      /\ pc'[r] # "idle" => job'[r] = job[r]
  BY DEF Step, FindRating, SaveRating, RemoveRating, Recompute, StoreAverage, RInv,
         RatingTypes, AInv
<1>2. games' \subseteq Games /\ rating' = [g \in Games |-> rating'[g]]
      /\ average' = [q \in Requests |-> average'[q]]
  BY DEF Step, FindRating, SaveRating, RemoveRating, Recompute, StoreAverage, AInv
<1>3. RacesKnown'
  BY <1>1 DEF AInv, RacesKnown
<1>4. ASSUME NEW g \in games \ raced, g # job[r].game
      PROVE  RowsOf(g)' = RowsOf(g) /\ rating'[g] = rating[g]
  <2>1. CASE SaveRating(r)
    <3>1. CASE entity[r] = Null
      <4>1. \A row \in rows : row.id # lastId + 1
        BY DEF RInv, RatingTypes, UniqueIds, AnyRow
      <4>2. rows' = rows \cup {[id |-> lastId + 1, game |-> job[r].game,
                                user |-> job[r].user, value |-> job[r].value]}
        BY <2>1, <3>1, <4>1 DEF SaveRating
      <4> QED BY <1>4, <2>1, <4>2 DEF SaveRating, RowsOf
    <3>2. CASE entity[r] # Null
      <4>1. \A row \in rows : row.id = entity[r].id => row.game = job[r].game
        BY <2>1, <3>2 DEF SaveRating, RInv, IdsKeepOwner, Holds, SameOwner
      <4>2. rows' = {row \in rows : row.id # entity[r].id} \cup
                      {[id |-> entity[r].id, game |-> job[r].game,
                        user |-> job[r].user, value |-> job[r].value]}
        BY <2>1, <3>2 DEF SaveRating
      <4> QED BY <1>4, <2>1, <4>1, <4>2 DEF SaveRating, RowsOf
    <3> QED BY <3>1, <3>2
  <2>2. CASE RemoveRating(r)
    <3>1. \A row \in rows : row.id = entity[r].id => row.game = job[r].game
      BY <2>2 DEF RemoveRating, RInv, RightStep, IdsKeepOwner, Holds, SameOwner
    <3> QED BY <1>4, <2>2, <3>1 DEF RemoveRating, RowsOf
  <2>3. CASE StoreAverage(r)
    BY <1>4, <2>3 DEF StoreAverage, RowsOf, AInv
  <2> QED BY <2>1, <2>2, <2>3 DEF Step, FindRating, Recompute, RowsOf
<1>5. ASSUME NEW g \in games \ raced, g # job[r].game
      PROVE  /\ (\A s \in Requests : pc'[s] \in {"recompute", "store"} => job'[s].game # g)
                  => rating'[g] = FloorMean(RowsOf(g)')
             /\ \A s \in Requests : pc'[s] = "store" /\ job'[s].game = g =>
                  average'[s] = FloorMean(RowsOf(g)')
  <2>1. PICK m : m = FloorMean(RowsOf(g))
    OBVIOUS
  <2>2. m = FloorMean(RowsOf(g)') /\ rating'[g] = rating[g]
    BY <1>4, <1>5, <2>1
  <2>3. /\ (\A s \in Requests : pc[s] \in {"recompute", "store"} => job[s].game # g)
             => rating[g] = m
        /\ \A s \in Requests : pc[s] = "store" /\ job[s].game = g => average[s] = m
    BY <1>5, <2>1 DEF AInv, AverageKept
  <2>4. /\ (\A s \in Requests : pc'[s] \in {"recompute", "store"} => job'[s].game # g)
             => rating'[g] = m
        /\ \A s \in Requests : pc'[s] = "store" /\ job'[s].game = g => average'[s] = m
    BY <1>1, <1>5, <2>2, <2>3
  <2> QED BY <2>2, <2>4
<1>6. ASSUME NEW g \in games \ raced, g = job[r].game
      PROVE  /\ (\A s \in Requests : pc'[s] \in {"recompute", "store"} => job'[s].game # g)
                  => rating'[g] = FloorMean(RowsOf(g)')
             /\ \A s \in Requests : pc'[s] = "store" /\ job'[s].game = g =>
                  average'[s] = FloorMean(RowsOf(g)')
  <2>1. \A s \in Requests : s # r => pc[s] = "idle" \/ job[s].game # g
    BY <1>1, <1>6 DEF AInv, RacesKnown
  <2>2. \A s \in Requests : s # r => pc'[s] = "idle" \/ job'[s].game # g
    BY <1>1, <2>1
  <2>3. PICK m : m = FloorMean(RowsOf(g))
    OBVIOUS
  <2>4. /\ pc[r] \notin {"recompute", "store"} => rating[g] = m
        /\ pc[r] = "store" => average[r] = m
    BY <1>6, <2>1, <2>3 DEF AInv, AverageKept
  <2>5. CASE FindRating(r)
    <3>1. RowsOf(g)' = RowsOf(g) /\ rating'[g] = rating[g] /\ pc[r] = "find"
          /\ pc'[r] \in {"save", "remove", "idle"}
      BY <1>1, <2>5 DEF FindRating, RowsOf
    <3> QED BY <2>2, <2>3, <2>4, <3>1
  <2>6. CASE SaveRating(r) \/ RemoveRating(r)
    <3>1. pc'[r] = "recompute" /\ job'[r] = job[r]
      BY <1>1, <2>6 DEF SaveRating, RemoveRating
    <3> QED BY <1>6, <2>2, <3>1
  <2>7. CASE Recompute(r)
    <3>1. /\ pc'[r] = "store" /\ job'[r] = job[r] /\ average'[r] = m /\ RowsOf(g)' = RowsOf(g)
      BY <1>1, <1>6, <2>3, <2>7 DEF Recompute, RowsOf, AInv
    <3> QED BY <1>6, <2>2, <2>3, <3>1
  <2>8. CASE StoreAverage(r)
    <3>1. /\ pc'[r] = "idle" /\ rating'[g] = m /\ RowsOf(g)' = RowsOf(g)
      BY <1>1, <1>6, <2>4, <2>8 DEF StoreAverage, RowsOf, AInv
    <3> QED BY <2>2, <2>3, <3>1
  <2> QED BY <2>5, <2>6, <2>7, <2>8 DEF Step
<1>7. AverageKept'
  BY <1>1, <1>5, <1>6 DEF AverageKept
<1> QED BY <1>2, <1>3, <1>7 DEF AInv

LEMMA BeginKeepsAverages ==
  ASSUME RInv, AInv, NEW r \in Requests, NEW j \in Jobs, Begin(r, j)
  PROVE  AInv'
<1>1. /\ pc[r] = "idle" /\ pc' = [pc EXCEPT ![r] = "find"] /\ job' = [job EXCEPT ![r] = j]
      /\ raced' = raced \cup {g \in {j.game} :
                     \E s \in Requests : pc[s] # "idle" /\ job[s].game = g}
      /\ UNCHANGED <<games, rating, rows, average>>
  BY DEF Begin
<1>2. pc \in [Requests -> Steps] /\ job \in [Requests -> Jobs \cup {Null}]
  BY DEF RInv, RatingTypes
<1>3. RacesKnown'
  <2>1. SUFFICES ASSUME NEW p \in Requests, NEW q \in Requests,
                        pc'[p] # "idle", pc'[q] # "idle", job'[p].game = job'[q].game,
                        job'[p].game \notin raced', p # q
                 PROVE  FALSE
    BY DEF RacesKnown
  <2>2. CASE p # r /\ q # r
    BY <1>1, <1>2, <2>1, <2>2 DEF AInv, RacesKnown
  <2>3. CASE p = r
    BY <1>1, <1>2, <2>1, <2>3
  <2>4. CASE q = r
    BY <1>1, <1>2, <2>1, <2>4
  <2> QED BY <2>2, <2>3, <2>4
<1>4. AverageKept'
  <2>1. SUFFICES ASSUME NEW g \in games \ raced
                 PROVE  /\ (\A s \in Requests : pc'[s] \in {"recompute", "store"} => job'[s].game # g)
                             => rating[g] = FloorMean(RowsOf(g))
                        /\ \A s \in Requests : pc'[s] = "store" /\ job'[s].game = g =>
                             average[s] = FloorMean(RowsOf(g))
    BY <1>1 DEF AverageKept, RowsOf
  <2>2. PICK m : m = FloorMean(RowsOf(g))
    OBVIOUS
  <2>3. \A s \in Requests : pc'[s] \in {"recompute", "store"} <=> pc[s] \in {"recompute", "store"}
    BY <1>1, <1>2
  <2>4. \A s \in Requests : pc[s] \in {"recompute", "store"} => job'[s] = job[s] /\ pc'[s] = pc[s]
    BY <1>1, <1>2
  <2>5. /\ (\A s \in Requests : pc[s] \in {"recompute", "store"} => job[s].game # g)
             => rating[g] = m
        /\ \A s \in Requests : pc[s] = "store" /\ job[s].game = g => average[s] = m
    BY <2>1, <2>2 DEF AInv, AverageKept
  <2> QED BY <2>2, <2>3, <2>4, <2>5
<1> QED BY <1>1, <1>3, <1>4 DEF AInv

LEMMA NextAInv == RInv /\ RInv' /\ AInv /\ [Next]_vars => AInv'
<1> SUFFICES ASSUME RInv, RInv', AInv, [Next]_vars PROVE AInv'
  OBVIOUS
<1>1. ASSUME NEW r \in Requests, NEW g \in Games, NEW u \in Users, NEW v \in Values,
             BeginUpdate(r, g, u, v)
      PROVE  AInv'
  <2>1. [op |-> "update", game |-> g, user |-> u, value |-> v] \in Jobs
    BY DEF Jobs
  <2> QED BY <1>1, <2>1, BeginKeepsAverages DEF BeginUpdate
<1>2. ASSUME NEW r \in Requests, NEW g \in Games, NEW u \in Users, BeginDelete(r, g, u)
      PROVE  AInv'
  <2>1. [op |-> "delete", game |-> g, user |-> u, value |-> Null] \in Jobs
    BY DEF Jobs
  <2> QED BY <1>2, <2>1, BeginKeepsAverages DEF BeginDelete
<1>3. ASSUME NEW r \in Requests, Step(r) PROVE AInv'
  BY <1>3, StepKeepsAverages
<1>4. ASSUME NEW g \in Games, DeleteGame(g) PROVE AInv'
  <2>1. games' \subseteq games /\ UNCHANGED <<rating, rows, pc, job, average, raced>>
    BY <1>4 DEF DeleteGame
  <2>2. \A h : RowsOf(h)' = RowsOf(h)
    BY <2>1 DEF RowsOf
  <2>3. RacesKnown'
    BY <2>1 DEF AInv, RacesKnown
  <2>4. AverageKept'
    <3> SUFFICES ASSUME NEW h \in games' \ raced
                 PROVE  /\ (\A r \in Requests : pc[r] \in {"recompute", "store"} => job[r].game # h)
                              => rating[h] = FloorMean(RowsOf(h))
                        /\ \A r \in Requests : pc[r] = "store" /\ job[r].game = h =>
                             average[r] = FloorMean(RowsOf(h))
      BY <2>1, <2>2 DEF AverageKept
    <3>1. h \in games \ raced
      BY <2>1
    <3> QED BY <3>1 DEF AInv, AverageKept
  <2> QED BY <2>1, <2>3, <2>4 DEF AInv
<1>5. CASE UNCHANGED vars
  BY <1>5 DEF vars, AInv, RacesKnown, AverageKept, RowsOf
<1> QED BY <1>1, <1>2, <1>3, <1>4, <1>5 DEF Next

\* No request of a user who waits for answers acts on an outdated finding.
THEOREM FindingsHold == Spec => []FoundStillTrue
<1>1. OneRatingPerUser /\ FoundStillTrue => FoundStillTrue
  OBVIOUS
<1> QED BY <1>1, OneRatingEach, PTL

\* The average of a game on which no requests overlapped is that of its ratings
\* once no request for it is under way, although nobody waits for it.
THEOREM AveragesUndisturbed == Spec => []UndisturbedAverage
<1>1. AInv => UndisturbedAverage
  <2> SUFFICES ASSUME AInv, NEW g \in games \ raced,
                      \A r \in Requests : pc[r] # "idle" => job[r].game # g
               PROVE  rating[g] = FloorMean(RowsOf(g))
    BY DEF UndisturbedAverage
  <2>1. \A r \in Requests : pc[r] \in {"recompute", "store"} => job[r].game # g
    OBVIOUS
  <2> QED BY <2>1 DEF AInv, AverageKept
<1> QED BY <1>1, InitRInv, NextRInv, InitAInv, NextAInv, PTL DEF Spec
=============================================================================
