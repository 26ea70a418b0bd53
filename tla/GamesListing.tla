----------------------------- MODULE GamesListing -----------------------------
(***************************************************************************)
(* GET /game-projects: which games are listed for whom, in which order, and *)
(* the links from page to page.  A client asks for a page and follows the   *)
(* links 'next' to the last one, while games are created, saved and         *)
(* deleted.                                                                 *)
(*                                                                          *)
(* The filters by paymentMode, kind, genre, ... compare a column like the   *)
(* filter by username and are left out, as are the sort keys rating and     *)
(* createdAt.  nestjs-paginate is external: offset, limit and an order by   *)
(* one column.                                                              *)
(***************************************************************************)
EXTENDS FiniteSets, Functions, Integers, Sequences

CONSTANTS Games,    \* ids, in the order of their creation
          Usernames, Tags,
          Absent,   \* no row, username or viewer
          Joined,   \* two tags in one string, which is no name of a tag
          Limit,    \* games per page
          MaxTime   \* bound: saves of games

ASSUME GamesInOrder == Games \subseteq Nat \ {0} /\ Absent \notin Usernames
ASSUME NewTag       == Joined \notin Tags
ASSUME PageSize     == Limit \in Nat \ {0} /\ MaxTime \in Nat

VARIABLES
  rows,      \* game -> its row
  lastId,    \* the id that was given last
  clock,     \* saves so far
  walk,      \* the client: what it asks for and what it was shown
  \* history since the first page
  steady,    \* games that were listed all the time
  disturbed  \* was a game deleted, or moved in the order or out of the list?

listing == <<rows, lastId, clock, walk, steady, disturbed>>

Access  == {"PUBLIC", "PRIVATE"}
Queries == [viewer : Usernames \cup {Absent}, username : Usernames \cup {Absent},
            tags : UNION {[1 .. n -> Tags \cup {Joined}] : n \in 0 .. 2},
            sortBy : {"updatedAt", "id"}, order : {"ASC", "DESC"}]

Exists == {g \in Games : rows[g] # Absent}

ListingTypeOK ==
  /\ rows \in [Games ->
       [username : Usernames, accessType : Access, tags : SUBSET Tags,
        updatedAt : 1 .. MaxTime] \cup {Absent}]
  /\ lastId \in Games \cup {0} /\ clock \in 0 .. MaxTime
  /\ walk \in [asked : Queries, query : Queries, page : Nat, next : BOOLEAN,
               shown : Seq(Games)]
  /\ steady \subseteq Games /\ disturbed \in BOOLEAN

-----------------------------------------------------------------------------
(* GamesBaseService.paginateGameProjects *)

\* The games that a viewer is listed.  The two conditions on the username share the
\* parameter :username, which the filter sets last: with a filter a viewer who is
\* signed in is listed the private games of the user that the filter names.
Accessible(q, row) ==
  \/ row.accessType = "PUBLIC"
  \/ /\ q.viewer # Absent
     /\ row.username = IF q.username # Absent THEN q.username ELSE q.viewer

ByUsername(q, row) == q.username # Absent => row.username = q.username

\* One condition per tag, which share the parameter :tag: the last one counts.
ByTags(q, row) == q.tags # <<>> => q.tags[Len(q.tags)] \in row.tags

Listed(q) ==
  {g \in Exists : /\ Accessible(q, rows[g])
                  /\ ByUsername(q, rows[g]) /\ ByTags(q, rows[g])}

Key(q, g) == IF q.sortBy = "id" THEN g ELSE rows[g].updatedAt
Before(q, g, h) ==
  IF q.order = "ASC" THEN Key(q, g) < Key(q, h) ELSE Key(q, g) > Key(q, h)

\* How many of the games come before g.
Rank(q, games, g) == Cardinality({h \in games : Before(q, h, g)})

Sorted(q, games) ==
  [i \in 1 .. Cardinality(games) |-> CHOOSE g \in games : Rank(q, games, g) = i - 1]

\* paginate: a page of the games, and whether others are left.  SubSeq ends where
\* the games end.
Page(q, p) ==
  LET all == Sorted(q, Listed(q))
      end == p * Limit
  IN [data |-> SubSeq(all, (p - 1) * Limit + 1,
                      IF end < Len(all) THEN end ELSE Len(all)),
      more |-> end < Len(all)]

\* (Mutant: the filter by tags is left out of the links.)
AppendParamsFew(q) == [q EXCEPT !.tags = <<>>]

\* appendParams: the query behind a link.  sortBy is set to the column without
\* the order, which is appended like the filters; several tags, an array,
\* become one string.
AppendParams(q) ==
  [q EXCEPT !.tags = IF Len(@) <= 1 THEN @ ELSE <<Joined>>]

-----------------------------------------------------------------------------
(* The client. *)

Fetch(asked, q, p, shown) ==
  LET page == Page(q, p)
  IN walk' = [asked |-> asked, query |-> AppendParams(q), page |-> p,
              next |-> page.more, shown |-> shown \o page.data]

NoQuery == [viewer |-> Absent, username |-> Absent, tags |-> <<>>,
            sortBy |-> "updatedAt", order |-> "ASC"]
NoWalk  == [asked |-> NoQuery, query |-> NoQuery, page |-> 0, next |-> FALSE,
            shown |-> <<>>]

ListingInit ==
  /\ rows = [g \in Games |-> Absent]
  /\ lastId = 0 /\ clock = 0
  /\ walk = NoWalk
  /\ steady = {} /\ disturbed = FALSE

\* The first page; sortBy and order have defaults.
FirstPage(q) ==
  /\ walk = NoWalk
  /\ Fetch(q, q, 1, <<>>)
  /\ steady' = Listed(q) /\ disturbed' = FALSE
  /\ UNCHANGED <<rows, lastId, clock>>

NextPage ==
  /\ walk.next
  /\ Fetch(walk.asked, walk.query, walk.page + 1, walk.shown)
  /\ UNCHANGED <<rows, lastId, clock, steady, disturbed>>

Leave ==
  /\ walk.page > 0
  /\ walk' = NoWalk /\ steady' = {} /\ disturbed' = FALSE
  /\ UNCHANGED <<rows, lastId, clock>>

-----------------------------------------------------------------------------
(* Other requests. *)

\* A change of a game, and whether it moves one that the client walks through.
Change(g, row) ==
  LET q       == walk.asked
      was     == g \in Listed(q)
      is      == g \in Listed(q)'
      walking == walk.page > 0 /\ g \in Exists
  IN /\ UNCHANGED walk
     /\ rows' = [rows EXCEPT ![g] = row]
     /\ steady' = IF is THEN steady ELSE steady \ {g}
     /\ disturbed' = (disturbed \/ (walking /\ (was # is \/ q.sortBy = "updatedAt")))

Row(u, access, tags) ==
  [username |-> u, accessType |-> access, tags |-> tags, updatedAt |-> clock + 1]

\* Ids and times grow.
Create(g, u, access, tags) ==
  /\ clock < MaxTime
  /\ g > lastId
  /\ lastId' = g
  /\ clock' = clock + 1
  /\ Change(g, Row(u, access, tags))

Save(g, access, tags) ==
  /\ g \in Exists /\ clock < MaxTime
  /\ clock' = clock + 1 /\ UNCHANGED lastId
  /\ Change(g, Row(rows[g].username, access, tags))

Delete(g) ==
  /\ g \in Exists
  /\ Change(g, Absent)
  /\ UNCHANGED <<lastId, clock>>

ListingNext ==
  \/ \E v, u \in Usernames \cup {Absent},
        tags \in UNION {[1 .. n -> Tags] : n \in 0 .. 2},
        sortBy \in {"updatedAt", "id"}, order \in {"ASC", "DESC"} :
       FirstPage([viewer |-> v, username |-> u, tags |-> tags,
                  sortBy |-> sortBy, order |-> order])
  \/ NextPage \/ Leave
  \/ \E g \in Games, access \in Access, tags \in SUBSET Tags :
       \/ \E u \in Usernames : Create(g, u, access, tags)
       \/ Save(g, access, tags)
  \/ \E g \in Games : Delete(g)

ListingSpec == ListingInit /\ [][ListingNext]_listing

-----------------------------------------------------------------------------
\* A client at the last page was shown every game that was listed all the time,
\* and none of them before one that the order puts first, unless a game it walks
\* through was deleted or moved.  Games that are created meanwhile come last and
\* are shown there, nothing twice; or they come first and push others to the next
\* page, where these are shown again but none is missed.
WalkComplete ==
  walk.page > 0 /\ ~walk.next /\ ~disturbed /\ Len(walk.asked.tags) <= 1 =>
    /\ steady \subseteq Range(walk.shown)
    /\ \A j \in DOMAIN walk.shown : \A g \in steady :
         Before(walk.asked, g, walk.shown[j]) =>
           \E i \in 1 .. j - 1 : walk.shown[i] = g
    /\ walk.asked.order = "ASC" =>
         \A i, j \in DOMAIN walk.shown :
           i < j => Before(walk.asked, walk.shown[i], walk.shown[j])

=============================================================================
