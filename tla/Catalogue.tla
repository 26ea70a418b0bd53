------------------------------ MODULE Catalogue ------------------------------
(***************************************************************************)
(* What GamesLogicService saves with a game: the payment mode and donation  *)
(* address, its tags and its prices, with the services they go through      *)
(* (TagsService, PricesService, TokensService, Web3Provider), and the        *)
(* endpoints for a single tag or token.  Archives and folders are in        *)
(* GameProjects.                                                            *)
(*                                                                          *)
(* One game; one process per request, one step per database statement that  *)
(* concerns these tables.  repository.save selects the row with its         *)
(* relations, and then writes in a transaction what differs from what it    *)
(* saw.  Every chain has one token.                                         *)
(***************************************************************************)
EXTENDS FiniteSets, Integers, Sequences

CONSTANTS Addresses,  \* Ethereum addresses
          Tags,       \* names of tags
          Chains,     \* chain ids in prices
          SupportedChainIds, \* the setting blockchain.supportedChainIds
          Dtos,       \* what clients send
          Requests,   \* request processes, reused
          None,       \* no row yet, or undefined
          Gone,       \* the game was deleted
          MaxRows,    \* bound: rows ever inserted into a table
          MaxSends    \* bound: requests that are let through

Modes == {"FREE", "PAID", "DISABLE_PAYMENTS"}

\* Empty values, an address, or a string that is no address.
Empty  == {"null", ""}
Stored == Empty \cup Addresses
Given  == Stored \cup {"absent", "invalid"}

UpTo2(S) == UNION {[1 .. n -> S] : n \in 0 .. 2}

\* An absent field of the dto is "absent" or None.
Dto == [mode : Modes \cup {"absent"}, donation : Given,
        tags : UpTo2(Tags) \cup {None}, prices : UpTo2(Chains) \cup {None}]

ASSUME NewNames  == Addresses \cap {"absent", "invalid"} = {}
ASSUME KnownDtos == Dtos \subseteq Dto /\ Chains \cup SupportedChainIds \subseteq Nat
ASSUME RowBound  == MaxRows \in Nat /\ MaxSends \in Nat

VARIABLES
  row,      \* the game's paymentMode, donationAddress and tags
  tagRows,  \* rows of tags
  tokens,   \* chain -> how many rows its token has
  prices,   \* rows of prices
  lastPrice, \* the id that was given last
  handler,  \* request -> its next statement and its locals
  sends,    \* requests so far
  \* history
  dirty,      \* did a request that overlapped another one write last?
  doubled,    \* tags and tokens that two tasks asked for at once, or put again
  sold,       \* the prices of the last write that gave any
  soldTwice   \* did that write's request overlap another one?

tables  == <<tagRows, tokens, prices, lastPrice>>
history == <<dirty, doubled, sold, soldTwice>>
vars    == <<row, tables, handler, sends, history>>

Ids      == 1 .. MaxRows
Row      == [mode : Modes, donation : Stored, tags : SUBSET Ids]
TagRow   == [id : Ids, name : Tags]
PriceRow == [id : Ids, chain : Chains, ofGame : BOOLEAN]

ASSUME NoneIsFresh == None \notin Row \cup {Gone} /\ Gone \notin Row

\* dto: with the mode completed and the address fixed; found: the ids of its
\* tags, which are taken from it; tasks: one per price; made: the prices saved;
\* unlink and unsell: the tags and prices of the game that save saw and is to
\* take from it; overlapped is history.
Idle == [step |-> "idle", creates |-> FALSE, overlapped |-> FALSE,
         asked |-> "absent", dto |-> None, found |-> {},
         tasks |-> <<>>, made |-> {}, unlink |-> {}, unsell |-> {}]

\* Requests under way, those for the game among them.
Busy     == {r \in Requests : handler[r].step # "idle"}
Changing == {r \in Busy : handler[r].step # "patch"}

\* A dto of which some tags are left, at their places.
SomeOf2(S) == UNION {[D -> S] : D \in SUBSET {1, 2}}
Pending == [mode : Modes \cup {"absent"}, donation : Given,
            tags : SomeOf2(Tags) \cup {None}, prices : UpTo2(Chains) \cup {None}]

Locals ==
  [step : {"idle", "find", "tags", "prices", "select", "write", "patch"},
   creates : BOOLEAN, overlapped : BOOLEAN, asked : Modes \cup {"absent"},
   dto : Pending \cup {None}, found : SUBSET Ids,
   tasks : UpTo2({"find", "fetch", "save", "done", "failed"}),
   made : SUBSET Ids, unlink : SUBSET Ids, unsell : SUBSET Ids]

TypeOK ==
  /\ row \in Row \cup {None, Gone}
  /\ lastPrice \in 0 .. MaxRows
  /\ tagRows \subseteq TagRow /\ prices \subseteq PriceRow
  /\ sends \in 0 .. MaxSends
  /\ tokens \in [Chains -> 0 .. MaxRows]
  /\ handler \in [Requests -> Locals]
  /\ dirty \in BOOLEAN
  /\ doubled \subseteq Tags \cup Chains
  /\ sold \in UpTo2(Chains) /\ soldTwice \in BOOLEAN

Init ==
  /\ row = None
  /\ tagRows = {} /\ tokens = [c \in Chains |-> 0] /\ prices = {} /\ lastPrice = 0
  /\ handler = [r \in Requests |-> Idle]
  /\ sends = 0
  /\ dirty = FALSE /\ doubled = {}
  /\ sold = <<>> /\ soldTwice = FALSE

-----------------------------------------------------------------------------
\* The tags or prices of a dto, as a sequence.
Given2(field) == IF field = None THEN <<>> ELSE field
Keys(dto) == {Given2(dto.tags)[i] : i \in DOMAIN Given2(dto.tags)} \cup
             {Given2(dto.prices)[i] : i \in DOMAIN Given2(dto.prices)}
Twice(s)  == {s[i] : i \in {j \in DOMAIN s : \E k \in DOMAIN s : k # j /\ s[k] = s[j]}}

At(r, step) == handler[r].step = step
Return(r)   == handler' = [handler EXCEPT ![r] = Idle]

\* verifyOwner refuses a request for a game that is not there or another user's.
Refuse(r) == At(r, "idle") /\ UNCHANGED vars

Arrive(r) == At(r, "idle") /\ sends < MaxSends /\ sends' = sends + 1

\* History: tags and tokens that this dto names twice, or another request names.
Doubles(dto) ==
  Twice(Given2(dto.tags)) \cup Twice(Given2(dto.prices))
    \cup {k \in Keys(dto) : \E q \in Busy : k \in Keys(handler[q].dto)}

\* A request for the game arrives: a POST gives the mode and the tags.
Send(r, dto) ==
  /\ Arrive(r) /\ row # Gone
  /\ row = None => dto.mode # "absent" /\ dto.tags # None
  /\ LET new == [Idle EXCEPT !.step = "find", !.asked = dto.mode, !.dto = dto,
                              !.creates = row = None, !.overlapped = Changing # {}]
     IN handler' = [q \in Requests |->
                      IF q = r THEN new
                      ELSE [handler[q] EXCEPT !.overlapped = @ \/ q \in Changing]]
  /\ doubled' = doubled \cup Doubles(dto)
  /\ UNCHANGED <<row, tables, dirty, sold, soldTwice>>

-----------------------------------------------------------------------------
(* The payment columns. *)

IsEmptyOrAddress(donation) == donation \in Stored \cup {"absent"}

\* validateAndFixDonationAddress throws.
Throws(mode, donation) == mode = "FREE" /\ ~IsEmptyOrAddress(donation)

\* (Mutant: disabling payments leaves the address of the dto.)
FixKeeps(mode, donation) ==
  IF IsEmptyOrAddress(donation) THEN donation ELSE "absent"

\* validateAndFixDonationAddress: what it leaves in the dto otherwise.
Fix(mode, donation) ==
  CASE mode = "DISABLE_PAYMENTS" -> "null"
    [] mode \in {"FREE", "PAID"} /\ IsEmptyOrAddress(donation) -> donation
    [] OTHER -> "absent"

\* The dto is validated with a mode and passed on, or refused.
Validate(r, mode) ==
  LET dto == handler[r].dto
  IN \/ Throws(mode, dto.donation) /\ Return(r)
     \/ /\ ~Throws(mode, dto.donation)
        /\ handler' = [handler EXCEPT ![r].step = "tags", ![r].dto.mode = mode,
                         ![r].dto.donation = Fix(mode, dto.donation)]

\* (Mutant: an absent mode is taken for FREE.)
FindDefault(r) ==
  /\ At(r, "find")
  /\ Validate(r, IF handler[r].asked = "absent" THEN "FREE" ELSE handler[r].asked)
  /\ UNCHANGED <<row, tables, sends, history>>

\* createGameProject validates the dto; updateGameProject reads its target, if
\* it is still there, and puts its mode into a dto that has none.
Find(r) ==
  /\ At(r, "find")
  /\ \/ ~handler[r].creates /\ row = Gone /\ Return(r)
     \/ /\ handler[r].creates \/ row # Gone
        /\ Validate(r, IF handler[r].asked = "absent" THEN row.mode
                       ELSE handler[r].asked)
  /\ UNCHANGED <<row, tables, sends, history>>

-----------------------------------------------------------------------------
(* convertTagsAndPricesFromDtoToEntities *)

\* (Mutant: the tags are not looked for.)
FindTagsNone(r) ==
  /\ At(r, "tags")
  /\ handler' = [handler EXCEPT ![r].step = "prices",
       ![r].tasks = [i \in DOMAIN Given2(handler[r].dto.prices) |-> "find"]]
  /\ UNCHANGED <<row, tables, sends, history>>

\* getOrCreateByNames: a row of that name, or a new entity, to be inserted with
\* the game.  Then the prices, all at once.
FindTags(r) ==
  LET h     == handler[r]
      names == {Given2(h.dto.tags)[i] : i \in DOMAIN Given2(h.dto.tags)}
      known == {t.name : t \in tagRows} \cap names
  IN /\ At(r, "tags")
     /\ \E ids \in [known -> Ids] :
          /\ \A n \in known : [id |-> ids[n], name |-> n] \in tagRows
          /\ handler' = [handler EXCEPT ![r].step = "prices",
               ![r].found = {ids[n] : n \in known},
               ![r].tasks = [i \in DOMAIN Given2(h.dto.prices) |-> "find"],
               ![r].dto.tags = IF @ = None THEN None
                               ELSE [i \in {j \in DOMAIN @ : @[j] \notin known} |-> @[i]]]
     /\ UNCHANGED <<row, tables, sends, history>>

Task(r, i, stage)  == At(r, "prices") /\ handler[r].tasks[i] = stage
Becomes(r, i, stage) == handler' = [handler EXCEPT ![r].tasks[i] = stage]
ChainOf(r, i) == handler[r].dto.prices[i]

\* findOneOrCreate
FindToken(r, i) ==
  /\ Task(r, i, "find")
  /\ Becomes(r, i, IF tokens[ChainOf(r, i)] > 0 THEN "save" ELSE "fetch")
  /\ UNCHANGED <<row, tables, sends, history>>

\* The chains there are endpoints for, and those of them that were configured.
Providers        == {1, 3, 4, 5, 10, 42, 56, 97, 137, 42161}
CurrentProviders == Providers \cap SupportedChainIds

\* TokensService.save asks the chain and inserts what it answers ...
SaveToken(r, i) ==
  LET c == ChainOf(r, i)
  IN /\ Task(r, i, "fetch")
     /\ c \in CurrentProviders /\ tokens[c] < MaxRows
     /\ tokens' = [tokens EXCEPT ![c] = @ + 1]
     /\ Becomes(r, i, "save")
     /\ UNCHANGED <<row, tagRows, prices, lastPrice, sends, history>>

\* ... or the chain is not supported, or knows no such token.
RefuseToken(r, i) ==
  /\ Task(r, i, "fetch") /\ Becomes(r, i, "failed")
  /\ UNCHANGED <<row, tables, sends, history>>

\* PricesService.save inserts the price, of no game yet.
SavePrice(r, i) ==
  LET id == lastPrice + 1
  IN /\ Task(r, i, "save") /\ id \in Ids
     /\ lastPrice' = id
     /\ prices' = prices \cup {[id |-> id, chain |-> ChainOf(r, i), ofGame |-> FALSE]}
     /\ handler' = [handler EXCEPT ![r].tasks[i] = "done", ![r].made = @ \cup {id}]
     /\ UNCHANGED <<row, tagRows, tokens, sends, history>>

\* Promise.all: one failure is the failure of the request; the other tasks run
\* to their end behind its answer.
PricesDone(r) ==
  LET stages == {handler[r].tasks[i] : i \in DOMAIN handler[r].tasks}
  IN /\ At(r, "prices") /\ stages \subseteq {"done", "failed"}
     /\ \/ "failed" \in stages /\ Return(r)
        \/ /\ "failed" \notin stages
           /\ handler' = [handler EXCEPT ![r].step =
                            IF handler[r].creates THEN "write" ELSE "select"]
     /\ UNCHANGED <<row, tables, sends, history>>

-----------------------------------------------------------------------------
(* repository.save *)

OfGame == {p.id : p \in {q \in prices : q.ofGame}}

\* The row and its relations are selected, and what the dto leaves as it is is
\* dropped from it.  A row that is gone cannot be inserted from an update.
Select(r) ==
  LET dto == handler[r].dto
      same(given, held) == IF given = held THEN "absent" ELSE given
  IN /\ At(r, "select")
     /\ IF row = Gone THEN Return(r)
        ELSE handler' = [handler EXCEPT
               ![r].step   = "write",
               ![r].dto    = [@ EXCEPT !.mode     = same(dto.mode, row.mode),
                                       !.donation = same(dto.donation, row.donation)],
               ![r].found  = @ \ row.tags,
               ![r].unlink = IF dto.tags = None THEN {} ELSE row.tags \ handler[r].found,
               ![r].unsell = IF dto.prices = None THEN {} ELSE OfGame]
     /\ UNCHANGED <<row, tables, sends, history>>

\* New tags are inserted, each its own row.
InsertTags(names) ==
  LET id(i) == Cardinality(tagRows) + Cardinality({j \in DOMAIN names : j <= i})
  IN {[id |-> id(i), name |-> names[i]] : i \in DOMAIN names}

\* (Mutant: the prices that the game had stay.)
SetPricesKeeping(h) ==
  {[p EXCEPT !.ofGame = @ \/ p.id \in h.made] : p \in prices}

\* The prices given become those of the game, those it had of no game.
SetPrices(h) ==
  {[p EXCEPT !.ofGame = p.id \in h.made \/ (@ /\ p.id \notin h.unsell)] :
     p \in prices}

Wrote(r) ==
  /\ Return(r)
  /\ dirty' = handler[r].overlapped
  /\ IF handler[r].dto.prices # None
     THEN /\ sold' = handler[r].dto.prices
          /\ soldTwice' = handler[r].overlapped
     ELSE UNCHANGED <<sold, soldTwice>>
  /\ UNCHANGED <<tokens, lastPrice, sends, doubled>>

\* INSERT, refused if the name was taken meanwhile (see Fail); an absent address
\* becomes null.
Insert(r) ==
  LET h   == handler[r]
      new == InsertTags(Given2(h.dto.tags))
  IN /\ At(r, "write") /\ h.creates /\ row = None
     /\ {t.id : t \in new} \subseteq Ids
     /\ tagRows' = tagRows \cup new
     /\ row' = [mode |-> h.dto.mode,
                donation |-> IF h.dto.donation = "absent" THEN "null" ELSE h.dto.donation,
                tags |-> h.found \cup {t.id : t \in new}]
     /\ prices' = SetPrices(h)
     /\ Wrote(r)

\* UPDATE of what differs from the row that was seen.  A tag that another
\* request linked meanwhile is a duplicate, see Fail.
Write(r) ==
  LET h   == handler[r]
      new == InsertTags(Given2(h.dto.tags))
      ids == {t.id : t \in new}
  IN /\ At(r, "write") /\ ~h.creates /\ row # Gone
     /\ ids \subseteq Ids /\ h.found \cap row.tags = {}
     /\ tagRows' = tagRows \cup new
     /\ row' = [mode |-> IF h.dto.mode = "absent" THEN row.mode ELSE h.dto.mode,
                donation |-> IF h.dto.donation = "absent" THEN row.donation
                             ELSE h.dto.donation,
                tags |-> (row.tags \ h.unlink) \cup h.found \cup ids]
     /\ prices' = SetPrices(h)
     /\ Wrote(r)

\* A statement fails, and with it the transaction: a name that was taken, a
\* duplicate, a row that is gone; or an insert of a task.
Fail(r) ==
  /\ \/ At(r, "write") /\ Return(r)
     \/ \E i \in DOMAIN handler[r].tasks :
          Task(r, i, "save") /\ Becomes(r, i, "failed")
  /\ UNCHANGED <<row, tables, sends, history>>

\* delete: the prices go with the game, its tags stay.
Delete ==
  /\ row \notin {None, Gone}
  /\ row' = Gone
  /\ prices' = {p \in prices : ~p.ofGame}
  /\ UNCHANGED <<tagRows, tokens, lastPrice, handler, sends, history>>

-----------------------------------------------------------------------------
(* A single tag or token. *)

\* PATCH /tags/:name looks for the tag ...
FindTag(r, name) ==
  LET dto == [mode |-> "absent", donation |-> "absent", tags |-> <<name>>, prices |-> None]
      rows == {t \in tagRows : t.name = name}
  IN /\ Arrive(r)
     /\ \E found \in IF rows = {} THEN {{}} ELSE {{t.id} : t \in rows} :
          handler' = [handler EXCEPT ![r] =
                        [Idle EXCEPT !.step = "patch", !.dto = dto, !.found = found]]
     /\ doubled' = doubled \cup Doubles(dto)
     /\ UNCHANGED <<row, tables, dirty, sold, soldTwice>>

\* ... and saves it with its label and description.
SaveTag(r) ==
  LET h   == handler[r]
      new == IF h.found = {} THEN InsertTags(Given2(h.dto.tags)) ELSE {}
  IN /\ At(r, "patch")
     /\ {t.id : t \in new} \subseteq Ids
     /\ tagRows' = tagRows \cup new
     /\ Return(r)
     /\ UNCHANGED <<row, tokens, prices, lastPrice, sends, history>>

\* PUT /blockchains/evm/:chainId/tokens/:address inserts what the chain answers
\* without a look at the table.
PutToken(c) ==
  /\ sends < MaxSends /\ sends' = sends + 1
  /\ c \in CurrentProviders /\ tokens[c] < MaxRows
  /\ tokens' = [tokens EXCEPT ![c] = @ + 1]
  /\ doubled' = IF tokens[c] > 0 \/ \E q \in Busy : c \in Keys(handler[q].dto)
                THEN doubled \cup {c} ELSE doubled
  /\ UNCHANGED <<row, tagRows, prices, lastPrice, handler, dirty, sold, soldTwice>>

Next ==
  \/ \E r \in Requests, dto \in Dtos : Send(r, dto)
  \/ \E r \in Requests :
       \/ Refuse(r) \/ Find(r) \/ FindTags(r)
       \/ \E i \in DOMAIN handler[r].tasks :
            FindToken(r, i) \/ SaveToken(r, i) \/ RefuseToken(r, i) \/ SavePrice(r, i)
       \/ \E n \in Tags : FindTag(r, n)
       \/ SaveTag(r)
       \/ PricesDone(r) \/ Select(r) \/ Insert(r) \/ Write(r) \/ Fail(r)
  \/ \E c \in Chains : PutToken(c)
  \/ Delete

Spec == Init /\ [][Next]_vars

-----------------------------------------------------------------------------
\* "donation address should be empty if payment mode is updated to
\* DISABLE_PAYMENTS", and stays so until the mode is updated again, although
\* the address is validated against a mode read earlier.  Overlapping updates
\* may break it, and the next update that overlaps none repairs it.
DisabledHasNoAddress ==
  row \notin {None, Gone} /\ ~dirty =>
    (row.mode = "DISABLE_PAYMENTS" => row.donation \in Empty)

\* An update that does not mention the payment mode does not change it,
\* although it writes one, unless it overlapped another request.
ModeKept ==
  [][row \notin {None, Gone} /\ row' # Gone /\ row'.mode # row.mode =>
       \E r \in Requests :
         At(r, "write") /\ handler'[r] = Idle
           /\ (handler[r].asked = row'.mode \/ handler[r].overlapped)]_vars

\* A name has one tag and an address one token, without a unique index, unless
\* two tasks asked for it at once, of overlapping requests or of one that names
\* it twice, or a token was put that was there.
OneRowEach ==
  /\ \A s, t \in tagRows : s.name = t.name /\ s.name \notin doubled => s = t
  /\ \A c \in Chains \ doubled : tokens[c] <= 1

\* The game is sold for the prices of the last update that gave any, and for no
\* price that it had before or that a failed update left; unless that update
\* overlapped another request.
SoldAsLastWritten ==
  row \notin {None, Gone} /\ ~soldTwice =>
    \A c \in Chains :
      Cardinality({p \in prices : p.ofGame /\ p.chain = c}) =
        Cardinality({i \in DOMAIN sold : sold[i] = c})

=============================================================================
