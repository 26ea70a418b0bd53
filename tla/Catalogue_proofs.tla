-------------------------- MODULE Catalogue_proofs --------------------------
(***************************************************************************)
(* Proofs about Catalogue, for any dtos, number of requests and rows: an     *)
(* update that overlaps none keeps the payment mode it does not mention, and *)
(* leaves no address with disabled payments and the prices it gave; a name   *)
(* or address that nobody asked for twice has one row.                       *)
(***************************************************************************)
EXTENDS Catalogue, TLAPS, FiniteSetTheorems

-----------------------------------------------------------------------------
(* The inductive invariant. *)

TagsOf(h)   == Given2(h.dto.tags)
PricesOf(h) == Given2(h.dto.prices)

Live == row \notin {None, Gone}

\* What a request knows at a step.
Knows(h) ==
  /\ h.step = "idle" => h = Idle
  /\ h.step # "idle" => h.dto \in Pending
  /\ h.step \in {"find", "tags", "prices", "select", "write"} /\ h.creates =>
       h.asked # "absent"
  /\ h.step = "select" => ~h.creates
  /\ h.step \in {"tags", "prices", "select", "write"} =>
       /\ h.dto.donation # "invalid"
       /\ h.dto.mode = "DISABLE_PAYMENTS" => h.dto.donation \in {"null", "absent"}
  /\ h.step \in {"tags", "prices", "select"} \/ (h.step = "write" /\ h.creates) =>
       h.dto.mode # "absent"
  /\ h.step \in {"find", "tags", "patch"} => h.made = {}
  /\ h.step \in {"prices", "select", "write"} => DOMAIN h.tasks = DOMAIN PricesOf(h)
  /\ h.step \in {"select", "write"} =>
       \A i \in DOMAIN h.tasks : h.tasks[i] = "done"
  /\ h.step # "write" \/ h.creates \/ h.dto.prices = None => h.unsell = {}

RequestsKnow == \A r \in Requests : Knows(handler[r])

\* Two requests that are under way overlap; an update finds a row.
Apart ==
  /\ \A q, r \in Changing : q # r => handler[q].overlapped /\ handler[r].overlapped
  /\ \A r \in Changing : ~handler[r].creates => row # None

\* The mode and the address that a request leaves in a row w.
ModeAfter(h, w)     == IF h.dto.mode = "absent" THEN w.mode ELSE h.dto.mode
DonationAfter(h, w) == IF h.dto.donation = "absent" THEN w.donation ELSE h.dto.donation

\* The mode that is asked for, if any, or kept.
Wanted(h, w) == IF h.asked = "absent" THEN w.mode ELSE h.asked

\* What h found is still so, of a row w and the ids S of the game's prices.
StillSo(h, w, S) ==
  /\ h.step \in {"tags", "prices", "select"} =>
       /\ h.dto.mode = Wanted(h, w)
       /\ h.dto.mode = "DISABLE_PAYMENTS" => h.dto.donation = "null"
  /\ h.step = "write" =>
       /\ ModeAfter(h, w) = Wanted(h, w)
       /\ Wanted(h, w) = "DISABLE_PAYMENTS" => DonationAfter(h, w) \in Empty
       /\ h.dto.prices # None => h.unsell = S

NothingStale ==
  \A r \in Changing :
    Live /\ ~handler[r].creates /\ ~handler[r].overlapped =>
      StillSo(handler[r], row, OfGame)

\* A key that two tasks ask for is known to be doubled.
KeysApart ==
  /\ \A q, r \in Busy : q # r => Keys(handler[q].dto) \cap Keys(handler[r].dto) \subseteq doubled
  /\ \A r \in Busy : Twice(TagsOf(handler[r])) \cup Twice(PricesOf(handler[r])) \subseteq doubled

\* Who is about to insert a tag or a token knows that there is none, of tags R
\* and tokens T, unless it is one of the doubled D.
Lacks(h, R, T, D) ==
  /\ h.step \in {"prices", "select", "write"} \/ (h.step = "patch" /\ h.found = {}) =>
       \A i \in DOMAIN TagsOf(h), t \in R : TagsOf(h)[i] \notin D => t.name # TagsOf(h)[i]
  /\ h.step = "prices" =>
       \A i \in DOMAIN h.tasks :
         h.tasks[i] = "fetch" /\ PricesOf(h)[i] \notin D => T[PricesOf(h)[i]] = 0

Missing == \A r \in Busy : Lacks(handler[r], tagRows, tokens, doubled)

\* The prices that a request saved, and those of the game.
Made(h, P, c) == {p \in P : p.id \in h.made /\ p.chain = c}
Sold(P, c)    == {p \in P : p.ofGame /\ p.chain = c}
DoneFor(h, c) == {i \in DOMAIN h.tasks : h.tasks[i] = "done" /\ PricesOf(h)[i] = c}

\* A request's prices are its own, and of no game yet.
OwnPrices(h, P, last) ==
  /\ \A i \in h.made : i <= last
  /\ \A p \in P : p.id \in h.made => ~p.ofGame

PricesKeyed ==
  /\ IsFiniteSet(prices)
  /\ \A p \in prices : p.id <= lastPrice
  /\ row = None => sold = <<>> /\ \A p \in prices : ~p.ofGame
  /\ \A r \in Requests : OwnPrices(handler[r], prices, lastPrice)
  /\ \A q, r \in Requests : q # r => handler[q].made \cap handler[r].made = {}

\* One price per task that is done.
Tally(h, P) ==
  \A c \in Chains : Cardinality(Made(h, P, c)) = Cardinality(DoneFor(h, c))

Counted == \A r \in Changing : Tally(handler[r], prices)

IInv ==
  /\ TypeOK /\ RequestsKnow /\ Apart /\ NothingStale
  /\ KeysApart /\ Missing /\ OneRowEach
  /\ PricesKeyed /\ Counted
  /\ DisabledHasNoAddress /\ SoldAsLastWritten

-----------------------------------------------------------------------------
(* Dtos. *)

LEMMA EmptyIsUpTo2 == \A S : <<>> \in UpTo2(S)
<1> SUFFICES ASSUME NEW S PROVE <<>> \in UpTo2(S)
  OBVIOUS
<1>1. 1 .. 0 = {}
  OBVIOUS
<1>2. <<>> \in [1 .. 0 -> S]
  BY <1>1
<1> QED BY <1>2 DEF UpTo2

LEMMA UpTo2IsSome ==
  ASSUME NEW S, NEW f \in UpTo2(S)
  PROVE  /\ f \in SomeOf2(S) /\ DOMAIN f \subseteq {1, 2}
         /\ \A i \in DOMAIN f : f[i] \in S
<1>1. PICK n \in 0 .. 2 : f \in [1 .. n -> S]
  BY DEF UpTo2
<1>2. 1 .. n \subseteq {1, 2}
  OBVIOUS
<1> QED BY <1>1, <1>2 DEF SomeOf2

LEMMA SomeOf2Is ==
  ASSUME NEW S, NEW f \in SomeOf2(S)
  PROVE  DOMAIN f \subseteq {1, 2} /\ \A i \in DOMAIN f : f[i] \in S
BY DEF SomeOf2

LEMMA GivenIs ==
  ASSUME NEW d \in Pending
  PROVE  /\ Given2(d.tags) \in SomeOf2(Tags) /\ DOMAIN Given2(d.tags) \subseteq {1, 2}
         /\ \A i \in DOMAIN Given2(d.tags) : Given2(d.tags)[i] \in Tags
         /\ Given2(d.prices) \in UpTo2(Chains) /\ DOMAIN Given2(d.prices) \subseteq {1, 2}
         /\ \A i \in DOMAIN Given2(d.prices) : Given2(d.prices)[i] \in Chains
<1>1. Given2(d.tags) \in SomeOf2(Tags)
  <2>1. <<>> \in SomeOf2(Tags)
    BY EmptyIsUpTo2, UpTo2IsSome
  <2> QED BY <2>1 DEF Given2, Pending
<1>2. Given2(d.prices) \in UpTo2(Chains)
  BY EmptyIsUpTo2 DEF Given2, Pending
<1> QED BY <1>1, <1>2, SomeOf2Is, UpTo2IsSome

LEMMA KeysAre ==
  ASSUME NEW d \in Pending
  PROVE  Keys(d) \subseteq Tags \cup Chains
BY GivenIs DEF Keys

LEMMA DtoIsPending == Dto \subseteq Pending
<1> SUFFICES ASSUME NEW d \in Dto PROVE d \in Pending
  OBVIOUS
<1>1. d.tags \in SomeOf2(Tags) \cup {None}
  <2>1. d.tags \in UpTo2(Tags) \cup {None}
    BY DEF Dto
  <2> QED BY <2>1, UpTo2IsSome
<1> QED BY <1>1 DEF Dto, Pending

LEMMA IdleLocals == Idle \in Locals /\ Knows(Idle)
<1>1. <<>> \in UpTo2({"find", "fetch", "save", "done", "failed"})
  BY EmptyIsUpTo2
<1>2. Idle \in Locals
  BY <1>1 DEF Idle, Locals
<1>3. Knows(Idle)
  BY DEF Idle, Knows
<1> QED BY <1>2, <1>3

LEMMA InitIInv == Init => IInv
<1> SUFFICES ASSUME Init PROVE IInv
  OBVIOUS
<1>1. TypeOK
  <2>1. handler \in [Requests -> Locals]
    BY IdleLocals DEF Init
  <2>2. 0 \in 0 .. MaxRows /\ 0 \in 0 .. MaxSends
    BY RowBound
  <2>3. sold \in UpTo2(Chains)
    BY EmptyIsUpTo2 DEF Init
  <2> QED BY <2>1, <2>2, <2>3 DEF Init, TypeOK
<1>2. \A r \in Requests : handler[r] = Idle /\ handler[r].step = "idle" /\ handler[r].made = {}
  BY DEF Init, Idle
<1>3. Busy = {} /\ Changing = {} /\ RequestsKnow
  BY <1>2, IdleLocals DEF Busy, Changing, RequestsKnow
<1>4. Apart /\ NothingStale /\ KeysApart /\ Missing /\ Counted
  BY <1>3 DEF Apart, NothingStale, KeysApart, Missing, Counted
<1>5. OneRowEach
  BY DEF Init, OneRowEach
<1>6. PricesKeyed
  BY <1>2, FS_EmptySet DEF Init, PricesKeyed, OwnPrices
<1>7. DisabledHasNoAddress /\ SoldAsLastWritten
  BY DEF Init, DisabledHasNoAddress, SoldAsLastWritten
<1> QED BY <1>1, <1>3, <1>4, <1>5, <1>6, <1>7 DEF IInv

-----------------------------------------------------------------------------
(* A step of one request. *)

\* What a step of a request leaves as it is, or lessens.
Narrowed(g, h) ==
  /\ h.step # "idle"
  /\ g.step # "idle" =>
       /\ (g.step = "patch") <=> (h.step = "patch")
       /\ g.overlapped = h.overlapped /\ g.creates = h.creates /\ g.asked = h.asked
       /\ Keys(g.dto) \subseteq Keys(h.dto)
       /\ Twice(TagsOf(g)) \subseteq Twice(TagsOf(h))
       /\ Twice(PricesOf(g)) \subseteq Twice(PricesOf(h))

Alone(r) ==
  /\ \A q \in Requests : q # r => handler'[q] = handler[q]
  /\ Narrowed(handler'[r], handler[r])

\* A step of one request does not put it among others.
LEMMA AloneKeeps ==
  ASSUME IInv, NEW r \in Requests, Alone(r), Knows(handler'[r]),
         doubled \subseteq doubled', row # None => row' # None
  PROVE  /\ Busy' \subseteq Busy /\ Changing' \subseteq Changing
         /\ RequestsKnow' /\ Apart' /\ KeysApart'
<1>1. \A q \in Requests \ {r} : handler'[q] = handler[q]
  BY DEF Alone
<1>2. Narrowed(handler'[r], handler[r])
  BY DEF Alone
<1>3. Busy' \subseteq Busy /\ Changing' \subseteq Changing
  BY <1>1, <1>2 DEF Busy, Changing, Narrowed
<1>4. RequestsKnow'
  BY <1>1 DEF IInv, RequestsKnow
<1>5. Apart'
  <2>1. \A q \in Changing' :
          handler'[q].overlapped = handler[q].overlapped /\ handler'[q].creates = handler[q].creates
    BY <1>1, <1>2 DEF Busy, Changing, Narrowed
  <2> QED BY <1>3, <2>1 DEF IInv, Apart
<1>6. KeysApart'
  <2>1. \A q \in Busy' :
          /\ Keys(handler'[q].dto) \subseteq Keys(handler[q].dto)
          /\ Twice(TagsOf(handler'[q])) \subseteq Twice(TagsOf(handler[q]))
          /\ Twice(PricesOf(handler'[q])) \subseteq Twice(PricesOf(handler[q]))
    BY <1>1, <1>2 DEF Busy, Narrowed
  <2>2. KeysApart
    BY DEF IInv
  <2>3. \A p, q \in Busy' : p # q =>
          Keys(handler'[p].dto) \cap Keys(handler'[q].dto) \subseteq doubled'
    BY <1>3, <2>1, <2>2 DEF KeysApart
  <2>4. \A q \in Busy' :
          Twice(TagsOf(handler'[q])) \cup Twice(PricesOf(handler'[q])) \subseteq doubled'
    BY <1>3, <2>1, <2>2 DEF KeysApart
  <2> QED BY <2>3, <2>4 DEF KeysApart
<1> QED BY <1>3, <1>4, <1>5, <1>6

LEMMA KeysHold ==
  ASSUME NEW h
  PROVE  /\ \A i \in DOMAIN TagsOf(h) : TagsOf(h)[i] \in Keys(h.dto)
         /\ \A i \in DOMAIN PricesOf(h) : PricesOf(h)[i] \in Keys(h.dto)
BY DEF Keys, TagsOf, PricesOf

\* What one request inserts, no other one misses.
LEMMA MissingKept ==
  ASSUME IInv, NEW r \in Requests, Alone(r), Knows(handler'[r]),
         doubled \subseteq doubled',
         handler'[r].step # "idle" => Lacks(handler'[r], tagRows', tokens', doubled'),
         \A t \in tagRows' : t \in tagRows \/ t.name \in Keys(handler[r].dto),
         \A c \in Chains : tokens'[c] = tokens[c] \/ c \in Keys(handler[r].dto)
  PROVE  Missing'
<1> SUFFICES ASSUME NEW q \in Busy', q # r
             PROVE  Lacks(handler'[q], tagRows', tokens', doubled')
  BY DEF Missing, Busy
<1>1. handler'[q] = handler[q] /\ q \in Busy /\ r \in Busy
  BY DEF Alone, Narrowed, Busy
<1>2. Keys(handler[q].dto) \cap Keys(handler[r].dto) \subseteq doubled
  BY <1>1 DEF IInv, KeysApart
<1>3. Lacks(handler[q], tagRows, tokens, doubled) /\ handler[q].dto \in Pending
  BY <1>1 DEF IInv, Missing, RequestsKnow, Knows, Busy
<1>4. ASSUME handler[q].step \in {"prices", "select", "write"}
               \/ (handler[q].step = "patch" /\ handler[q].found = {}),
             NEW i \in DOMAIN TagsOf(handler[q]), NEW t \in tagRows',
             TagsOf(handler[q])[i] \notin doubled'
      PROVE  t.name # TagsOf(handler[q])[i]
  BY <1>2, <1>3, <1>4, KeysHold DEF Lacks
<1>5. ASSUME handler[q].step = "prices", NEW i \in DOMAIN handler[q].tasks,
             handler[q].tasks[i] = "fetch", PricesOf(handler[q])[i] \notin doubled'
      PROVE  tokens'[PricesOf(handler[q])[i]] = 0
  <2>1. DOMAIN handler[q].tasks = DOMAIN PricesOf(handler[q])
    BY <1>1, <1>5 DEF IInv, RequestsKnow, Knows, Busy
  <2>2. PricesOf(handler[q])[i] \in Chains
    BY <2>1, <1>3, <1>5, GivenIs DEF PricesOf
  <2>3. tokens[PricesOf(handler[q])[i]] = 0
    BY <1>3, <1>5 DEF Lacks
  <2> QED BY <1>2, <1>5, <2>1, <2>2, <2>3, KeysHold
<1> QED BY <1>1, <1>4, <1>5 DEF Lacks

\* A step that writes no price and not the row.
LEMMA AloneStep ==
  ASSUME IInv, TypeOK', OneRowEach', NEW r \in Requests, Alone(r), Knows(handler'[r]),
         UNCHANGED <<row, prices, lastPrice, dirty, doubled, sold, soldTwice>>,
         handler'[r].made \subseteq handler[r].made,
         handler'[r].step # "idle" => Lacks(handler'[r], tagRows', tokens', doubled),
         handler'[r].step \notin {"idle", "patch"} => Tally(handler'[r], prices),
         handler'[r].step \notin {"idle", "patch"} /\ Live /\ ~handler[r].creates
             /\ ~handler[r].overlapped =>
           StillSo(handler'[r], row, OfGame),
         \A t \in tagRows' : t \in tagRows \/ t.name \in Keys(handler[r].dto),
         \A c \in Chains : tokens'[c] = tokens[c] \/ c \in Keys(handler[r].dto)
  PROVE  IInv'
<1>1. /\ Busy' \subseteq Busy /\ Changing' \subseteq Changing
      /\ RequestsKnow' /\ Apart' /\ KeysApart'
  BY AloneKeeps
<1>2. Missing'
  BY MissingKept
<1>3. \A q \in Requests \ {r} : handler'[q] = handler[q]
  BY DEF Alone
<1>4. OfGame' = OfGame /\ (Live' <=> Live)
  BY DEF OfGame, Live
<1>5. NothingStale'
  <2>1. ASSUME r \in Changing', Live, ~handler'[r].creates, ~handler'[r].overlapped
        PROVE  StillSo(handler'[r], row, OfGame)
    <3>1. handler'[r].step \notin {"idle", "patch"}
      BY <2>1 DEF Changing, Busy
    <3>2. ~handler[r].creates /\ ~handler[r].overlapped
      BY <2>1, <3>1 DEF Alone, Narrowed
    <3> QED BY <2>1, <3>1, <3>2
  <2>2. ASSUME NEW q \in Changing', q # r, Live, ~handler'[q].creates, ~handler'[q].overlapped
        PROVE  StillSo(handler'[q], row, OfGame)
    BY <1>1, <1>3, <2>2 DEF IInv, NothingStale, Changing, Busy
  <2>3. row' = row
    OBVIOUS
  <2> QED BY <1>4, <2>1, <2>2, <2>3 DEF NothingStale
<1>6. PricesKeyed'
  <2>1. \A q \in Requests : handler'[q].made \subseteq handler[q].made
    BY <1>3
  <2>2. PricesKeyed
    BY DEF IInv
  <2>3. \A q \in Requests : OwnPrices(handler'[q], prices, lastPrice)
    BY <2>1, <2>2 DEF PricesKeyed, OwnPrices
  <2> QED BY <2>1, <2>2, <2>3 DEF PricesKeyed
<1>7. Counted'
  <2>1. r \in Changing' => Tally(handler'[r], prices)
    BY DEF Changing, Busy
  <2>2. \A q \in Changing' : q # r => Tally(handler'[q], prices)
    BY <1>1, <1>3 DEF IInv, Counted, Changing, Busy
  <2> QED BY <2>1, <2>2 DEF Counted
<1>8. DisabledHasNoAddress' /\ SoldAsLastWritten'
  BY DEF IInv, DisabledHasNoAddress, SoldAsLastWritten
<1> QED BY <1>1, <1>2, <1>5, <1>6, <1>7, <1>8 DEF IInv

\* A step of one request that writes nothing.
LEMMA QuietStep ==
  ASSUME IInv, NEW r \in Requests, UNCHANGED <<row, tables, sends, history>>,
         NEW g \in Locals, handler' = [handler EXCEPT ![r] = g],
         Knows(g), Narrowed(g, handler[r]), g.made \subseteq handler[r].made,
         g.step # "idle" => Lacks(g, tagRows, tokens, doubled),
         g.step \notin {"idle", "patch"} => Tally(g, prices),
         g.step \notin {"idle", "patch"} /\ Live /\ ~handler[r].creates
             /\ ~handler[r].overlapped =>
           StillSo(g, row, OfGame)
  PROVE  IInv'
<1>1. handler \in [Requests -> Locals]
  BY DEF IInv, TypeOK
<1>2. handler'[r] = g /\ \A q \in Requests : q # r => handler'[q] = handler[q]
  BY <1>1
<1>3. UNCHANGED <<row, tagRows, tokens, prices, lastPrice, sends, dirty, doubled, sold, soldTwice>>
  BY DEF tables, history
<1>4. TypeOK'
  BY <1>1, <1>3 DEF IInv, TypeOK
<1>5. OneRowEach'
  BY <1>3 DEF IInv, OneRowEach
<1>6. Alone(r)
  BY <1>2 DEF Alone
<1> QED BY <1>2, <1>3, <1>4, <1>5, <1>6, AloneStep

LEMMA NarrowToIdle ==
  ASSUME NEW h, h.step # "idle"
  PROVE  Narrowed(Idle, h) /\ Idle.made \subseteq h.made /\ Idle.step = "idle"
BY DEF Narrowed, Idle

LEMMA Returns ==
  ASSUME IInv, NEW r \in Requests, handler[r].step # "idle", Return(r),
         UNCHANGED <<row, tables, sends, history>>
  PROVE  IInv'
<1>1. handler' = [handler EXCEPT ![r] = Idle]
  BY DEF Return
<1> QED BY <1>1, IdleLocals, NarrowToIdle, QuietStep

\* What a request is and knows.
LEMMA Handled ==
  ASSUME IInv, NEW r \in Requests
  PROVE  /\ handler[r] \in Locals /\ Knows(handler[r])
         /\ handler[r].step # "idle" =>
              handler[r].dto \in Pending /\ Lacks(handler[r], tagRows, tokens, doubled)
         /\ handler[r].step \notin {"idle", "patch"} =>
              /\ Tally(handler[r], prices)
              /\ ~handler[r].creates => row # None
              /\ Live /\ ~handler[r].creates /\ ~handler[r].overlapped =>
                   StillSo(handler[r], row, OfGame)
<1>1. handler[r] \in Locals /\ Knows(handler[r])
  BY DEF IInv, TypeOK, RequestsKnow
<1>2. handler[r].step # "idle" => handler[r].dto \in Pending /\ Lacks(handler[r], tagRows, tokens, doubled)
  BY <1>1 DEF IInv, Missing, Busy, Knows
<1>3. ASSUME handler[r].step \notin {"idle", "patch"}
      PROVE  /\ Tally(handler[r], prices)
             /\ ~handler[r].creates => row # None
             /\ Live /\ ~handler[r].creates /\ ~handler[r].overlapped =>
                  StillSo(handler[r], row, OfGame)
  <2>1. r \in Changing
    BY <1>3 DEF Changing, Busy
  <2> QED BY <2>1 DEF IInv, Counted, Apart, NothingStale
<1> QED BY <1>1, <1>2, <1>3

LEMMA FixIs ==
  ASSUME NEW mode \in Modes, NEW donation \in Given
  PROVE  /\ Fix(mode, donation) \in Given /\ Fix(mode, donation) # "invalid"
         /\ mode = "DISABLE_PAYMENTS" => Fix(mode, donation) = "null"
<1>1. "invalid" \notin Stored \cup {"absent"}
  BY NewNames DEF Stored, Empty
<1> QED BY <1>1 DEF Fix, Given, Stored, Empty, IsEmptyOrAddress, Modes

LEMMA ValidateStep ==
  ASSUME IInv, NEW r \in Requests, At(r, "find"), NEW mode \in Modes,
         Validate(r, mode), UNCHANGED <<row, tables, sends, history>>,
         Live /\ ~handler[r].creates => mode = Wanted(handler[r], row)
  PROVE  IInv'
<1>1. PICK h \in Locals : h = handler[r]
  BY Handled
<1>2. /\ h.step = "find" /\ h.dto \in Pending /\ Knows(h) /\ Tally(h, prices)
  BY <1>1, Handled DEF At
<1>3. CASE Throws(mode, h.dto.donation) /\ Return(r)
  BY <1>1, <1>2, <1>3, Returns
<1>4. ASSUME handler' = [handler EXCEPT ![r].step = "tags", ![r].dto.mode = mode,
                           ![r].dto.donation = Fix(mode, h.dto.donation)]
      PROVE  IInv'
  <2>1. PICK d : d = Fix(mode, h.dto.donation)
    OBVIOUS
  <2>2. d \in Given /\ d # "invalid" /\ (mode = "DISABLE_PAYMENTS" => d = "null")
    <3>1. h.dto.donation \in Given
      BY <1>2 DEF Pending
    <3> QED BY <2>1, <3>1, FixIs
  <2>3. PICK dto : dto = [h.dto EXCEPT !.mode = mode, !.donation = d]
    OBVIOUS
  <2>4. /\ dto \in Pending /\ dto.mode = mode /\ dto.donation = d
        /\ dto.tags = h.dto.tags /\ dto.prices = h.dto.prices
    BY <1>2, <2>2, <2>3 DEF Pending
  <2>5. PICK g : g = [h EXCEPT !.step = "tags", !.dto = dto]
    OBVIOUS
  <2>6. /\ g \in Locals /\ g.step = "tags" /\ g.dto = dto /\ g.creates = h.creates
        /\ g.overlapped = h.overlapped /\ g.asked = h.asked /\ g.made = h.made
        /\ g.found = h.found /\ g.tasks = h.tasks /\ g.unsell = h.unsell
    BY <2>4, <2>5 DEF Locals
  <2>7. handler' = [handler EXCEPT ![r] = g]
    BY <1>1, <1>4, <2>1, <2>3, <2>5 DEF Locals
  <2>8. TagsOf(g) = TagsOf(h) /\ PricesOf(g) = PricesOf(h) /\ Keys(g.dto) = Keys(h.dto)
    BY <2>4, <2>6 DEF TagsOf, PricesOf, Keys
  <2>9. Knows(g)
    BY <1>2, <2>2, <2>4, <2>6, <2>8 DEF Knows, Modes
  <2>10. Narrowed(g, h)
    BY <1>2, <2>6, <2>8 DEF Narrowed
  <2>11. Lacks(g, tagRows, tokens, doubled)
    BY <2>6 DEF Lacks
  <2>12. Tally(g, prices)
    BY <1>2, <2>6, <2>8 DEF Tally, Made, DoneFor
  <2>13. Live /\ ~h.creates => StillSo(g, row, OfGame)
    BY <1>1, <2>2, <2>4, <2>6 DEF StillSo, Wanted
  <2> QED BY <1>1, <2>6, <2>7, <2>9, <2>10, <2>11, <2>12, <2>13, QuietStep
<1> QED BY <1>1, <1>3, <1>4 DEF Validate

LEMMA FindStep ==
  ASSUME IInv, NEW r \in Requests, Find(r)
  PROVE  IInv'
<1>1. At(r, "find") /\ UNCHANGED <<row, tables, sends, history>>
  BY DEF Find
<1>2. CASE ~handler[r].creates /\ row = Gone /\ Return(r)
  BY <1>1, <1>2, Returns DEF At
<1>3. ASSUME handler[r].creates \/ row # Gone,
             Validate(r, Wanted(handler[r], row))
      PROVE  IInv'
  <2>1. handler[r] \in Locals /\ Knows(handler[r]) /\ (~handler[r].creates => row # None)
    BY <1>1, Handled DEF At
  <2>2. handler[r].creates => handler[r].asked # "absent"
    BY <1>1, <2>1 DEF At, Knows
  <2>3. ~handler[r].creates => row \in Row
    BY <1>3, <2>1 DEF IInv, TypeOK
  <2>4. Wanted(handler[r], row) \in Modes
    BY <2>1, <2>2, <2>3 DEF Wanted, Locals, Row
  <2> QED BY <1>1, <1>3, <2>4, ValidateStep
<1> QED BY <1>2, <1>3 DEF Find, Wanted

-----------------------------------------------------------------------------
(* Tags and prices of a dto. *)

\* A part of a list names no key that the list does not, or more often.
LEMMA PartNames ==
  ASSUME NEW f, NEW f2, DOMAIN f2 \subseteq DOMAIN f,
         \A i \in DOMAIN f2 : f2[i] = f[i]
  PROVE  /\ Twice(f2) \subseteq Twice(f)
         /\ {f2[i] : i \in DOMAIN f2} \subseteq {f[i] : i \in DOMAIN f}
BY DEF Twice

LEMMA PartIsSome ==
  ASSUME NEW S, NEW f \in SomeOf2(S), NEW P, P \subseteq DOMAIN f
  PROVE  [i \in P |-> f[i]] \in SomeOf2(S)
<1>1. DOMAIN f \subseteq {1, 2} /\ \A i \in DOMAIN f : f[i] \in S
  BY SomeOf2Is
<1>2. P \in SUBSET {1, 2}
  BY <1>1
<1>3. [i \in P |-> f[i]] \in [P -> S]
  BY <1>1
<1> QED BY <1>2, <1>3 DEF SomeOf2

\* The tasks of a list of prices, all at the same stage.
LEMMA TasksOf ==
  ASSUME NEW f \in UpTo2(Chains), NEW stage \in {"find", "fetch", "save", "done", "failed"}
  PROVE  [i \in DOMAIN f |-> stage] \in UpTo2({"find", "fetch", "save", "done", "failed"})
<1>1. PICK n \in 0 .. 2 : f \in [1 .. n -> Chains]
  BY DEF UpTo2
<1>2. [i \in DOMAIN f |-> stage] \in [1 .. n -> {"find", "fetch", "save", "done", "failed"}]
  BY <1>1
<1> QED BY <1>2 DEF UpTo2

LEMMA TaskMoved ==
  ASSUME NEW t \in UpTo2({"find", "fetch", "save", "done", "failed"}), NEW i \in DOMAIN t,
         NEW stage \in {"find", "fetch", "save", "done", "failed"}
  PROVE  [t EXCEPT ![i] = stage] \in UpTo2({"find", "fetch", "save", "done", "failed"})
<1>1. PICK n \in 0 .. 2 : t \in [1 .. n -> {"find", "fetch", "save", "done", "failed"}]
  BY DEF UpTo2
<1>2. [t EXCEPT ![i] = stage] \in [1 .. n -> {"find", "fetch", "save", "done", "failed"}]
  BY <1>1
<1> QED BY <1>2 DEF UpTo2

LEMMA FindTagsStep ==
  ASSUME IInv, NEW r \in Requests, FindTags(r)
  PROVE  IInv'
<1> DEFINE h     == handler[r]
           names == {Given2(h.dto.tags)[i] : i \in DOMAIN Given2(h.dto.tags)}
           known == {t.name : t \in tagRows} \cap names
<1>1. h \in Locals /\ h = handler[r]
  BY Handled
<1>2. /\ h.step = "tags" /\ h.dto \in Pending /\ Knows(h) /\ Tally(h, prices)
      /\ Live /\ ~h.creates /\ ~h.overlapped => StillSo(h, row, OfGame)
  BY <1>1, Handled DEF FindTags, At
<1>3. /\ names = {Given2(h.dto.tags)[i] : i \in DOMAIN Given2(h.dto.tags)}
      /\ known = {t.name : t \in tagRows} \cap names
  OBVIOUS
<1>4. PICK ids \in [known -> Ids] :
        handler' = [handler EXCEPT ![r].step = "prices",
               ![r].found = {ids[n] : n \in known},
               ![r].tasks = [i \in DOMAIN Given2(h.dto.prices) |-> "find"],
               ![r].dto.tags = IF @ = None THEN None
                               ELSE [i \in {j \in DOMAIN @ : @[j] \notin known} |-> @[i]]]
  BY DEF FindTags
<1>5. PICK tags : tags = IF h.dto.tags = None THEN None
                         ELSE [i \in {j \in DOMAIN h.dto.tags : h.dto.tags[j] \notin known} |->
                                 h.dto.tags[i]]
  OBVIOUS
<1>6. PICK found, tasks : /\ found = {ids[n] : n \in known}
                          /\ tasks = [i \in DOMAIN Given2(h.dto.prices) |-> "find"]
  OBVIOUS
<1>7. PICK dto : dto = [h.dto EXCEPT !.tags = tags]
  OBVIOUS
<1>8. PICK g : g = [h EXCEPT !.step = "prices", !.found = found, !.tasks = tasks, !.dto = dto]
  OBVIOUS
<1>9. handler' = [handler EXCEPT ![r] = g]
  <2>1. handler \in [Requests -> Locals]
    BY DEF IInv, TypeOK
  <2>2. handler' = [handler EXCEPT ![r].step = "prices", ![r].found = found,
                      ![r].tasks = tasks, ![r].dto.tags = tags]
    BY <1>4, <1>5, <1>6
  <2> HIDE DEF known, names
  <2> QED BY <1>1, <1>7, <1>8, <2>1, <2>2 DEF Locals
<1> HIDE DEF h, names, known
<1>10. tags \in SomeOf2(Tags) \cup {None}
  <2>1. ASSUME h.dto.tags # None PROVE tags \in SomeOf2(Tags)
    <3>1. h.dto.tags \in SomeOf2(Tags)
      BY <1>2, <2>1 DEF Pending
    <3> QED BY <1>5, <2>1, <3>1, PartIsSome
  <2> QED BY <1>5, <2>1
<1>11. found \in SUBSET Ids /\ tasks \in UpTo2({"find", "fetch", "save", "done", "failed"})
  <2>1. Given2(h.dto.prices) \in UpTo2(Chains)
    BY <1>2, GivenIs
  <2> QED BY <1>6, <2>1, TasksOf
<1>12. /\ dto \in Pending /\ dto.mode = h.dto.mode /\ dto.donation = h.dto.donation
       /\ dto.tags = tags /\ dto.prices = h.dto.prices
  BY <1>2, <1>7, <1>10 DEF Pending
<1>13. /\ g \in Locals /\ g.step = "prices" /\ g.dto = dto /\ g.creates = h.creates
       /\ g.overlapped = h.overlapped /\ g.asked = h.asked /\ g.made = h.made
       /\ g.tasks = tasks /\ g.unsell = h.unsell
  BY <1>1, <1>8, <1>11, <1>12 DEF Locals
<1>14. /\ DOMAIN TagsOf(g) \subseteq DOMAIN TagsOf(h)
       /\ \A i \in DOMAIN TagsOf(g) : TagsOf(g)[i] = TagsOf(h)[i] /\ TagsOf(g)[i] \notin known
  <2>1. CASE h.dto.tags = None
    BY <1>5, <1>12, <1>13, <2>1 DEF TagsOf, Given2
  <2>2. CASE h.dto.tags # None
    <3>1. tags = [i \in {j \in DOMAIN h.dto.tags : h.dto.tags[j] \notin known} |-> h.dto.tags[i]]
      BY <1>5, <2>2
    <3> QED BY <1>12, <1>13, <2>2, <3>1 DEF TagsOf, Given2
  <2> QED BY <2>1, <2>2
<1>15. PricesOf(g) = PricesOf(h) /\ Given2(h.dto.prices) = PricesOf(h)
  BY <1>12, <1>13 DEF PricesOf
<1>16. Narrowed(g, h)
  <2>1. Keys(g.dto) \subseteq Keys(h.dto) /\ Twice(TagsOf(g)) \subseteq Twice(TagsOf(h))
    BY <1>14, <1>15, PartNames DEF Keys, TagsOf, PricesOf
  <2> QED BY <1>2, <1>13, <1>15, <2>1 DEF Narrowed
<1>17. Knows(g)
  BY <1>2, <1>6, <1>12, <1>13, <1>15 DEF Knows
<1>18. Lacks(g, tagRows, tokens, doubled)
  <2>1. ASSUME NEW i \in DOMAIN TagsOf(g), NEW t \in tagRows
        PROVE  t.name # TagsOf(g)[i]
    <3>1. i \in DOMAIN TagsOf(h) /\ TagsOf(h)[i] = TagsOf(g)[i]
      BY <1>14
    <3>2. TagsOf(g)[i] \in names
      BY <1>3, <3>1 DEF TagsOf
    <3> QED BY <1>3, <1>14, <3>2
  <2> QED BY <1>6, <1>13, <2>1 DEF Lacks
<1>19. Tally(g, prices)
  <2>1. g.made = {}
    BY <1>2, <1>13 DEF Knows
  <2>2. \A c \in Chains : Made(g, prices, c) = {} /\ DoneFor(g, c) = {}
    BY <1>6, <1>13, <2>1 DEF Made, DoneFor
  <2> QED BY <2>2 DEF Tally
<1>20. Live /\ ~h.creates /\ ~h.overlapped => StillSo(g, row, OfGame)
  BY <1>2, <1>12, <1>13 DEF StillSo, Wanted
<1>21. UNCHANGED <<row, tables, sends, history>>
  BY DEF FindTags
<1> QED BY <1>1, <1>9, <1>13, <1>16, <1>17, <1>18, <1>19, <1>20, <1>21, QuietStep

-----------------------------------------------------------------------------
(* The tasks of a request. *)

\* The request becomes g: a task is at another stage, and the rest as it was.
IsMoved(r, i, stage, g) ==
  /\ handler' = [handler EXCEPT ![r] = g]
  /\ g.step = "prices" /\ g.dto = handler[r].dto /\ g.creates = handler[r].creates
  /\ g.overlapped = handler[r].overlapped /\ g.asked = handler[r].asked
  /\ g.made = handler[r].made /\ g.unsell = handler[r].unsell
  /\ g.tasks = [handler[r].tasks EXCEPT ![i] = stage]
  /\ Knows(g) /\ Narrowed(g, handler[r])

LEMMA Moved ==
  ASSUME IInv, NEW r \in Requests, NEW i \in DOMAIN handler[r].tasks,
         NEW stage \in {"find", "fetch", "save", "done", "failed"},
         handler[r].step = "prices", Becomes(r, i, stage)
  PROVE  \E g \in Locals : IsMoved(r, i, stage, g)
<1>1. PICK h \in Locals : h = handler[r]
  BY Handled
<1>2. PICK tasks : tasks = [h.tasks EXCEPT ![i] = stage]
  OBVIOUS
<1>3. tasks \in UpTo2({"find", "fetch", "save", "done", "failed"}) /\ DOMAIN tasks = DOMAIN h.tasks
  BY <1>1, <1>2, TaskMoved DEF Locals
<1>4. PICK g : g = [h EXCEPT !.tasks = tasks]
  OBVIOUS
<1>5. /\ g \in Locals /\ g.step = h.step /\ g.dto = h.dto /\ g.creates = h.creates
      /\ g.overlapped = h.overlapped /\ g.asked = h.asked
      /\ g.made = h.made /\ g.unsell = h.unsell /\ g.tasks = tasks
  BY <1>3, <1>4 DEF Locals
<1>6. handler' = [handler EXCEPT ![r] = g]
  <2>1. handler \in [Requests -> Locals]
    BY DEF IInv, TypeOK
  <2> QED BY <1>1, <1>2, <1>4, <2>1 DEF Becomes, Locals
<1>7. TagsOf(g) = TagsOf(h) /\ PricesOf(g) = PricesOf(h) /\ Keys(g.dto) = Keys(h.dto)
  BY <1>5 DEF TagsOf, PricesOf, Keys
<1>8. Narrowed(g, h)
  BY <1>1, <1>5, <1>7 DEF Narrowed
<1>9. Knows(g)
  <2>1. Knows(h)
    BY <1>1, Handled
  <2> QED BY <1>1, <1>3, <1>5, <1>7, <2>1 DEF Knows
<1> QED BY <1>1, <1>2, <1>5, <1>6, <1>8, <1>9 DEF IsMoved

\* A task that does not become, and was not, done leaves the tally.
LEMMA TallyKept ==
  ASSUME NEW h, NEW g, NEW P, g.made = h.made, g.dto = h.dto,
         NEW i \in DOMAIN h.tasks, h.tasks[i] # "done", NEW stage, stage # "done",
         g.tasks = [h.tasks EXCEPT ![i] = stage], Tally(h, P)
  PROVE  Tally(g, P)
<1>1. \A c \in Chains : Made(g, P, c) = Made(h, P, c)
  BY DEF Made
<1>2. PricesOf(g) = PricesOf(h)
  BY DEF PricesOf
<1>3. \A c \in Chains : DoneFor(g, c) = DoneFor(h, c)
  <2>1. DOMAIN g.tasks = DOMAIN h.tasks
    OBVIOUS
  <2>2. \A j \in DOMAIN h.tasks : g.tasks[j] = "done" <=> h.tasks[j] = "done"
    OBVIOUS
  <2> QED BY <1>2, <2>1, <2>2 DEF DoneFor
<1> QED BY <1>1, <1>3 DEF Tally

\* What a task that moves asks for is still not there.
LEMMA LacksKept ==
  ASSUME IInv, NEW r \in Requests, NEW i \in DOMAIN handler[r].tasks,
         NEW stage \in {"find", "fetch", "save", "done", "failed"},
         handler[r].step = "prices",
         NEW g, g.step = "prices", g.dto = handler[r].dto,
         g.tasks = [handler[r].tasks EXCEPT ![i] = stage],
         stage = "fetch" => tokens[ChainOf(r, i)] = 0
  PROVE  Lacks(g, tagRows, tokens, doubled)
<1>1. PICK h : h = handler[r] /\ Lacks(h, tagRows, tokens, doubled) /\ h.step = "prices"
  BY Handled
<1>2. TagsOf(g) = TagsOf(h) /\ PricesOf(g) = PricesOf(h)
  BY <1>1 DEF TagsOf, PricesOf
<1>3. \A j \in DOMAIN TagsOf(g), t \in tagRows :
        TagsOf(g)[j] \notin doubled => t.name # TagsOf(g)[j]
  BY <1>1, <1>2 DEF Lacks
<1>4. ASSUME NEW j \in DOMAIN g.tasks, g.tasks[j] = "fetch", PricesOf(g)[j] \notin doubled
      PROVE  tokens[PricesOf(g)[j]] = 0
  <2>1. CASE j = i
    <3>1. PricesOf(h)[i] = ChainOf(r, i)
      <4>1. Knows(h) /\ h \in Locals
        BY <1>1, Handled
      <4>2. i \in DOMAIN PricesOf(h)
        BY <1>1, <4>1 DEF Knows
      <4> QED BY <1>1, <4>2 DEF PricesOf, Given2, ChainOf
    <3> QED BY <1>1, <1>2, <1>4, <2>1, <3>1
  <2>2. CASE j # i
    BY <1>1, <1>2, <1>4, <2>2 DEF Lacks
  <2> QED BY <2>1, <2>2
<1> QED BY <1>3, <1>4 DEF Lacks

\* A task is looked for, refused or fails.
LEMMA TaskStep ==
  ASSUME IInv, NEW r \in Requests, NEW i \in DOMAIN handler[r].tasks,
         NEW old \in {"find", "fetch", "save"}, Task(r, i, old),
         NEW stage \in {"fetch", "save", "failed"}, Becomes(r, i, stage),
         stage = "fetch" => tokens[ChainOf(r, i)] = 0,
         UNCHANGED <<row, tables, sends, history>>
  PROVE  IInv'
<1> DEFINE h == handler[r]
<1>1. h \in Locals /\ h = handler[r]
  BY Handled
<1>2. /\ h.step = "prices" /\ h.tasks[i] = old /\ Tally(h, prices)
      /\ Live /\ ~h.creates /\ ~h.overlapped => StillSo(h, row, OfGame)
  BY <1>1, Handled DEF Task, At
<1>3. PICK g \in Locals : IsMoved(r, i, stage, g)
  <2>1. stage \in {"find", "fetch", "save", "done", "failed"}
    OBVIOUS
  <2> QED BY <1>2, <2>1, Moved
<1>4. Tally(g, prices)
  <2>1. i \in DOMAIN h.tasks /\ h.tasks[i] # "done" /\ stage # "done"
    BY <1>1, <1>2
  <2> QED BY <1>2, <1>3, <2>1, TallyKept DEF IsMoved
<1>5. Lacks(g, tagRows, tokens, doubled)
  <2>1. stage \in {"find", "fetch", "save", "done", "failed"}
    OBVIOUS
  <2> QED BY <1>1, <1>2, <1>3, <2>1, LacksKept DEF IsMoved
<1>6. Live /\ ~h.creates /\ ~h.overlapped => StillSo(g, row, OfGame)
  BY <1>2, <1>3 DEF IsMoved, StillSo, Wanted
<1> QED BY <1>1, <1>3, <1>4, <1>5, <1>6, QuietStep DEF IsMoved

LEMMA FindTokenStep ==
  ASSUME IInv, NEW r \in Requests, NEW i \in DOMAIN handler[r].tasks, FindToken(r, i)
  PROVE  IInv'
<1>1. handler[r].step = "prices" /\ handler[r] \in Locals /\ Knows(handler[r])
  BY Handled DEF FindToken, Task, At
<1>2. ChainOf(r, i) \in Chains
  <2>1. handler[r].dto \in Pending /\ i \in DOMAIN PricesOf(handler[r])
    BY <1>1, Handled DEF Knows
  <2>2. ChainOf(r, i) = PricesOf(handler[r])[i]
    BY <2>1 DEF PricesOf, Given2, ChainOf
  <2> QED BY <2>1, <2>2, GivenIs DEF PricesOf
<1>3. tokens[ChainOf(r, i)] \in 0 .. MaxRows
  BY <1>2 DEF IInv, TypeOK
<1>4. PICK stage \in {"fetch", "save"} :
        Becomes(r, i, stage) /\ (stage = "fetch" => ~(tokens[ChainOf(r, i)] > 0))
  BY DEF FindToken
<1>5. stage = "fetch" => tokens[ChainOf(r, i)] = 0
  BY <1>3, <1>4, RowBound
<1>6. Task(r, i, "find") /\ UNCHANGED <<row, tables, sends, history>>
  BY DEF FindToken
<1> QED BY <1>4, <1>5, <1>6, TaskStep

LEMMA RefuseTokenStep ==
  ASSUME IInv, NEW r \in Requests, NEW i \in DOMAIN handler[r].tasks, RefuseToken(r, i)
  PROVE  IInv'
<1>1. /\ Task(r, i, "fetch") /\ Becomes(r, i, "failed")
      /\ UNCHANGED <<row, tables, sends, history>>
  BY DEF RefuseToken
<1> QED BY <1>1, TaskStep

LEMMA FailStep ==
  ASSUME IInv, NEW r \in Requests, Fail(r)
  PROVE  IInv'
<1>1. UNCHANGED <<row, tables, sends, history>>
  BY DEF Fail
<1>2. CASE At(r, "write") /\ Return(r)
  BY <1>1, <1>2, Returns DEF At
<1>3. ASSUME NEW i \in DOMAIN handler[r].tasks, Task(r, i, "save"), Becomes(r, i, "failed")
      PROVE  IInv'
  BY <1>1, <1>3, TaskStep
<1> QED BY <1>2, <1>3 DEF Fail

LEMMA PricesDoneStep ==
  ASSUME IInv, NEW r \in Requests, PricesDone(r)
  PROVE  IInv'
<1> DEFINE stages == {handler[r].tasks[i] : i \in DOMAIN handler[r].tasks}
<1>1. PICK h \in Locals : h = handler[r]
  BY Handled
<1>2. /\ h.step = "prices" /\ h.dto \in Pending /\ Knows(h) /\ Tally(h, prices)
      /\ Lacks(h, tagRows, tokens, doubled)
      /\ Live /\ ~h.creates /\ ~h.overlapped => StillSo(h, row, OfGame)
  BY <1>1, Handled DEF PricesDone, At
<1>3. UNCHANGED <<row, tables, sends, history>> /\ stages \subseteq {"done", "failed"}
  BY DEF PricesDone
<1>4. CASE Return(r)
  BY <1>1, <1>2, <1>3, <1>4, Returns
<1>5. ASSUME "failed" \notin stages,
             handler' = [handler EXCEPT ![r].step =
                           IF handler[r].creates THEN "write" ELSE "select"]
      PROVE  IInv'
  <2>1. \A i \in DOMAIN h.tasks : h.tasks[i] = "done"
    BY <1>1, <1>3, <1>5
  <2>2. PICK g : g = [h EXCEPT !.step = IF h.creates THEN "write" ELSE "select"]
    OBVIOUS
  <2>3. /\ g \in Locals /\ g.step = (IF h.creates THEN "write" ELSE "select")
        /\ g.dto = h.dto /\ g.creates = h.creates
        /\ g.overlapped = h.overlapped /\ g.asked = h.asked /\ g.made = h.made
        /\ g.tasks = h.tasks /\ g.unsell = h.unsell
    BY <2>2 DEF Locals
  <2>4. handler' = [handler EXCEPT ![r] = g]
    <3>1. handler \in [Requests -> Locals]
      BY DEF IInv, TypeOK
    <3> QED BY <1>1, <1>5, <2>2, <3>1 DEF Locals
  <2>5. TagsOf(g) = TagsOf(h) /\ PricesOf(g) = PricesOf(h) /\ Keys(g.dto) = Keys(h.dto)
    BY <2>3 DEF TagsOf, PricesOf, Keys
  <2>6. Knows(g)
    BY <1>2, <2>1, <2>3, <2>5 DEF Knows
  <2>7. Narrowed(g, h)
    BY <1>2, <2>3, <2>5 DEF Narrowed
  <2>8. Lacks(g, tagRows, tokens, doubled)
    BY <1>2, <2>3, <2>5 DEF Lacks
  <2>9. Tally(g, prices)
    BY <1>2, <2>3, <2>5 DEF Tally, Made, DoneFor
  <2>10. Live /\ ~h.creates /\ ~h.overlapped => StillSo(g, row, OfGame)
    BY <1>2, <2>3 DEF StillSo, Wanted
  <2> QED BY <1>1, <1>3, <2>3, <2>4, <2>6, <2>7, <2>8, <2>9, <2>10, QuietStep
<1> QED BY <1>4, <1>5 DEF PricesDone

LEMMA SelectStep ==
  ASSUME IInv, NEW r \in Requests, Select(r)
  PROVE  IInv'
<1>1. PICK h \in Locals : h = handler[r]
  BY Handled
<1>2. /\ h.step = "select" /\ h.dto \in Pending /\ Knows(h) /\ Tally(h, prices)
      /\ Lacks(h, tagRows, tokens, doubled) /\ ~h.creates /\ row # None
      /\ Live /\ ~h.overlapped => StillSo(h, row, OfGame)
  BY <1>1, Handled DEF Select, At, Knows
<1>3. UNCHANGED <<row, tables, sends, history>>
  BY DEF Select
<1>4. CASE row = Gone
  BY <1>1, <1>2, <1>3, <1>4, Returns DEF Select
<1>5. CASE row # Gone
  <2>1. row \in Row
    BY <1>2, <1>5 DEF IInv, TypeOK
  <2>2. OfGame \subseteq Ids
    BY DEF IInv, TypeOK, OfGame, PriceRow
  <2>3. PICK mode, donation, found, unlink, unsell :
          /\ mode     = IF h.dto.mode = row.mode THEN "absent" ELSE h.dto.mode
          /\ donation = IF h.dto.donation = row.donation THEN "absent" ELSE h.dto.donation
          /\ found    = h.found \ row.tags
          /\ unlink   = IF h.dto.tags = None THEN {} ELSE row.tags \ h.found
          /\ unsell   = IF h.dto.prices = None THEN {} ELSE OfGame
    OBVIOUS
  <2>4. PICK dto : dto = [h.dto EXCEPT !.mode = mode, !.donation = donation]
    OBVIOUS
  <2>5. /\ dto \in Pending /\ dto.mode = mode /\ dto.donation = donation
        /\ dto.tags = h.dto.tags /\ dto.prices = h.dto.prices
    <3>1. mode \in Modes \cup {"absent"} /\ donation \in Given
      BY <1>2, <2>3 DEF Pending, Given
    <3> QED BY <1>2, <2>4, <3>1 DEF Pending
  <2>6. PICK g : g = [h EXCEPT !.step = "write", !.dto = dto, !.found = found,
                               !.unlink = unlink, !.unsell = unsell]
    OBVIOUS
  <2>7. /\ g \in Locals /\ g.step = "write" /\ g.dto = dto /\ g.creates = h.creates
        /\ g.overlapped = h.overlapped /\ g.asked = h.asked /\ g.made = h.made
        /\ g.tasks = h.tasks /\ g.unsell = unsell
    <3>1. found \in SUBSET Ids /\ unlink \in SUBSET Ids /\ unsell \in SUBSET Ids
      BY <2>1, <2>2, <2>3 DEF Row, Locals
    <3> QED BY <2>5, <2>6, <3>1 DEF Locals
  <2>8. handler' = [handler EXCEPT ![r] = g]
    <3>1. handler \in [Requests -> Locals]
      BY DEF IInv, TypeOK
    <3>2. handler' = [handler EXCEPT ![r].step = "write", ![r].dto = dto,
             ![r].found = found, ![r].unlink = unlink, ![r].unsell = unsell]
      <4>1. handler' = [handler EXCEPT ![r].step = "write",
              ![r].dto    = [handler[r].dto EXCEPT
                              !.mode = IF handler[r].dto.mode = row.mode THEN "absent"
                                       ELSE handler[r].dto.mode,
                              !.donation = IF handler[r].dto.donation = row.donation THEN "absent"
                                           ELSE handler[r].dto.donation],
              ![r].found  = handler[r].found \ row.tags,
              ![r].unlink = IF handler[r].dto.tags = None THEN {}
                            ELSE row.tags \ handler[r].found,
              ![r].unsell = IF handler[r].dto.prices = None THEN {} ELSE OfGame]
        BY <1>1, <1>5, <3>1 DEF Select, Locals
      <4> QED BY <1>1, <2>3, <2>4, <4>1
    <3> QED BY <1>1, <2>6, <3>1, <3>2
  <2>9. TagsOf(g) = TagsOf(h) /\ PricesOf(g) = PricesOf(h) /\ Keys(g.dto) = Keys(h.dto)
    BY <2>5, <2>7 DEF TagsOf, PricesOf, Keys
  <2>10. Knows(g)
    <3>1. /\ dto.donation # "invalid"
          /\ dto.mode = "DISABLE_PAYMENTS" => dto.donation \in {"null", "absent"}
      BY <1>2, <2>3, <2>5 DEF Knows
    <3>2. h.dto.prices = None => unsell = {}
      BY <2>3
    <3> QED BY <1>2, <2>5, <2>7, <2>9, <3>1, <3>2 DEF Knows
  <2>11. Narrowed(g, h)
    BY <1>2, <2>7, <2>9 DEF Narrowed
  <2>12. Lacks(g, tagRows, tokens, doubled)
    BY <1>2, <2>7, <2>9 DEF Lacks
  <2>13. Tally(g, prices)
    BY <1>2, <2>7, <2>9 DEF Tally, Made, DoneFor
  <2>14. ASSUME Live, ~h.overlapped PROVE StillSo(g, row, OfGame)
    <3>1. /\ h.dto.mode = Wanted(h, row) /\ h.dto.mode # "absent"
          /\ h.dto.mode = "DISABLE_PAYMENTS" => h.dto.donation = "null"
      BY <1>2, <2>14 DEF StillSo, Knows
    <3>2. Wanted(g, row) = Wanted(h, row)
      BY <2>7 DEF Wanted
    <3>3. ModeAfter(g, row) = h.dto.mode
      BY <2>3, <2>5, <2>7, <3>1 DEF ModeAfter
    <3>4. h.dto.donation # "absent" => DonationAfter(g, row) = h.dto.donation
      BY <2>3, <2>5, <2>7 DEF DonationAfter
    <3>5. dto.prices # None => unsell = OfGame
      BY <2>3, <2>5
    <3> QED BY <2>7, <3>1, <3>2, <3>3, <3>4, <3>5 DEF StillSo, Empty
  <2> QED BY <1>1, <1>2, <1>3, <2>7, <2>8, <2>10, <2>11, <2>12, <2>13, <2>14, QuietStep
<1> QED BY <1>4, <1>5

-----------------------------------------------------------------------------
(* Tokens and tags are inserted. *)

\* The chain of a task is one of the request's keys.
LEMMA TaskChain ==
  ASSUME IInv, NEW r \in Requests, NEW i \in DOMAIN handler[r].tasks,
         handler[r].step = "prices"
  PROVE  /\ DOMAIN handler[r].tasks = DOMAIN PricesOf(handler[r])
         /\ ChainOf(r, i) = PricesOf(handler[r])[i]
         /\ ChainOf(r, i) \in Chains /\ ChainOf(r, i) \in Keys(handler[r].dto)
<1>1. handler[r].dto \in Pending /\ Knows(handler[r])
  BY Handled
<1>2. DOMAIN handler[r].tasks = DOMAIN PricesOf(handler[r])
  BY <1>1 DEF Knows
<1>3. ChainOf(r, i) = PricesOf(handler[r])[i]
  BY <1>2 DEF PricesOf, Given2, ChainOf
<1>4. PricesOf(handler[r])[i] \in Chains
  BY <1>1, <1>2, GivenIs DEF PricesOf
<1> QED BY <1>2, <1>3, <1>4, KeysHold

LEMMA SaveTokenStep ==
  ASSUME IInv, NEW r \in Requests, NEW i \in DOMAIN handler[r].tasks, SaveToken(r, i)
  PROVE  IInv'
<1> DEFINE h == handler[r]
<1>1. /\ h.step = "prices" /\ h.tasks[i] = "fetch" /\ h \in Locals /\ Tally(h, prices)
      /\ Lacks(h, tagRows, tokens, doubled)
      /\ Live /\ ~h.creates /\ ~h.overlapped => StillSo(h, row, OfGame)
  BY Handled DEF SaveToken, Task, At
<1>2. PICK g \in Locals : IsMoved(r, i, "save", g)
  BY <1>1, Moved DEF SaveToken
<1>3. PICK c \in Chains :
        /\ c = ChainOf(r, i) /\ c = PricesOf(h)[i] /\ c \in Keys(h.dto)
        /\ DOMAIN h.tasks = DOMAIN PricesOf(h)
  BY <1>1, TaskChain
<1>4. /\ tokens[c] < MaxRows /\ tokens' = [tokens EXCEPT ![c] = @ + 1]
      /\ UNCHANGED <<row, tagRows, prices, lastPrice, sends, dirty, doubled, sold, soldTwice>>
  BY <1>3 DEF SaveToken, history
<1>5. tokens \in [Chains -> 0 .. MaxRows] /\ MaxRows \in Nat /\ handler \in [Requests -> Locals]
  BY RowBound DEF IInv, TypeOK
<1>6. handler'[r] = g /\ \A q \in Requests : q # r => handler'[q] = handler[q]
  BY <1>2, <1>5 DEF IsMoved
<1>7. TypeOK'
  <2>1. tokens' \in [Chains -> 0 .. MaxRows]
    BY <1>4, <1>5
  <2>2. handler' \in [Requests -> Locals]
    BY <1>2, <1>5 DEF IsMoved
  <2> QED BY <1>4, <2>1, <2>2 DEF IInv, TypeOK
<1>8. c \notin doubled => tokens[c] = 0
  BY <1>1, <1>3 DEF Lacks
<1>9. OneRowEach'
  <2>1. ASSUME NEW d \in Chains \ doubled PROVE tokens'[d] <= 1
    BY <1>4, <1>5, <1>8 DEF IInv, OneRowEach
  <2> QED BY <1>4, <2>1 DEF IInv, OneRowEach
<1>10. TagsOf(g) = TagsOf(h) /\ PricesOf(g) = PricesOf(h)
  BY <1>2 DEF IsMoved, TagsOf, PricesOf
<1>11. Lacks(g, tagRows', tokens', doubled)
  <2>1. \A j \in DOMAIN TagsOf(g), t \in tagRows' :
          TagsOf(g)[j] \notin doubled => t.name # TagsOf(g)[j]
    BY <1>1, <1>4, <1>10 DEF Lacks
  <2>2. ASSUME NEW j \in DOMAIN g.tasks, g.tasks[j] = "fetch", PricesOf(g)[j] \notin doubled
        PROVE  tokens'[PricesOf(g)[j]] = 0
    <3>1. j # i /\ j \in DOMAIN h.tasks /\ h.tasks[j] = "fetch"
      BY <1>2, <2>2 DEF IsMoved
    <3>2. tokens[PricesOf(h)[j]] = 0
      BY <1>1, <1>10, <2>2, <3>1 DEF Lacks
    <3>3. Twice(PricesOf(h)) \subseteq doubled
      BY <1>1 DEF IInv, KeysApart, Busy
    <3>4. PricesOf(h)[j] # c
      BY <1>3, <1>10, <2>2, <3>1, <3>3 DEF Twice
    <3>5. PricesOf(h)[j] \in Chains
      BY <1>1, <1>3, <3>1, Handled, GivenIs DEF PricesOf
    <3> QED BY <1>4, <1>5, <1>10, <3>2, <3>4, <3>5
  <2> QED BY <1>2, <2>1, <2>2 DEF Lacks, IsMoved
<1>12. Tally(g, prices)
  BY <1>1, <1>2, TallyKept DEF IsMoved
<1>13. Live /\ ~h.creates /\ ~h.overlapped => StillSo(g, row, OfGame)
  BY <1>1, <1>2 DEF IsMoved, StillSo, Wanted
<1>14. \A d \in Chains : tokens'[d] = tokens[d] \/ d \in Keys(h.dto)
  BY <1>3, <1>4, <1>5
<1>15. Alone(r) /\ Knows(g) /\ g.made \subseteq h.made
  BY <1>2, <1>6 DEF Alone, IsMoved
<1> QED BY <1>4, <1>6, <1>7, <1>9, <1>11, <1>12, <1>13, <1>14, <1>15, AloneStep

\* The rows of new tags have their names, in their order.
LEMMA NewTags ==
  ASSUME NEW f \in SomeOf2(Tags), {t.id : t \in InsertTags(f)} \subseteq Ids
  PROVE  /\ InsertTags(f) \subseteq TagRow
         /\ \A t \in InsertTags(f) : \E i \in DOMAIN f : t.name = f[i]
         /\ \A s, t \in InsertTags(f) : s.name = t.name /\ s.name \notin Twice(f) => s = t
<1> DEFINE id(i) == Cardinality(tagRows) + Cardinality({j \in DOMAIN f : j <= i})
<1>1. \A t \in InsertTags(f) : \E i \in DOMAIN f : t = [id |-> id(i), name |-> f[i]]
  BY DEF InsertTags
<1> HIDE DEF id
<1>2. \A i \in DOMAIN f : f[i] \in Tags
  BY SomeOf2Is
<1>3. InsertTags(f) \subseteq TagRow
  <2>1. SUFFICES ASSUME NEW t \in InsertTags(f) PROVE t \in TagRow
    OBVIOUS
  <2>2. t.id \in Ids
    BY <2>1
  <2> QED BY <1>1, <1>2, <2>1, <2>2 DEF TagRow
<1>4. \A t \in InsertTags(f) : \E i \in DOMAIN f : t.name = f[i]
  BY <1>1
<1>5. ASSUME NEW s \in InsertTags(f), NEW t \in InsertTags(f), s.name = t.name, s.name \notin Twice(f)
      PROVE  s = t
  <2>1. PICK i \in DOMAIN f : s = [id |-> id(i), name |-> f[i]]
    BY <1>1
  <2>2. PICK j \in DOMAIN f : t = [id |-> id(j), name |-> f[j]]
    BY <1>1
  <2>3. f[i] = f[j]
    BY <1>5, <2>1, <2>2
  <2>4. i = j
    BY <1>5, <2>1, <2>3 DEF Twice
  <2> QED BY <2>1, <2>2, <2>4
<1> QED BY <1>3, <1>4, <1>5

\* A request that lacks the tags f, and inserts them, leaves one row of each.
LEMMA TagsInserted ==
  ASSUME TypeOK, OneRowEach, NEW f \in SomeOf2(Tags),
         {t.id : t \in InsertTags(f)} \subseteq Ids,
         Twice(f) \subseteq doubled,
         \A i \in DOMAIN f, t \in tagRows : f[i] \notin doubled => t.name # f[i],
         tagRows' = tagRows \cup InsertTags(f), UNCHANGED <<tokens, doubled>>
  PROVE  /\ tagRows' \subseteq TagRow /\ OneRowEach'
         /\ \A t \in tagRows' : t \in tagRows \/ \E i \in DOMAIN f : t.name = f[i]
<1>1. /\ InsertTags(f) \subseteq TagRow
      /\ \A t \in InsertTags(f) : \E i \in DOMAIN f : t.name = f[i]
      /\ \A s, t \in InsertTags(f) : s.name = t.name /\ s.name \notin Twice(f) => s = t
  BY NewTags
<1>2. tagRows' \subseteq TagRow
  BY <1>1 DEF TypeOK
<1>3. \A t \in tagRows' : t \in tagRows \/ \E i \in DOMAIN f : t.name = f[i]
  BY <1>1
<1>4. ASSUME NEW s \in tagRows', NEW t \in tagRows', s.name = t.name, s.name \notin doubled
      PROVE  s = t
  <2>1. CASE s \in tagRows /\ t \in tagRows
    BY <1>4, <2>1 DEF OneRowEach
  <2>2. CASE s \in InsertTags(f) /\ t \in InsertTags(f)
    BY <1>1, <1>4, <2>2
  <2>3. CASE s \in tagRows /\ t \in InsertTags(f)
    BY <1>1, <1>4, <2>3
  <2>4. CASE s \in InsertTags(f) /\ t \in tagRows
    BY <1>1, <1>4, <2>4
  <2> QED BY <1>4, <2>1, <2>2, <2>3, <2>4
<1>5. \A c \in Chains \ doubled' : tokens'[c] <= 1
  BY DEF OneRowEach
<1>6. OneRowEach'
  <2>1. \A s, t \in tagRows' : s.name = t.name /\ s.name \notin doubled' => s = t
    BY <1>4
  <2> QED BY <1>5, <2>1 DEF OneRowEach
<1> QED BY <1>2, <1>3, <1>6

LEMMA SaveTagStep ==
  ASSUME IInv, NEW r \in Requests, SaveTag(r)
  PROVE  IInv'
<1> DEFINE h == handler[r]
<1>1. /\ h.step = "patch" /\ h \in Locals /\ h.dto \in Pending /\ Knows(h)
      /\ Lacks(h, tagRows, tokens, doubled)
  BY Handled DEF SaveTag, At
<1>2. /\ UNCHANGED <<row, tokens, prices, lastPrice, sends, dirty, doubled, sold, soldTwice>>
      /\ handler' = [handler EXCEPT ![r] = Idle]
  BY DEF SaveTag, Return, history
<1>3. handler \in [Requests -> Locals]
  BY DEF IInv, TypeOK
<1>4. handler'[r] = Idle /\ \A q \in Requests : q # r => handler'[q] = handler[q]
  BY <1>2, <1>3
<1>5. /\ tagRows' \subseteq TagRow /\ OneRowEach'
      /\ \A t \in tagRows' : t \in tagRows \/ t.name \in Keys(h.dto)
  <2>1. CASE h.found # {}
    <3>1. tagRows' = tagRows
      BY <2>1 DEF SaveTag
    <3> QED BY <1>2, <3>1 DEF IInv, TypeOK, OneRowEach
  <2>2. CASE h.found = {}
    <3>1. PICK f : f = TagsOf(h)
      OBVIOUS
    <3>2. /\ tagRows' = tagRows \cup InsertTags(f)
          /\ {t.id : t \in InsertTags(f)} \subseteq Ids
      BY <2>2, <3>1 DEF SaveTag, TagsOf
    <3>3. f \in SomeOf2(Tags)
      BY <1>1, <3>1, GivenIs DEF TagsOf
    <3>4. Twice(f) \subseteq doubled
      BY <1>1, <3>1 DEF IInv, KeysApart, Busy
    <3>5. \A i \in DOMAIN f, t \in tagRows : f[i] \notin doubled => t.name # f[i]
      BY <1>1, <2>2, <3>1 DEF Lacks
    <3>6. \A i \in DOMAIN f : f[i] \in Keys(h.dto)
      BY <3>1, KeysHold
    <3>7. TypeOK /\ OneRowEach
      BY DEF IInv
    <3> QED BY <1>2, <3>2, <3>3, <3>4, <3>5, <3>6, <3>7, TagsInserted
  <2> QED BY <2>1, <2>2
<1>6. TypeOK'
  <2>1. handler' \in [Requests -> Locals]
    BY <1>2, <1>3, IdleLocals
  <2> QED BY <1>2, <1>5, <2>1 DEF IInv, TypeOK
<1>7. Alone(r) /\ Idle.made \subseteq h.made /\ Idle.step = "idle"
  BY <1>1, <1>4, NarrowToIdle DEF Alone
<1> QED BY <1>2, <1>4, <1>5, <1>6, <1>7, IdleLocals, AloneStep

-----------------------------------------------------------------------------
(* Prices are inserted. *)

LEMMA DoneIsFinite ==
  ASSUME NEW h \in Locals, NEW c
  PROVE  IsFiniteSet(DoneFor(h, c))
<1>1. DOMAIN h.tasks \subseteq 1 .. 2
  <2>1. h.tasks \in UpTo2({"find", "fetch", "save", "done", "failed"})
    BY DEF Locals
  <2> QED BY <2>1, UpTo2IsSome
<1>2. IsFiniteSet(1 .. 2)
  <2>1. 1 \in Int /\ 2 \in Int
    OBVIOUS
  <2> QED BY <2>1, FS_Interval
<1>3. DoneFor(h, c) \in SUBSET (1 .. 2)
  BY <1>1 DEF DoneFor
<1> QED BY <1>2, <1>3, FS_Subset

LEMMA MadeIsFinite ==
  ASSUME NEW h, NEW P, IsFiniteSet(P), NEW c
  PROVE  IsFiniteSet(Made(h, P, c))
<1>1. Made(h, P, c) \in SUBSET P
  BY DEF Made
<1> QED BY <1>1, FS_Subset

\* A task that is done and the price it saved.
LEMMA TallyGrows ==
  ASSUME NEW h \in Locals, NEW g, NEW P, NEW p, NEW i \in DOMAIN h.tasks,
         IsFiniteSet(P), Tally(h, P), h.tasks[i] # "done", g.dto = h.dto,
         g.tasks = [h.tasks EXCEPT ![i] = "done"], g.made = h.made \cup {p.id},
         p.chain = PricesOf(h)[i], p \notin P,
         p.id \notin h.made, \A q \in P : q.id # p.id
  PROVE  Tally(g, P \cup {p})
<1>1. SUFFICES ASSUME NEW c \in Chains
               PROVE  Cardinality(Made(g, P \cup {p}, c)) = Cardinality(DoneFor(g, c))
  BY DEF Tally
<1>2. /\ IsFiniteSet(Made(h, P, c)) /\ IsFiniteSet(DoneFor(h, c))
      /\ Cardinality(Made(h, P, c)) = Cardinality(DoneFor(h, c))
  BY MadeIsFinite, DoneIsFinite DEF Tally
<1>3. PricesOf(g) = PricesOf(h) /\ DOMAIN g.tasks = DOMAIN h.tasks
  BY DEF PricesOf
<1>4. CASE p.chain = c
  <2>1. Made(g, P \cup {p}, c) = Made(h, P, c) \cup {p}
    BY <1>4 DEF Made
  <2>2. DoneFor(g, c) = DoneFor(h, c) \cup {i}
    BY <1>3, <1>4 DEF DoneFor
  <2>3. p \notin Made(h, P, c) /\ i \notin DoneFor(h, c)
    BY DEF Made, DoneFor
  <2>4. Cardinality(Made(h, P, c) \cup {p}) = Cardinality(Made(h, P, c)) + 1
    BY <1>2, <2>3, FS_AddElement
  <2>5. Cardinality(DoneFor(h, c) \cup {i}) = Cardinality(DoneFor(h, c)) + 1
    BY <1>2, <2>3, FS_AddElement
  <2> QED BY <1>2, <2>1, <2>2, <2>4, <2>5
<1>5. CASE p.chain # c
  <2>1. Made(g, P \cup {p}, c) = Made(h, P, c)
    BY <1>5 DEF Made
  <2>2. DoneFor(g, c) = DoneFor(h, c)
    BY <1>3, <1>5 DEF DoneFor
  <2> QED BY <1>2, <2>1, <2>2
<1> QED BY <1>4, <1>5

LEMMA SavePriceStep ==
  ASSUME IInv, NEW r \in Requests, NEW i \in DOMAIN handler[r].tasks, SavePrice(r, i)
  PROVE  IInv'
<1> DEFINE h == handler[r]
<1>1. /\ h.step = "prices" /\ h.tasks[i] = "save" /\ h \in Locals /\ Knows(h)
      /\ Tally(h, prices) /\ Lacks(h, tagRows, tokens, doubled) /\ r \in Changing
      /\ Live /\ ~h.creates /\ ~h.overlapped => StillSo(h, row, OfGame)
  BY Handled DEF SavePrice, Task, At, Changing, Busy
<1>2. PICK id, c : id = lastPrice + 1 /\ c = ChainOf(r, i)
  OBVIOUS
<1>3. /\ c \in Chains /\ c = PricesOf(h)[i]
  BY <1>1, <1>2, TaskChain
<1>4. PICK p : p = [id |-> id, chain |-> c, ofGame |-> FALSE]
  OBVIOUS
<1>5. /\ id \in Ids /\ lastPrice' = id /\ prices' = prices \cup {p}
      /\ handler' = [handler EXCEPT ![r].tasks[i] = "done", ![r].made = @ \cup {id}]
      /\ UNCHANGED <<row, tagRows, tokens, sends, dirty, doubled, sold, soldTwice>>
  BY <1>2, <1>4 DEF SavePrice, history
<1>6. PICK tasks : tasks = [h.tasks EXCEPT ![i] = "done"]
  OBVIOUS
<1>7. tasks \in UpTo2({"find", "fetch", "save", "done", "failed"}) /\ DOMAIN tasks = DOMAIN h.tasks
  BY <1>1, <1>6, TaskMoved DEF Locals
<1>8. PICK g : g = [h EXCEPT !.tasks = tasks, !.made = h.made \cup {id}]
  OBVIOUS
<1>9. /\ g \in Locals /\ g.step = "prices" /\ g.dto = h.dto /\ g.creates = h.creates
      /\ g.overlapped = h.overlapped /\ g.asked = h.asked
      /\ g.made = h.made \cup {id} /\ g.unsell = h.unsell /\ g.tasks = tasks
  BY <1>1, <1>5, <1>7, <1>8 DEF Locals
<1>10. handler \in [Requests -> Locals] /\ lastPrice \in Nat /\ prices \subseteq PriceRow
  BY RowBound DEF IInv, TypeOK
<1>11. handler' = [handler EXCEPT ![r] = g]
  BY <1>1, <1>5, <1>6, <1>8, <1>10 DEF Locals
<1> HIDE DEF h
<1>12. handler'[r] = g /\ \A q \in Requests : q # r => handler'[q] = handler[q]
  BY <1>10, <1>11
<1>13. TagsOf(g) = TagsOf(h) /\ PricesOf(g) = PricesOf(h) /\ Keys(g.dto) = Keys(h.dto)
  BY <1>9 DEF TagsOf, PricesOf, Keys
<1>14. h = handler[r]
  BY DEF h
<1>15. Knows(g)
  BY <1>1, <1>7, <1>9, <1>13 DEF Knows
<1>16. Alone(r)
  BY <1>1, <1>9, <1>12, <1>13, <1>14 DEF Alone, Narrowed
<1>17. TypeOK'
  <2>1. p \in PriceRow
    BY <1>3, <1>4, <1>5 DEF PriceRow
  <2>2. handler' \in [Requests -> Locals]
    BY <1>9, <1>10, <1>11
  <2>3. prices' \subseteq PriceRow
    BY <1>5, <1>10, <2>1
  <2>4. lastPrice' \in 0 .. MaxRows
    BY <1>5, RowBound DEF Ids
  <2>5. TypeOK
    BY DEF IInv
  <2> QED BY <1>5, <2>2, <2>3, <2>4, <2>5 DEF TypeOK
<1>18. /\ Busy' \subseteq Busy /\ Changing' \subseteq Changing
       /\ RequestsKnow' /\ Apart' /\ KeysApart'
  BY <1>5, <1>12, <1>15, <1>16, AloneKeeps
<1>19. Missing'
  <2>1. Lacks(g, tagRows, tokens, doubled)
    <3>1. \A j \in DOMAIN g.tasks : g.tasks[j] = "fetch" => j \in DOMAIN h.tasks /\ h.tasks[j] = "fetch"
      BY <1>6, <1>9
    <3> QED BY <1>1, <1>9, <1>13, <3>1 DEF Lacks
  <2>2. UNCHANGED <<tagRows, tokens, doubled, row>>
    BY <1>5
  <2> QED BY <1>12, <1>15, <1>16, <2>1, <2>2, MissingKept
<1>20. OneRowEach'
  BY <1>5 DEF IInv, OneRowEach
<1>21. OfGame' = OfGame /\ (Live' <=> Live)
  BY <1>4, <1>5 DEF OfGame, Live
<1>22. NothingStale'
  <2>1. ASSUME NEW q \in Changing', Live, ~handler'[q].creates, ~handler'[q].overlapped
        PROVE  StillSo(handler'[q], row, OfGame)
    <3>1. CASE q = r
      BY <1>1, <1>9, <1>12, <2>1, <3>1 DEF StillSo, Wanted
    <3>2. CASE q # r
      BY <1>12, <1>18, <2>1, <3>2 DEF IInv, NothingStale, Changing, Busy
    <3> QED BY <3>1, <3>2
  <2>2. row' = row
    BY <1>5
  <2> QED BY <1>21, <2>1, <2>2 DEF NothingStale
<1>23. PricesKeyed /\ \A q \in prices : q.id \in Nat
  BY <1>10 DEF IInv, PriceRow, Ids
<1>24. \A q \in prices : q.id # id
  BY <1>2, <1>10, <1>23 DEF PricesKeyed
<1>25. \A q \in Requests : id \notin handler[q].made
  BY <1>2, <1>10, <1>23 DEF PricesKeyed, OwnPrices
<1>26. PricesKeyed'
  <2>1. IsFiniteSet(prices')
    BY <1>5, <1>23, FS_AddElement DEF PricesKeyed
  <2>2. \A q \in prices' : q.id <= lastPrice'
    BY <1>2, <1>4, <1>5, <1>10, <1>23 DEF PricesKeyed
  <2>3. row' = None => sold' = <<>> /\ \A q \in prices' : ~q.ofGame
    BY <1>4, <1>5, <1>23 DEF PricesKeyed
  <2>4. \A q \in Requests : OwnPrices(handler'[q], prices', lastPrice')
    <3>1. ASSUME NEW q \in Requests, NEW j \in handler'[q].made PROVE j <= lastPrice'
      <4>1. j \in handler[q].made \/ j = id
        BY <1>9, <1>12, <1>14, <3>1
      <4>2. j \in handler[q].made => j <= lastPrice /\ j \in Nat
        BY <1>10, <1>23 DEF PricesKeyed, OwnPrices, Locals, Ids
      <4> QED BY <1>2, <1>5, <1>10, <4>1, <4>2
    <3>2. ASSUME NEW q \in Requests, NEW s \in prices', s.id \in handler'[q].made
          PROVE  ~s.ofGame
      <4>1. CASE s = p
        BY <1>4, <4>1
      <4>2. CASE s # p
        <5>1. s \in prices /\ s.id # id
          BY <1>5, <1>24, <3>2, <4>2
        <5>2. s.id \in handler[q].made
          BY <1>9, <1>12, <1>14, <3>2, <5>1
        <5> QED BY <1>23, <5>1, <5>2 DEF PricesKeyed, OwnPrices
      <4> QED BY <4>1, <4>2
    <3> QED BY <3>1, <3>2 DEF OwnPrices
  <2>5. \A q, s \in Requests : q # s => handler'[q].made \cap handler'[s].made = {}
    BY <1>9, <1>12, <1>14, <1>23, <1>25 DEF PricesKeyed
  <2> QED BY <2>1, <2>2, <2>3, <2>4, <2>5 DEF PricesKeyed
<1>27. Counted'
  <2>1. Tally(g, prices')
    <3>1. i \in DOMAIN h.tasks
      BY <1>14
    <3>2. /\ p.id = id /\ p.chain = PricesOf(h)[i] /\ p \notin prices /\ p.id \notin h.made
          /\ IsFiniteSet(prices) /\ h.tasks[i] # "done"
      BY <1>1, <1>3, <1>4, <1>14, <1>23, <1>24, <1>25 DEF PricesKeyed
    <3>3. \A q \in prices : q.id # p.id
      BY <1>24, <3>2
    <3>4. /\ g.tasks = [h.tasks EXCEPT ![i] = "done"] /\ g.made = h.made \cup {p.id}
          /\ g.dto = h.dto /\ h \in Locals /\ Tally(h, prices)
      BY <1>1, <1>6, <1>9, <3>2
    <3> QED BY <1>5, <3>1, <3>2, <3>3, <3>4, TallyGrows
  <2>2. ASSUME NEW q \in Changing', q # r PROVE Tally(handler'[q], prices')
    <3>1. q \in Changing /\ q \in Requests /\ handler'[q] = handler[q]
      BY <1>12, <1>18, <2>2 DEF Changing, Busy
    <3>2. \A d \in Chains : Made(handler[q], prices', d) = Made(handler[q], prices, d)
      BY <1>4, <1>5, <1>25, <3>1 DEF Made
    <3> QED BY <3>1, <3>2 DEF IInv, Counted, Tally
  <2> QED BY <1>12, <2>1, <2>2 DEF Counted
<1>28. DisabledHasNoAddress'
  BY <1>5 DEF IInv, DisabledHasNoAddress
<1>29. SoldAsLastWritten'
  <2>1. \A d : {q \in prices' : q.ofGame /\ q.chain = d} = {q \in prices : q.ofGame /\ q.chain = d}
    BY <1>4, <1>5
  <2> QED BY <1>5, <2>1 DEF IInv, SoldAsLastWritten
<1> QED BY <1>17, <1>18, <1>19, <1>20, <1>22, <1>26, <1>27, <1>28, <1>29 DEF IInv

-----------------------------------------------------------------------------
(* The game is written. *)

\* A price, after a request was written that saved M and unlinked U.
Resold(p, M, U) == [p EXCEPT !.ofGame = p.id \in M \/ (@ /\ p.id \notin U)]

LEMMA ResoldIs ==
  ASSUME NEW p \in PriceRow, NEW M, NEW U
  PROVE  /\ Resold(p, M, U) \in PriceRow
         /\ Resold(p, M, U).id = p.id /\ Resold(p, M, U).chain = p.chain
         /\ Resold(p, M, U).ofGame <=> p.id \in M \/ (p.ofGame /\ p.id \notin U)
         /\ p.id \in M => Resold(p, M, U) = [p EXCEPT !.ofGame = TRUE]
         /\ p.id \notin M /\ (p.ofGame => p.id \notin U) => Resold(p, M, U) = p
<1>1. PICK b \in BOOLEAN : b = (p.id \in M \/ (p.ofGame /\ p.id \notin U))
  OBVIOUS
<1>2. Resold(p, M, U) = [p EXCEPT !.ofGame = b]
  BY <1>1, Zenon DEF Resold
<1>3. p.ofGame \in BOOLEAN /\ p = [id |-> p.id, chain |-> p.chain, ofGame |-> p.ofGame]
  BY DEF PriceRow
<1>4. [p EXCEPT !.ofGame = b] = [id |-> p.id, chain |-> p.chain, ofGame |-> b]
  BY <1>3
<1>5. [p EXCEPT !.ofGame = b].ofGame = b
  BY <1>4
<1>6. Resold(p, M, U).ofGame <=> p.id \in M \/ (p.ofGame /\ p.id \notin U)
  BY <1>1, <1>2, <1>5, Zenon
<1>7. p.id \in M => b = TRUE
  BY <1>1
<1>8. p.id \notin M /\ (p.ofGame => p.id \notin U) => b = p.ofGame
  BY <1>1, <1>3
<1>9. [p EXCEPT !.ofGame = b] \in PriceRow /\ [p EXCEPT !.ofGame = b].id = p.id
      /\ [p EXCEPT !.ofGame = b].chain = p.chain
  BY <1>1, <1>4 DEF PriceRow
<1>10. p.id \in M => Resold(p, M, U) = [p EXCEPT !.ofGame = TRUE]
  BY <1>2, <1>7
<1>11. p.id \notin M /\ (p.ofGame => p.id \notin U) => Resold(p, M, U) = p
  BY <1>2, <1>3, <1>4, <1>8
<1> QED BY <1>2, <1>6, <1>9, <1>10, <1>11

LEMMA SetPricesIs ==
  ASSUME NEW h
  PROVE  SetPrices(h) = {Resold(p, h.made, h.unsell) : p \in prices}
BY DEF SetPrices, Resold

LEMMA SetPricesFinite ==
  ASSUME NEW h, IsFiniteSet(prices)
  PROVE  IsFiniteSet(SetPrices(h))
<1> DEFINE f == [p \in prices |-> Resold(p, h.made, h.unsell)]
<1>1. f \in Surjection(prices, SetPrices(h))
  BY SetPricesIs DEF Surjection
<1> QED BY <1>1, FS_Surjection

\* The prices that another request saved are not touched.
LEMMA OthersUntouched ==
  ASSUME NEW h, NEW k, prices \subseteq PriceRow,
         h.made \cap k.made = {}, \A p \in prices : p.id \in k.made => ~p.ofGame,
         Tally(k, prices)
  PROVE  Tally(k, SetPrices(h))
<1>1. ASSUME NEW p \in prices, p.id \in k.made
      PROVE  Resold(p, h.made, h.unsell) = p
  <2>1. p.id \notin h.made /\ ~p.ofGame /\ p \in PriceRow
    BY <1>1
  <2> QED BY <2>1, ResoldIs
<1>2. \A p \in prices : Resold(p, h.made, h.unsell).id = p.id
  BY ResoldIs
<1>3. \A c \in Chains : Made(k, SetPrices(h), c) = Made(k, prices, c)
  <2>1. SUFFICES ASSUME NEW c \in Chains, NEW p
                 PROVE  p \in Made(k, SetPrices(h), c) <=> p \in Made(k, prices, c)
    OBVIOUS
  <2>2. p \in Made(k, prices, c) => p \in Made(k, SetPrices(h), c)
    BY <1>1, SetPricesIs DEF Made
  <2>3. p \in Made(k, SetPrices(h), c) => p \in Made(k, prices, c)
    BY <1>1, <1>2, SetPricesIs DEF Made
  <2> QED BY <2>2, <2>3
<1> QED BY <1>3 DEF Tally

\* The game is sold for the prices that were saved for it, one per task.
LEMMA SoldNow ==
  ASSUME NEW h \in Locals, Knows(h), h.step = "write", Tally(h, prices),
         IsFiniteSet(prices), prices \subseteq PriceRow,
         \A p \in prices : p.id \in h.made => ~p.ofGame,
         \A p \in prices : p.ofGame => p.id \in h.unsell,
         NEW c \in Chains
  PROVE  Cardinality({p \in SetPrices(h) : p.ofGame /\ p.chain = c}) =
           Cardinality({i \in DOMAIN PricesOf(h) : PricesOf(h)[i] = c})
<1> DEFINE R(p) == Resold(p, h.made, h.unsell)
           S    == {p \in SetPrices(h) : p.ofGame /\ p.chain = c}
           f    == [p \in Made(h, prices, c) |-> R(p)]
<1>1. \A p \in prices : /\ R(p).id = p.id /\ R(p).chain = p.chain
                        /\ R(p).ofGame <=> p.id \in h.made
  <2>1. SUFFICES ASSUME NEW p \in prices
                 PROVE  /\ R(p).id = p.id /\ R(p).chain = p.chain
                        /\ R(p).ofGame <=> p.id \in h.made
    OBVIOUS
  <2>2. p \in PriceRow /\ (p.ofGame => p.id \in h.unsell)
    OBVIOUS
  <2>3. /\ R(p).id = p.id /\ R(p).chain = p.chain
        /\ R(p).ofGame <=> p.id \in h.made \/ (p.ofGame /\ p.id \notin h.unsell)
    BY <2>2, ResoldIs
  <2> HIDE DEF R
  <2> QED BY <2>2, <2>3
<1>2. SetPrices(h) = {R(p) : p \in prices}
  BY SetPricesIs
<1> HIDE DEF R
<1>3. f \in Surjection(Made(h, prices, c), S)
  <2>1. \A p \in Made(h, prices, c) : R(p) \in S
    BY <1>1, <1>2 DEF Made
  <2>2. \A s \in S : \E p \in Made(h, prices, c) : R(p) = s
    BY <1>1, <1>2 DEF Made
  <2> QED BY <2>1, <2>2 DEF Surjection
<1>4. \A p, q \in Made(h, prices, c) : R(p) = R(q) => p = q
  <2>1. SUFFICES ASSUME NEW p \in Made(h, prices, c), NEW q \in Made(h, prices, c), R(p) = R(q)
                 PROVE  p = q
    OBVIOUS
  <2>2. /\ p \in prices /\ q \in prices /\ p \in PriceRow /\ q \in PriceRow
        /\ ~p.ofGame /\ ~q.ofGame /\ p.chain = c /\ q.chain = c
    BY DEF Made
  <2>3. p.id = q.id
    BY <1>1, <2>1, <2>2
  <2> QED BY <2>2, <2>3 DEF PriceRow
<1>5. f \in Bijection(Made(h, prices, c), S)
  <2>1. f \in Injection(Made(h, prices, c), S)
    <3>1. f \in [Made(h, prices, c) -> S]
      BY <1>3 DEF Surjection
    <3>2. \A p, q \in Made(h, prices, c) : f[p] = f[q] => p = q
      BY <1>4
    <3> QED BY <3>1, <3>2 DEF Injection, IsInjective
  <2> QED BY <1>3, <2>1 DEF Bijection
<1>6. Cardinality(S) = Cardinality(Made(h, prices, c))
  <2>1. ExistsBijection(Made(h, prices, c), S)
    BY <1>5 DEF ExistsBijection
  <2> HIDE DEF S
  <2> QED BY <2>1, MadeIsFinite, FS_Bijection
<1>7. DoneFor(h, c) = {i \in DOMAIN PricesOf(h) : PricesOf(h)[i] = c}
  BY DEF DoneFor, Knows
<1> QED BY <1>6, <1>7 DEF Tally

\* A request without prices leaves them.
LEMMA NothingSold ==
  ASSUME NEW h \in Locals, Knows(h), h.step = "write", h.dto.prices = None,
         Tally(h, prices), IsFiniteSet(prices), prices \subseteq PriceRow
  PROVE  SetPrices(h) = prices
<1>1. PricesOf(h) = <<>> /\ h.unsell = {} /\ DOMAIN h.tasks = DOMAIN PricesOf(h)
  BY DEF PricesOf, Given2, Knows
<1>2. \A c \in Chains : DoneFor(h, c) = {}
  BY <1>1 DEF DoneFor
<1>3. ASSUME NEW p \in prices PROVE p.id \notin h.made
  <2>1. p.chain \in Chains
    BY DEF PriceRow
  <2>2. Cardinality(Made(h, prices, p.chain)) = 0 /\ IsFiniteSet(Made(h, prices, p.chain))
    <3>1. Cardinality(Made(h, prices, p.chain)) = Cardinality(DoneFor(h, p.chain))
      BY <2>1 DEF Tally
    <3>2. DoneFor(h, p.chain) = {}
      BY <1>2, <2>1
    <3> QED BY <3>1, <3>2, MadeIsFinite, FS_EmptySet
  <2>3. Made(h, prices, p.chain) = {}
    BY <2>2, FS_EmptySet
  <2> QED BY <2>3 DEF Made
<1>4. \A p \in prices : Resold(p, h.made, h.unsell) = p
  <2>1. SUFFICES ASSUME NEW p \in prices PROVE Resold(p, h.made, h.unsell) = p
    OBVIOUS
  <2>2. p \in PriceRow /\ p.id \notin h.made /\ p.id \notin h.unsell
    BY <1>1, <1>3
  <2> QED BY <2>2, ResoldIs
<1> QED BY <1>4, SetPricesIs

\* What a request that is written leaves, besides the columns and prices of the
\* game.
LEMMA Written ==
  ASSUME IInv, NEW r \in Requests, At(r, "write"), Wrote(r), row' \in Row,
         tagRows' = tagRows \cup InsertTags(TagsOf(handler[r])),
         {t.id : t \in InsertTags(TagsOf(handler[r]))} \subseteq Ids,
         prices' = SetPrices(handler[r])
  PROVE  /\ TypeOK' /\ RequestsKnow' /\ Apart' /\ NothingStale'
         /\ KeysApart' /\ Missing' /\ OneRowEach' /\ PricesKeyed' /\ Counted'
         /\ dirty' = handler[r].overlapped
<1> DEFINE h == handler[r]
<1>1. /\ h.step = "write" /\ h \in Locals /\ Knows(h) /\ h.dto \in Pending
      /\ Tally(h, prices) /\ Lacks(h, tagRows, tokens, doubled)
      /\ r \in Changing /\ r \in Busy
  BY Handled DEF At, Changing, Busy
<1>2. /\ handler' = [handler EXCEPT ![r] = Idle] /\ dirty' = h.overlapped
      /\ UNCHANGED <<tokens, lastPrice, sends, doubled>>
  BY DEF Wrote, Return
<1>3. /\ handler \in [Requests -> Locals] /\ prices \subseteq PriceRow /\ TypeOK
      /\ PricesKeyed /\ OneRowEach
  BY DEF IInv, TypeOK
<1>4. handler'[r] = Idle /\ \A q \in Requests : q # r => handler'[q] = handler[q]
  BY <1>2, <1>3
<1>5. Alone(r)
  BY <1>1, <1>4, NarrowToIdle DEF Alone
<1>6. row' # None /\ row' # Gone
  BY NoneIsFresh
<1>7. /\ Busy' \subseteq Busy /\ Changing' \subseteq Changing
      /\ RequestsKnow' /\ Apart' /\ KeysApart'
  BY <1>2, <1>4, <1>5, <1>6, IdleLocals, AloneKeeps
<1>8. /\ tagRows' \subseteq TagRow /\ OneRowEach'
      /\ \A t \in tagRows' : t \in tagRows \/ t.name \in Keys(h.dto)
  <2>1. PICK f : f = TagsOf(h)
    OBVIOUS
  <2>2. f \in SomeOf2(Tags) /\ Twice(f) \subseteq doubled
    BY <1>1, <2>1, GivenIs DEF TagsOf, IInv, KeysApart
  <2>3. \A i \in DOMAIN f, t \in tagRows : f[i] \notin doubled => t.name # f[i]
    BY <1>1, <2>1 DEF Lacks
  <2>4. \A i \in DOMAIN f : f[i] \in Keys(h.dto)
    BY <2>1, KeysHold
  <2> QED BY <1>2, <1>3, <2>1, <2>2, <2>3, <2>4, TagsInserted
<1>9. Missing'
  BY <1>2, <1>4, <1>5, <1>6, <1>8, IdleLocals, NarrowToIdle, MissingKept DEF Idle
<1>10. \A p \in prices' : \E q \in prices :
         /\ p \in PriceRow /\ p.id = q.id
         /\ p.ofGame => q.id \in h.made \/ q.ofGame
  BY <1>3, SetPricesIs, ResoldIs
<1>11. TypeOK'
  <2>1. handler' \in [Requests -> Locals]
    BY <1>2, <1>3, IdleLocals
  <2>2. prices' \subseteq PriceRow
    BY <1>10
  <2>3. dirty' \in BOOLEAN
    BY <1>1, <1>2 DEF Locals
  <2>4. sold' \in UpTo2(Chains) /\ soldTwice' \in BOOLEAN
    <3>1. h.dto.prices # None => h.dto.prices \in UpTo2(Chains)
      BY <1>1 DEF Pending
    <3> QED BY <1>1, <1>3, <3>1 DEF Wrote, TypeOK, Locals
  <2> QED BY <1>2, <1>3, <1>8, <2>1, <2>2, <2>3, <2>4 DEF TypeOK
<1>12. NothingStale'
  <2>1. ASSUME NEW q \in Changing' PROVE handler'[q].overlapped
    <3>1. q # r /\ q \in Changing /\ q \in Requests
      BY <1>4, <1>7, <2>1, IdleLocals, NarrowToIdle DEF Changing, Busy, Idle
    <3> QED BY <1>1, <1>4, <3>1 DEF IInv, Apart
  <2> QED BY <2>1 DEF NothingStale
<1>13. PricesKeyed'
  <2>1. IsFiniteSet(prices')
    BY <1>3, SetPricesFinite DEF PricesKeyed
  <2>2. \A p \in prices' : p.id <= lastPrice'
    BY <1>2, <1>3, <1>10 DEF PricesKeyed
  <2>3. ASSUME NEW q \in Requests
        PROVE  /\ handler'[q].made \subseteq handler[q].made
               /\ OwnPrices(handler'[q], prices', lastPrice')
    <3>1. CASE q = r
      BY <1>4, <3>1 DEF Idle, OwnPrices
    <3>2. CASE q # r
      <4>1. handler'[q] = handler[q] /\ h.made \cap handler[q].made = {}
        BY <1>3, <1>4, <3>2 DEF PricesKeyed
      <4>2. OwnPrices(handler[q], prices, lastPrice)
        BY <1>3 DEF PricesKeyed
      <4>3. \A p \in prices' : p.id \in handler[q].made => ~p.ofGame
        BY <1>10, <4>1, <4>2 DEF OwnPrices
      <4> QED BY <1>2, <4>1, <4>2, <4>3 DEF OwnPrices
    <3> QED BY <3>1, <3>2
  <2>4. \A q, s \in Requests : q # s => handler'[q].made \cap handler'[s].made = {}
    BY <1>3, <2>3 DEF PricesKeyed
  <2> QED BY <1>6, <2>1, <2>2, <2>3, <2>4 DEF PricesKeyed
<1>14. Counted'
  <2>1. SUFFICES ASSUME NEW q \in Changing' PROVE Tally(handler'[q], prices')
    BY DEF Counted
  <2>2. q # r /\ q \in Changing /\ q \in Requests /\ handler'[q] = handler[q]
    BY <1>4, <1>7, <2>1 DEF Changing, Busy, Idle
  <2>3. PICK k : k = handler[q]
    OBVIOUS
  <2>4. Tally(k, prices) /\ h.made \cap k.made = {}
    BY <1>3, <2>2, <2>3 DEF IInv, Counted, PricesKeyed
  <2>5. \A p \in prices : p.id \in k.made => ~p.ofGame
    BY <1>3, <2>2, <2>3 DEF PricesKeyed, OwnPrices
  <2>6. Tally(k, SetPrices(h))
    BY <1>3, <2>4, <2>5, OthersUntouched
  <2> QED BY <2>2, <2>3, <2>6
<1> QED BY <1>2, <1>7, <1>8, <1>9, <1>11, <1>12, <1>13, <1>14

LEMMA InsertStep ==
  ASSUME IInv, NEW r \in Requests, Insert(r)
  PROVE  IInv'
<1> DEFINE h == handler[r]
<1>1. /\ At(r, "write") /\ h.creates /\ row = None /\ Wrote(r)
      /\ {t.id : t \in InsertTags(TagsOf(h))} \subseteq Ids
      /\ tagRows' = tagRows \cup InsertTags(TagsOf(h))
      /\ row' = [mode |-> h.dto.mode,
                 donation |-> IF h.dto.donation = "absent" THEN "null" ELSE h.dto.donation,
                 tags |-> h.found \cup {t.id : t \in InsertTags(TagsOf(h))}]
      /\ prices' = SetPrices(h)
  BY DEF Insert, TagsOf
<1>2. h \in Locals /\ Knows(h) /\ h.dto \in Pending /\ h.step = "write" /\ Tally(h, prices)
  BY <1>1, Handled DEF At
<1>3. PricesKeyed /\ prices \subseteq PriceRow
  BY DEF IInv, TypeOK
<1>4. /\ row' \in Row
      /\ row'.mode = "DISABLE_PAYMENTS" => row'.donation \in Empty
  <2>1. PICK tags \in SUBSET Ids : tags = h.found \cup {t.id : t \in InsertTags(TagsOf(h))}
    BY <1>1, <1>2 DEF Locals
  <2>2. h.dto.mode \in Modes /\ h.dto.donation \in Stored \cup {"absent"}
    BY <1>1, <1>2 DEF Knows, Pending, Given
  <2>3. h.dto.mode = "DISABLE_PAYMENTS" => h.dto.donation \in {"null", "absent"}
    BY <1>1, <1>2 DEF Knows
  <2>4. row' = [mode |-> h.dto.mode,
                donation |-> IF h.dto.donation = "absent" THEN "null" ELSE h.dto.donation,
                tags |-> tags]
    BY <1>1, <2>1
  <2> QED BY <2>2, <2>3, <2>4 DEF Row, Stored, Empty
<1>5. /\ TypeOK' /\ RequestsKnow' /\ Apart' /\ NothingStale'
      /\ KeysApart' /\ Missing' /\ OneRowEach' /\ PricesKeyed' /\ Counted'
  BY <1>1, <1>4, Written
<1>6. DisabledHasNoAddress'
  BY <1>4 DEF DisabledHasNoAddress
<1>7. SoldAsLastWritten'
  <2>1. PICK k : k = h
    OBVIOUS
  <2>2. sold' = PricesOf(k)
    <3>1. sold = <<>>
      BY <1>1, <1>3 DEF PricesKeyed
    <3> QED BY <1>1, <2>1, <3>1 DEF Wrote, PricesOf, Given2
  <2>3. /\ \A p \in prices : p.id \in k.made => ~p.ofGame
        /\ \A p \in prices : p.ofGame => p.id \in k.unsell
        /\ IsFiniteSet(prices)
    BY <1>1, <1>3, <2>1 DEF PricesKeyed
  <2>4. k \in Locals /\ Knows(k) /\ k.step = "write" /\ Tally(k, prices)
    BY <1>2, <2>1
  <2>5. \A c \in Chains :
          Cardinality({p \in SetPrices(k) : p.ofGame /\ p.chain = c}) =
            Cardinality({i \in DOMAIN PricesOf(k) : PricesOf(k)[i] = c})
    BY <1>3, <2>3, <2>4, SoldNow
  <2>6. prices' = SetPrices(k)
    BY <1>1, <2>1
  <2> QED BY <2>2, <2>5, <2>6 DEF SoldAsLastWritten
<1> QED BY <1>5, <1>6, <1>7 DEF IInv

LEMMA WriteStep ==
  ASSUME IInv, NEW r \in Requests, Write(r)
  PROVE  /\ IInv'
         /\ handler'[r] = Idle
         /\ row'.mode # row.mode => handler[r].asked = row'.mode \/ handler[r].overlapped
<1> DEFINE h == handler[r]
<1>1. /\ At(r, "write") /\ ~h.creates /\ row # Gone /\ Wrote(r)
      /\ {t.id : t \in InsertTags(TagsOf(h))} \subseteq Ids
      /\ tagRows' = tagRows \cup InsertTags(TagsOf(h))
      /\ row' = [mode |-> IF h.dto.mode = "absent" THEN row.mode ELSE h.dto.mode,
                 donation |-> IF h.dto.donation = "absent" THEN row.donation ELSE h.dto.donation,
                 tags |-> (row.tags \ h.unlink) \cup h.found \cup
                            {t.id : t \in InsertTags(TagsOf(h))}]
      /\ prices' = SetPrices(h)
  BY DEF Write, TagsOf
<1>2. /\ h \in Locals /\ Knows(h) /\ h.dto \in Pending /\ h.step = "write" /\ Tally(h, prices)
      /\ row # None
      /\ Live /\ ~h.overlapped => StillSo(h, row, OfGame)
  BY <1>1, Handled DEF At
<1>3. Live /\ row \in Row
  BY <1>1, <1>2 DEF Live, IInv, TypeOK
<1>4. PricesKeyed /\ prices \subseteq PriceRow
  BY DEF IInv, TypeOK
<1>5. /\ row' \in Row
      /\ row'.mode = ModeAfter(h, row) /\ row'.donation = DonationAfter(h, row)
  <2>1. PICK tags \in SUBSET Ids :
          tags = (row.tags \ h.unlink) \cup h.found \cup {t.id : t \in InsertTags(TagsOf(h))}
    BY <1>1, <1>2, <1>3 DEF Locals, Row
  <2>2. ModeAfter(h, row) \in Modes /\ DonationAfter(h, row) \in Stored
    BY <1>2, <1>3 DEF Knows, Pending, Given, Row, ModeAfter, DonationAfter
  <2>3. row' = [mode |-> ModeAfter(h, row), donation |-> DonationAfter(h, row), tags |-> tags]
    BY <1>1, <2>1 DEF ModeAfter, DonationAfter
  <2> QED BY <2>2, <2>3 DEF Row
<1>6. /\ TypeOK' /\ RequestsKnow' /\ Apart' /\ NothingStale'
      /\ KeysApart' /\ Missing' /\ OneRowEach' /\ PricesKeyed' /\ Counted'
      /\ dirty' = h.overlapped
  BY <1>1, <1>5, Written
<1>7. DisabledHasNoAddress'
  <2>1. SUFFICES ASSUME ~h.overlapped, row'.mode = "DISABLE_PAYMENTS"
                 PROVE  row'.donation \in Empty
    BY <1>6 DEF DisabledHasNoAddress
  <2> QED BY <1>2, <1>3, <1>5, <2>1 DEF StillSo
<1>8. SoldAsLastWritten'
  <2>1. PICK k : k = h
    OBVIOUS
  <2>2. /\ k \in Locals /\ Knows(k) /\ k.step = "write" /\ Tally(k, prices)
        /\ IsFiniteSet(prices) /\ prices' = SetPrices(k)
    BY <1>1, <1>2, <1>4, <2>1 DEF PricesKeyed
  <2>3. CASE k.dto.prices = None
    <3>1. prices' = prices /\ UNCHANGED <<sold, soldTwice>>
      BY <1>1, <1>4, <2>1, <2>2, <2>3, NothingSold DEF Wrote
    <3> QED BY <1>3, <3>1 DEF IInv, SoldAsLastWritten, Live
  <2>4. CASE k.dto.prices # None
    <3>1. /\ sold' = PricesOf(k) /\ soldTwice' = k.overlapped
      BY <1>1, <2>1, <2>4 DEF Wrote, PricesOf, Given2
    <3>2. SUFFICES ASSUME ~k.overlapped
                   PROVE  \A c \in Chains :
                            Cardinality({p \in SetPrices(k) : p.ofGame /\ p.chain = c}) =
                              Cardinality({i \in DOMAIN PricesOf(k) : PricesOf(k)[i] = c})
      BY <2>2, <3>1 DEF SoldAsLastWritten
    <3>3. k.unsell = OfGame
      BY <1>2, <1>3, <2>1, <2>4, <3>2 DEF StillSo
    <3>4. /\ \A p \in prices : p.id \in k.made => ~p.ofGame
          /\ \A p \in prices : p.ofGame => p.id \in k.unsell
      BY <1>4, <2>1, <3>3 DEF PricesKeyed, OwnPrices, OfGame
    <3> QED BY <1>4, <2>2, <3>4, SoldNow
  <2> QED BY <2>3, <2>4
<1>9. handler'[r] = Idle
  BY <1>1 DEF Wrote, Return, IInv, TypeOK
<1>10. row'.mode # row.mode => h.asked = row'.mode \/ h.overlapped
  BY <1>2, <1>3, <1>5 DEF StillSo, Wanted
<1> QED BY <1>6, <1>7, <1>8, <1>9, <1>10 DEF IInv

LEMMA DeleteStep ==
  ASSUME IInv, Delete
  PROVE  IInv'
<1>1. /\ row' = Gone /\ prices' = {p \in prices : ~p.ofGame}
      /\ UNCHANGED <<tagRows, tokens, lastPrice, handler, sends, dirty, doubled, sold, soldTwice>>
  BY DEF Delete, history
<1>2. TypeOK' /\ RequestsKnow' /\ KeysApart' /\ Missing' /\ OneRowEach'
  BY <1>1 DEF IInv, TypeOK, RequestsKnow, KeysApart, Missing, OneRowEach, Busy
<1>3. ~Live' /\ row' # None
  BY <1>1, NoneIsFresh DEF Live
<1>4. Apart' /\ NothingStale' /\ DisabledHasNoAddress' /\ SoldAsLastWritten'
  <2>1. Changing' = Changing
    BY <1>1 DEF Changing, Busy
  <2>2. Apart'
    BY <1>1, <1>3, <2>1 DEF IInv, Apart
  <2>3. NothingStale' /\ DisabledHasNoAddress' /\ SoldAsLastWritten'
    BY <1>3 DEF NothingStale, DisabledHasNoAddress, SoldAsLastWritten, Live
  <2> QED BY <2>2, <2>3
<1>5. PricesKeyed'
  <2>1. PricesKeyed
    BY DEF IInv
  <2>2. prices' \in SUBSET prices
    BY <1>1
  <2>3. IsFiniteSet(prices')
    BY <2>1, <2>2, FS_Subset DEF PricesKeyed
  <2>4. \A q \in Requests : OwnPrices(handler'[q], prices', lastPrice')
    BY <1>1, <2>1 DEF PricesKeyed, OwnPrices
  <2> QED BY <1>1, <1>3, <2>1, <2>2, <2>3, <2>4 DEF PricesKeyed
<1>6. Counted'
  <2>1. ASSUME NEW q \in Changing', NEW c \in Chains
        PROVE  Made(handler[q], prices', c) = Made(handler[q], prices, c)
    BY <1>1, <2>1 DEF IInv, PricesKeyed, OwnPrices, Made, Changing, Busy
  <2>2. Changing' = Changing /\ handler' = handler
    BY <1>1 DEF Changing, Busy
  <2> QED BY <2>1, <2>2 DEF IInv, Counted, Tally
<1> QED BY <1>2, <1>4, <1>5, <1>6 DEF IInv

LEMMA PutTokenStep ==
  ASSUME IInv, NEW c \in Chains, PutToken(c)
  PROVE  IInv'
<1>1. /\ tokens' = [tokens EXCEPT ![c] = @ + 1] /\ tokens[c] < MaxRows
      /\ sends' = sends + 1 /\ sends < MaxSends
      /\ doubled' = IF tokens[c] > 0 \/ \E q \in Busy : c \in Keys(handler[q].dto)
                    THEN doubled \cup {c} ELSE doubled
      /\ UNCHANGED <<row, tagRows, prices, lastPrice, handler, dirty, sold, soldTwice>>
  BY DEF PutToken
<1>2. tokens \in [Chains -> 0 .. MaxRows] /\ MaxRows \in Nat /\ MaxSends \in Nat /\ TypeOK
  BY RowBound DEF IInv, TypeOK
<1>3. doubled \subseteq doubled' /\ doubled' \subseteq doubled \cup {c}
  BY <1>1
<1>4. TypeOK'
  <2>1. tokens' \in [Chains -> 0 .. MaxRows] /\ sends' \in 0 .. MaxSends
    BY <1>1, <1>2 DEF TypeOK
  <2> QED BY <1>1, <1>2, <1>3, <2>1 DEF TypeOK
<1>5. RequestsKnow' /\ Apart' /\ NothingStale' /\ PricesKeyed' /\ Counted'
  BY <1>1 DEF IInv, RequestsKnow, Apart, NothingStale, PricesKeyed, Counted, Changing, Busy,
              Live, OfGame
<1>6. KeysApart'
  BY <1>1, <1>3 DEF IInv, KeysApart, Busy
<1>7. Missing'
  <2>1. SUFFICES ASSUME NEW q \in Busy PROVE Lacks(handler[q], tagRows, tokens', doubled')
    BY <1>1 DEF Missing, Busy
  <2>2. PICK h : h = handler[q]
    OBVIOUS
  <2>3. /\ Lacks(h, tagRows, tokens, doubled) /\ h.dto \in Pending /\ Knows(h)
    BY <2>1, <2>2, Handled DEF Busy
  <2>4. ASSUME h.step = "prices", NEW i \in DOMAIN h.tasks, h.tasks[i] = "fetch",
               PricesOf(h)[i] \notin doubled'
        PROVE  tokens'[PricesOf(h)[i]] = 0
    <3>1. i \in DOMAIN PricesOf(h)
      BY <2>3, <2>4 DEF Knows
    <3>2. PricesOf(h)[i] \in Chains /\ PricesOf(h)[i] \in Keys(h.dto)
      BY <2>3, <3>1, GivenIs, KeysHold DEF PricesOf
    <3>3. PricesOf(h)[i] # c
      BY <1>1, <2>1, <2>2, <2>4, <3>2
    <3>4. tokens[PricesOf(h)[i]] = 0
      BY <1>3, <2>3, <2>4 DEF Lacks
    <3> QED BY <1>1, <1>2, <3>2, <3>3, <3>4
  <2> QED BY <1>3, <2>2, <2>3, <2>4 DEF Lacks
<1>8. OneRowEach'
  <2>1. ASSUME NEW d \in Chains \ doubled' PROVE tokens'[d] <= 1
    <3>1. CASE d = c
      <4>1. ~(tokens[c] > 0)
        BY <1>1, <2>1, <3>1
      <4> QED BY <1>1, <1>2, <3>1, <4>1
    <3>2. CASE d # c
      BY <1>1, <1>2, <1>3, <2>1, <3>2 DEF IInv, OneRowEach
    <3> QED BY <3>1, <3>2
  <2> QED BY <1>1, <1>3, <2>1 DEF IInv, OneRowEach
<1>9. DisabledHasNoAddress' /\ SoldAsLastWritten'
  BY <1>1 DEF IInv, DisabledHasNoAddress, SoldAsLastWritten
<1> QED BY <1>4, <1>5, <1>6, <1>7, <1>8, <1>9 DEF IInv

-----------------------------------------------------------------------------
(* A request arrives. *)

\* A request but for its history.
SameBut(g, h) ==
  /\ g.step = h.step /\ g.dto = h.dto /\ g.creates = h.creates /\ g.asked = h.asked
  /\ g.made = h.made /\ g.found = h.found /\ g.tasks = h.tasks /\ g.unsell = h.unsell

\* What holds after a request with dto d has arrived, and wrote nothing.
LEMMA Arrived ==
  ASSUME IInv, NEW r \in Requests, handler[r].step = "idle", NEW d \in Pending,
         \A q \in Requests : q # r => SameBut(handler'[q], handler[q]),
         \A q \in Requests : handler'[q].step = "idle" => handler'[q] = Idle,
         handler'[r].dto = d, handler'[r].step # "idle", handler'[r].made = {},
         Knows(handler'[r]), Lacks(handler'[r], tagRows, tokens, doubled'),
         handler'[r].step # "patch" => handler'[r].tasks = <<>>,
         doubled' = doubled \cup Doubles(d),
         UNCHANGED <<row, tagRows, tokens, prices, lastPrice, dirty, sold, soldTwice>>
  PROVE  /\ RequestsKnow' /\ KeysApart' /\ Missing' /\ OneRowEach'
         /\ PricesKeyed' /\ Counted' /\ DisabledHasNoAddress' /\ SoldAsLastWritten'
<1>1. /\ Busy' = Busy \cup {r} /\ r \notin Busy
      /\ Changing' \subseteq Changing \cup {r} /\ r \notin Changing
  BY DEF Busy, Changing, SameBut
<1>2. RequestsKnow'
  <2>1. ASSUME NEW q \in Requests, q # r PROVE Knows(handler'[q])
    <3>1. Knows(handler[q]) /\ SameBut(handler'[q], handler[q])
      BY <2>1 DEF IInv, RequestsKnow
    <3>2. CASE handler'[q].step = "idle"
      BY <3>2, IdleLocals
    <3>3. ASSUME handler'[q].step # "idle" PROVE Knows(handler'[q])
      <4>1. PricesOf(handler'[q]) = PricesOf(handler[q])
        BY <3>1 DEF SameBut, PricesOf
      <4> QED BY <3>1, <3>3, <4>1 DEF Knows, SameBut
    <3> QED BY <3>2, <3>3
  <2> QED BY <2>1 DEF RequestsKnow
<1>3. \A q \in Requests : q # r =>
        /\ handler'[q].dto = handler[q].dto /\ handler'[q].made = handler[q].made
        /\ TagsOf(handler'[q]) = TagsOf(handler[q])
        /\ PricesOf(handler'[q]) = PricesOf(handler[q])
  BY DEF SameBut, TagsOf, PricesOf
<1>4. KeysApart'
  <2>1. ASSUME NEW q \in Busy PROVE Keys(handler[q].dto) \cap Keys(d) \subseteq doubled'
    BY DEF Doubles
  <2>2. Twice(TagsOf(handler'[r])) \cup Twice(PricesOf(handler'[r])) \subseteq doubled'
    BY DEF Doubles, TagsOf, PricesOf
  <2>3. \A p, q \in Busy : p # q => Keys(handler[p].dto) \cap Keys(handler[q].dto) \subseteq doubled'
    BY DEF IInv, KeysApart
  <2>4. \A q \in Busy : Twice(TagsOf(handler[q])) \cup Twice(PricesOf(handler[q])) \subseteq doubled'
    BY DEF IInv, KeysApart
  <2>5. \A q \in Busy : q \in Requests /\ q # r
    BY <1>1 DEF Busy
  <2>6. \A p, q \in Busy' : p # q => Keys(handler'[p].dto) \cap Keys(handler'[q].dto) \subseteq doubled'
    BY <1>1, <1>3, <2>1, <2>3, <2>5
  <2>7. \A q \in Busy' : Twice(TagsOf(handler'[q])) \cup Twice(PricesOf(handler'[q])) \subseteq doubled'
    BY <1>1, <1>3, <2>2, <2>4, <2>5
  <2> QED BY <2>6, <2>7 DEF KeysApart
<1>5. Missing'
  <2>1. ASSUME NEW q \in Busy PROVE Lacks(handler'[q], tagRows, tokens, doubled')
    <3>1. q \in Requests /\ q # r /\ SameBut(handler'[q], handler[q])
      BY <1>1 DEF Busy
    <3>2. Lacks(handler[q], tagRows, tokens, doubled)
      BY DEF IInv, Missing
    <3> QED BY <1>3, <3>1, <3>2 DEF Lacks, SameBut
  <2> QED BY <1>1, <2>1 DEF Missing
<1>6. OneRowEach'
  BY DEF IInv, OneRowEach
<1>7. PricesKeyed'
  <2>1. PricesKeyed
    BY DEF IInv
  <2>2. \A q \in Requests : handler'[q].made \subseteq handler[q].made
    BY <1>3
  <2>3. \A q \in Requests : OwnPrices(handler'[q], prices, lastPrice)
    BY <2>1, <2>2 DEF PricesKeyed, OwnPrices
  <2> QED BY <2>1, <2>2, <2>3 DEF PricesKeyed
<1>8. Counted'
  <2>1. SUFFICES ASSUME NEW q \in Changing' PROVE Tally(handler'[q], prices)
    BY DEF Counted
  <2>2. CASE q # r
    <3>1. q \in Changing /\ q \in Requests /\ SameBut(handler'[q], handler[q])
      BY <1>1, <2>2 DEF Changing, Busy
    <3>2. Tally(handler[q], prices)
      BY <3>1 DEF IInv, Counted
    <3> QED BY <1>3, <2>2, <3>1, <3>2 DEF Tally, Made, DoneFor, SameBut
  <2>3. CASE q = r
    <3>1. handler'[r].tasks = <<>> /\ handler'[r].made = {}
      BY <2>1, <2>3 DEF Changing
    <3>2. \A c \in Chains : Made(handler'[r], prices, c) = {} /\ DoneFor(handler'[r], c) = {}
      BY <3>1 DEF Made, DoneFor
    <3> QED BY <2>3, <3>2 DEF Tally
  <2> QED BY <2>2, <2>3
<1>9. DisabledHasNoAddress' /\ SoldAsLastWritten'
  BY DEF IInv, DisabledHasNoAddress, SoldAsLastWritten
<1> QED BY <1>2, <1>4, <1>5, <1>6, <1>7, <1>8, <1>9

LEMMA DoublesIs ==
  ASSUME IInv, NEW d \in Pending
  PROVE  Doubles(d) \subseteq Tags \cup Chains
<1>1. Keys(d) \subseteq Tags \cup Chains
  BY KeysAre
<1>2. Twice(Given2(d.tags)) \subseteq Tags \cup Chains /\ Twice(Given2(d.prices)) \subseteq Tags \cup Chains
  BY GivenIs DEF Twice
<1> QED BY <1>1, <1>2 DEF Doubles

LEMMA SendStep ==
  ASSUME IInv, NEW r \in Requests, NEW dto \in Dtos, Send(r, dto)
  PROVE  IInv'
<1> DEFINE new == [Idle EXCEPT !.step = "find", !.asked = dto.mode, !.dto = dto,
                              !.creates = row = None, !.overlapped = Changing # {}]
<1>1. /\ handler[r].step = "idle" /\ sends < MaxSends /\ sends' = sends + 1 /\ row # Gone
      /\ row = None => dto.mode # "absent"
      /\ doubled' = doubled \cup Doubles(dto)
      /\ UNCHANGED <<row, tagRows, tokens, prices, lastPrice, dirty, sold, soldTwice>>
  BY DEF Send, Arrive, At, tables
<1>2. /\ handler' = [q \in Requests |->
                      IF q = r THEN new
                      ELSE [handler[q] EXCEPT !.overlapped = @ \/ q \in Changing]]
  BY DEF Send
<1>3. handler'[r] = new
  BY <1>2
<1>4. dto \in Pending /\ dto.mode \in Modes \cup {"absent"}
  BY KnownDtos, DtoIsPending DEF Dto
<1>5. PICK a, b \in BOOLEAN : a = (row = None) /\ b = (Changing # {})
  OBVIOUS
<1>6. new = [Idle EXCEPT !.step = "find", !.asked = dto.mode, !.dto = dto,
                         !.creates = a, !.overlapped = b]
  BY <1>5, Zenon
<1> HIDE DEF new
<1>7. /\ new \in Locals /\ new.step = "find" /\ new.asked = dto.mode /\ new.dto = dto
      /\ new.creates = a /\ new.overlapped = b /\ new.made = {} /\ new.tasks = <<>>
      /\ new.unsell = {}
  BY <1>4, <1>6, IdleLocals, EmptyIsUpTo2 DEF Idle, Locals
<1>8. Knows(new)
  BY <1>1, <1>4, <1>5, <1>7 DEF Knows
<1>9. Lacks(new, tagRows, tokens, doubled')
  BY <1>7 DEF Lacks
<1>10. ASSUME NEW q \in Requests, q # r
       PROVE  /\ handler'[q] \in Locals /\ SameBut(handler'[q], handler[q])
              /\ handler'[q].step = "idle" => handler'[q] = Idle
              /\ handler'[q].overlapped <=> handler[q].overlapped \/ q \in Changing
  <2>1. PICK h \in Locals : h = handler[q] /\ Knows(h)
    BY Handled
  <2>2. PICK o \in BOOLEAN : o = (h.overlapped \/ q \in Changing)
    OBVIOUS
  <2>3. handler'[q] = [handler[q] EXCEPT !.overlapped = handler[q].overlapped \/ q \in Changing]
    BY <1>2, <1>10
  <2>4. handler'[q] = [h EXCEPT !.overlapped = o]
    BY <2>1, <2>2, <2>3, Zenon
  <2>5. PICK g : g = [h EXCEPT !.overlapped = o]
    OBVIOUS
  <2>6. /\ g \in Locals /\ SameBut(g, h) /\ g.overlapped = o
    BY <2>5 DEF Locals, SameBut
  <2>7. ASSUME g.step = "idle" PROVE g = Idle
    <3>1. h.step = "idle"
      BY <2>6, <2>7 DEF SameBut
    <3>2. h = Idle /\ h.overlapped \in BOOLEAN
      BY <2>1, <3>1 DEF Knows, Locals
    <3>3. q \notin Changing
      BY <2>1, <3>1 DEF Changing, Busy
    <3>4. o = h.overlapped
      BY <2>2, <3>2, <3>3
    <3> QED BY <2>5, <3>2, <3>4 DEF Idle
  <2>8. g.overlapped <=> h.overlapped \/ q \in Changing
    BY <2>2, <2>6, Zenon
  <2> QED BY <2>1, <2>4, <2>5, <2>6, <2>7, <2>8
<1>11. /\ RequestsKnow' /\ KeysApart' /\ Missing' /\ OneRowEach'
       /\ PricesKeyed' /\ Counted' /\ DisabledHasNoAddress' /\ SoldAsLastWritten'
  <2>1. \A q \in Requests : q # r => SameBut(handler'[q], handler[q])
    BY <1>10
  <2>2. \A q \in Requests : handler'[q].step = "idle" => handler'[q] = Idle
    BY <1>3, <1>7, <1>10
  <2>3. /\ handler'[r].dto = dto /\ handler'[r].step = "find" /\ handler'[r].made = {}
        /\ handler'[r].tasks = <<>> /\ Knows(handler'[r])
        /\ Lacks(handler'[r], tagRows, tokens, doubled')
    BY <1>3, <1>7, <1>8, <1>9
  <2> QED BY <1>1, <1>4, <2>1, <2>2, <2>3, Arrived
<1>12. TypeOK'
  <2>1. handler' \in [Requests -> Locals]
    <3>1. \A q \in Requests : handler'[q] \in Locals
      BY <1>3, <1>7, <1>10
    <3>2. handler' = [q \in Requests |-> handler'[q]]
      BY <1>2
    <3> QED BY <3>1, <3>2
  <2>2. doubled' \subseteq Tags \cup Chains
    BY <1>1, <1>4, DoublesIs DEF IInv, TypeOK
  <2>3. sends' \in 0 .. MaxSends
    BY <1>1, RowBound DEF IInv, TypeOK
  <2> QED BY <1>1, <2>1, <2>2, <2>3 DEF IInv, TypeOK
<1>13. /\ Changing' = Changing \cup {r}
       /\ \A q \in Changing : q \in Requests /\ q # r /\ handler'[q].overlapped
  BY <1>1, <1>3, <1>7, <1>10 DEF Changing, Busy, SameBut
<1>14. Apart'
  <2>1. Changing # {} => handler'[r].overlapped
    BY <1>3, <1>5, <1>7
  <2>2. \A p, q \in Changing' : p # q => handler'[p].overlapped /\ handler'[q].overlapped
    BY <1>13, <2>1
  <2>3. ASSUME NEW q \in Changing', ~handler'[q].creates PROVE row' # None
    <3>1. CASE q = r
      BY <1>1, <1>3, <1>5, <1>7, <2>3, <3>1
    <3>2. CASE q # r
      <4>1. q \in Changing /\ handler'[q].creates = handler[q].creates
        BY <1>10, <1>13, <3>2 DEF SameBut
      <4> QED BY <1>1, <2>3, <4>1 DEF IInv, Apart
    <3> QED BY <3>1, <3>2
  <2> QED BY <2>2, <2>3 DEF Apart
<1>15. NothingStale'
  <2>1. ASSUME NEW q \in Changing', ~handler'[q].overlapped
        PROVE  StillSo(handler'[q], row', OfGame')
    <3>1. q = r
      BY <1>13, <2>1
    <3> QED BY <1>3, <1>7, <3>1 DEF StillSo
  <2> QED BY <2>1 DEF NothingStale
<1> QED BY <1>11, <1>12, <1>14, <1>15 DEF IInv

LEMMA FindTagStep ==
  ASSUME IInv, NEW r \in Requests, NEW name \in Tags, FindTag(r, name)
  PROVE  IInv'
<1> DEFINE dto  == [mode |-> "absent", donation |-> "absent", tags |-> <<name>>, prices |-> None]
           rows == {t \in tagRows : t.name = name}
<1>1. /\ handler[r].step = "idle" /\ sends < MaxSends /\ sends' = sends + 1
      /\ doubled' = doubled \cup Doubles(dto)
      /\ UNCHANGED <<row, tagRows, tokens, prices, lastPrice, dirty, sold, soldTwice>>
  BY DEF FindTag, Arrive, At, tables
<1>2. dto \in Pending
  <2>1. <<name>> \in SomeOf2(Tags)
    <3>1. <<name>> \in [1 .. 1 -> Tags] /\ 1 .. 1 = {1}
      OBVIOUS
    <3> QED BY <3>1 DEF SomeOf2
  <2> QED BY <2>1 DEF Pending, Given
<1>3. PICK found \in IF rows = {} THEN {{}} ELSE {{t.id} : t \in rows} :
        handler' = [handler EXCEPT ![r] =
                      [Idle EXCEPT !.step = "patch", !.dto = dto, !.found = found]]
  BY DEF FindTag
<1> HIDE DEF rows
<1>4. found \in SUBSET Ids /\ (found = {} => rows = {})
  <2>1. \A t \in rows : t.id \in Ids
    BY DEF rows, IInv, TypeOK, TagRow
  <2> QED BY <2>1
<1>5. PICK g : g = [Idle EXCEPT !.step = "patch", !.dto = dto, !.found = found]
  OBVIOUS
<1>6. PICK d : d = dto
  OBVIOUS
<1>7. d.tags = <<name>> \/ d.tags = None
  BY <1>6
<1>8. /\ g \in Locals /\ g.step = "patch" /\ g.dto = d /\ g.found = found
      /\ g.creates = FALSE /\ g.made = {} /\ g.unsell = {} /\ d \in Pending
  BY <1>2, <1>5, <1>6, <1>4, EmptyIsUpTo2 DEF Idle, Locals
<1> HIDE DEF dto
<1>9. handler \in [Requests -> Locals]
  BY DEF IInv, TypeOK
<1>10. handler'[r] = g /\ \A q \in Requests : q # r => handler'[q] = handler[q]
  BY <1>3, <1>5, <1>9
<1>11. Knows(g)
  BY <1>8 DEF Knows
<1>12. Lacks(g, tagRows, tokens, doubled')
  <2>1. \A i \in DOMAIN TagsOf(g) : TagsOf(g)[i] = name
    BY <1>7, <1>8 DEF TagsOf, Given2
  <2> QED BY <1>8, <1>4, <2>1 DEF Lacks, rows
<1>13. /\ RequestsKnow' /\ KeysApart' /\ Missing' /\ OneRowEach'
       /\ PricesKeyed' /\ Counted' /\ DisabledHasNoAddress' /\ SoldAsLastWritten'
  <2>1. \A q \in Requests : q # r => SameBut(handler'[q], handler[q])
    BY <1>10 DEF SameBut
  <2>2. \A q \in Requests : handler'[q].step = "idle" => handler'[q] = Idle
    BY <1>8, <1>10 DEF IInv, RequestsKnow, Knows
  <2> QED BY <1>1, <1>6, <1>8, <1>10, <1>11, <1>12, <2>1, <2>2, Arrived
<1>14. TypeOK'
  <2>1. handler' \in [Requests -> Locals]
    BY <1>3, <1>5, <1>8, <1>9
  <2>2. doubled' \subseteq Tags \cup Chains
    BY <1>1, <1>6, <1>8, DoublesIs DEF IInv, TypeOK
  <2>3. sends' \in 0 .. MaxSends
    BY <1>1, RowBound DEF IInv, TypeOK
  <2> QED BY <1>1, <2>1, <2>2, <2>3 DEF IInv, TypeOK
<1>15. Changing' = Changing /\ \A q \in Changing : q \in Requests /\ handler'[q] = handler[q]
  BY <1>1, <1>8, <1>10 DEF Changing, Busy
<1>16. Apart' /\ NothingStale'
  BY <1>1, <1>15 DEF IInv, Apart, NothingStale, Live, OfGame
<1> QED BY <1>13, <1>14, <1>16 DEF IInv

-----------------------------------------------------------------------------
(* Every step keeps the invariant. *)

LEMMA StutterStep ==
  ASSUME IInv, UNCHANGED vars
  PROVE  IInv'
<1>1. UNCHANGED <<row, tagRows, tokens, prices, lastPrice, handler, sends,
                  dirty, doubled, sold, soldTwice>>
  BY DEF vars, tables, history
<1>2. /\ Busy' = Busy /\ Changing' = Changing /\ OfGame' = OfGame /\ (Live' <=> Live)
  BY <1>1 DEF Busy, Changing, OfGame, Live
<1>3. TypeOK' /\ OneRowEach' /\ DisabledHasNoAddress' /\ SoldAsLastWritten'
  BY <1>1 DEF IInv, TypeOK, OneRowEach, DisabledHasNoAddress, SoldAsLastWritten
<1>4. RequestsKnow' /\ Apart' /\ KeysApart' /\ Missing' /\ PricesKeyed' /\ Counted'
  BY <1>1, <1>2 DEF IInv, RequestsKnow, Apart, KeysApart, Missing, PricesKeyed, Counted
<1>5. NothingStale'
  BY <1>1, <1>2 DEF IInv, NothingStale
<1> QED BY <1>3, <1>4, <1>5 DEF IInv

LEMMA NextIInv == IInv /\ [Next]_vars => IInv'
<1> SUFFICES ASSUME IInv, [Next]_vars PROVE IInv'
  OBVIOUS
<1>1. ASSUME NEW r \in Requests, NEW dto \in Dtos, Send(r, dto) PROVE IInv'
  BY <1>1, SendStep
<1>2. ASSUME NEW r \in Requests, Refuse(r) PROVE IInv'
  BY <1>2, StutterStep DEF Refuse
<1>3. ASSUME NEW r \in Requests, Find(r) PROVE IInv'
  BY <1>3, FindStep
<1>4. ASSUME NEW r \in Requests, FindTags(r) PROVE IInv'
  BY <1>4, FindTagsStep
<1>5. ASSUME NEW r \in Requests, NEW i \in DOMAIN handler[r].tasks,
             FindToken(r, i) \/ SaveToken(r, i) \/ RefuseToken(r, i) \/ SavePrice(r, i)
      PROVE  IInv'
  BY <1>5, FindTokenStep, SaveTokenStep, RefuseTokenStep, SavePriceStep
<1>6. ASSUME NEW r \in Requests, NEW n \in Tags, FindTag(r, n) PROVE IInv'
  BY <1>6, FindTagStep
<1>7. ASSUME NEW r \in Requests, SaveTag(r) PROVE IInv'
  BY <1>7, SaveTagStep
<1>8. ASSUME NEW r \in Requests, PricesDone(r) PROVE IInv'
  BY <1>8, PricesDoneStep
<1>9. ASSUME NEW r \in Requests, Select(r) PROVE IInv'
  BY <1>9, SelectStep
<1>10. ASSUME NEW r \in Requests, Insert(r) PROVE IInv'
  BY <1>10, InsertStep
<1>11. ASSUME NEW r \in Requests, Write(r) PROVE IInv'
  BY <1>11, WriteStep
<1>12. ASSUME NEW r \in Requests, Fail(r) PROVE IInv'
  BY <1>12, FailStep
<1>13. ASSUME NEW c \in Chains, PutToken(c) PROVE IInv'
  BY <1>13, PutTokenStep
<1>14. CASE Delete
  BY <1>14, DeleteStep
<1>15. CASE UNCHANGED vars
  BY <1>15, StutterStep
<1> QED BY <1>1, <1>2, <1>3, <1>4, <1>5, <1>6, <1>7, <1>8, <1>9, <1>10, <1>11, <1>12,
           <1>13, <1>14, <1>15 DEF Next

\* The invariant that the theorems below rest on.
THEOREM InvariantHolds == Spec => []IInv
<1>1. Init => IInv
  BY InitIInv
<1>2. IInv /\ [Next]_vars => IInv'
  BY NextIInv
<1> QED BY <1>1, <1>2, PTL DEF Spec

-----------------------------------------------------------------------------
\* After an update that overlapped none, a game with disabled payments has no
\* donation address.
THEOREM NoAddressKept == Spec => []DisabledHasNoAddress
<1>1. IInv => DisabledHasNoAddress
  BY DEF IInv
<1> QED BY <1>1, InvariantHolds, PTL

\* A name has one tag and an address one token that nobody asked for twice.
THEOREM NoneTwice == Spec => []OneRowEach
<1>1. IInv => OneRowEach
  BY DEF IInv
<1> QED BY <1>1, InvariantHolds, PTL

\* The game is sold for the prices of the last update that gave any.
THEOREM PricesAsGiven == Spec => []SoldAsLastWritten
<1>1. IInv => SoldAsLastWritten
  BY DEF IInv
<1> QED BY <1>1, InvariantHolds, PTL

\* An update that does not mention the mode, and overlaps none, keeps it.
THEOREM ModeStays == Spec => ModeKept
<1> DEFINE Keeps ==
      row \notin {None, Gone} /\ row' # Gone /\ row'.mode # row.mode =>
        \E r \in Requests :
          At(r, "write") /\ handler'[r] = Idle
            /\ (handler[r].asked = row'.mode \/ handler[r].overlapped)
<1>1. IInv /\ [Next]_vars => [Keeps]_vars
  <2> SUFFICES ASSUME IInv, Next, row \notin {None, Gone}, row' # row
               PROVE  Keeps \/ row' = Gone
    OBVIOUS
  <2>1. CASE Delete
    BY <2>1 DEF Delete
  <2>2. ASSUME NEW r \in Requests, Write(r) PROVE Keeps
    BY <2>2, WriteStep DEF Write
  <2>3. ASSUME NEW r \in Requests, Insert(r) PROVE Keeps
    BY <2>3 DEF Insert
  <2>4. ASSUME NEW r \in Requests,
               Refuse(r) \/ Find(r) \/ FindTags(r) \/ SaveTag(r) \/ PricesDone(r)
                 \/ Select(r) \/ Fail(r)
        PROVE  row' = row
    BY <2>4 DEF Refuse, Find, FindTags, SaveTag, PricesDone, Select, Fail, vars
  <2>5. ASSUME NEW r \in Requests, NEW i \in DOMAIN handler[r].tasks,
               FindToken(r, i) \/ SaveToken(r, i) \/ RefuseToken(r, i) \/ SavePrice(r, i)
        PROVE  row' = row
    BY <2>5 DEF FindToken, SaveToken, RefuseToken, SavePrice
  <2>6. ASSUME NEW r \in Requests,
               (\E n \in Tags : FindTag(r, n)) \/ (\E dto \in Dtos : Send(r, dto))
        PROVE  row' = row
    BY <2>6 DEF FindTag, Send
  <2>7. (\E c \in Chains : PutToken(c)) => row' = row
    BY DEF PutToken
  <2> HIDE DEF Keeps
  <2> QED BY <2>1, <2>2, <2>3, <2>4, <2>5, <2>6, <2>7 DEF Next
<1> QED BY <1>1, InvariantHolds, PTL DEF Spec, ModeKept
=============================================================================
