---------------------------- MODULE AppCache_proofs ----------------------------
(***************************************************************************)
(* Proofs about AppCache, for any states, grants, users and requests: a      *)
(* state serves once, Discord is asked once, only the latest nonce is        *)
(* accepted, and calendars do not go back, where no two requests overlapped  *)
(* at the key and the cache did not fail.                                    *)
(***************************************************************************)
EXTENDS AppCache, TLAPS

OAuthSteps   == {"setSubject", "getSubject", "fetch", "delSubject"}
NonceSteps   == {"delNonce", "setNonce", "getNonce"}
SourceSteps  == {"lazyGet", "compute", "setEntry"}

\* A step works on keys of its kind.
KeyFits(h) ==
  /\ h.step \in OAuthSteps  => h.key \in States
  /\ h.step \in NonceSteps  => h.key \in Addresses
  /\ h.step \in SourceSteps => h.key \in Sources

KeyOfStep == \A r \in Requests : KeyFits(handler[r])

TypeInv == TypeOK /\ KeyOfStep

\* What is in the cache, in a callback and in the calls goes back to the request
\* that the state was generated for.
StoredAsIssued == \A s \in States : subject[s] # Miss => subject[s] = issued[s]

GrantOfIssued == \A g \in Grants : grant[g] # Miss => issued[grant[g].state] # Miss

CallbackFits(h) ==
  /\ h.step \in {"getSubject", "fetch", "delSubject"} =>
       h.grant \in Grants /\ grant[h.grant] # Miss /\ grant[h.grant].state = h.key
  /\ h.step \in {"fetch", "delSubject"} =>
       h.subject # Miss /\ h.subject = issued[h.key]

CallbackOfGrant == \A r \in Requests : CallbackFits(handler[r])

HandedOfGrant == \A h \in handed : grant[h.grant] # Miss

OriginInv ==
  /\ TypeInv
  /\ StoredAsIssued /\ GrantOfIssued /\ CallbackOfGrant
  /\ HandedOfGrant

\* Two requests at one key disturb it.
OneAtKey ==
  \A q, r \in Requests :
    q # r /\ Busy(q) /\ Busy(r) /\ handler[q].key = handler[r].key
      => handler[q].key \in disturbed

\* Nobody comes back with a state before it was stored.
NoGrantYet ==
  \A r \in Requests, g \in Grants :
    At(r, "setSubject") /\ grant[g] # Miss => grant[g].state # handler[r].key

\* The states that callbacks in progress found.
HoldsSubject(r) == handler[r].step \in {"fetch", "delSubject"}

\* Discord is asked after the state was deleted.
DeletedAtDiscord ==
  \A r \in Requests :
    In(r, "discord", "fetch") /\ handler[r].key \notin disturbed
      => subject[handler[r].key] = Miss

\* A state that served is neither stored nor held by a callback.
GoneOnceServed ==
  \A h \in handed :
    grant[h.grant].state \notin disturbed =>
      /\ subject[grant[h.grant].state] = Miss
      /\ \A r \in Requests :
           HoldsSubject(r) => handler[r].key # grant[h.grant].state

Serves == NoGrantYet /\ DeletedAtDiscord /\ GoneOnceServed /\ OncePerState

IInv == OriginInv /\ OneAtKey /\ Serves

-------------------------------------------------------------------------------
(* Types. *)

LEMMA IdleFits == Idle \in Locals /\ KeyFits(Idle)
BY DEF Idle, Locals, Steps, KeyFits, OAuthSteps, NonceSteps, SourceSteps

\* A callback that finds its subject, or goes on with it.
LEMMA CallbackMoves ==
  ASSUME NEW h \in Locals, h.key \in States,
         NEW step \in {"fetch", "delSubject"}, NEW got \in Asked \cup {Miss}
  PROVE  /\ [h EXCEPT !.step = step, !.subject = got] \in Locals
         /\ KeyFits([h EXCEPT !.step = step, !.subject = got])
         /\ [h EXCEPT !.step = step] \in Locals
         /\ KeyFits([h EXCEPT !.step = step])
<1>1. step \in Steps /\ step \notin NonceSteps /\ step \notin SourceSteps
  BY DEF Steps, NonceSteps, SourceSteps
<1>2. /\ [h EXCEPT !.step = step] \in Locals
      /\ [h EXCEPT !.step = step].step = step
      /\ [h EXCEPT !.step = step].key = h.key
  BY <1>1 DEF Locals
<1>3. /\ [h EXCEPT !.step = step, !.subject = got] \in Locals
      /\ [h EXCEPT !.step = step, !.subject = got].step = step
      /\ [h EXCEPT !.step = step, !.subject = got].key = h.key
  BY <1>1 DEF Locals
<1> QED
  BY <1>1, <1>2, <1>3 DEF KeyFits

\* A request that goes on with locals that fit keeps the types of all of them.
LEMMA HandlerMoves ==
  ASSUME TypeInv, NEW r \in Requests, NEW h \in Locals, KeyFits(h),
         handler' = [handler EXCEPT ![r] = h]
  PROVE  handler' \in [Requests -> Locals] /\ KeyOfStep'
BY DEF TypeInv, TypeOK, KeyOfStep, KeyFits

\* So does a request that begins.
LEMMA BeginTypes ==
  ASSUME TypeInv, NEW r \in Requests, NEW h \in Locals, KeyFits(h), Begin(r, h),
         h.key \in Keys,
         UNCHANGED <<cache, grant, spent, lastCode, version,
                     handed, asked, latest, lapsed, verified>>,
         issued' \in [States -> Asked \cup {Miss}]
  PROVE  TypeInv'
<1>1. handler' \in [Requests -> Locals] /\ KeyOfStep'
  BY HandlerMoves DEF Begin
<1>2. disturbed' \subseteq Keys
  BY DEF Begin, TypeInv, TypeOK
<1> QED
  BY <1>1, <1>2 DEF TypeInv, TypeOK, cache

LEMMA TypeInit == Init => TypeInv
<1> SUFFICES ASSUME Init PROVE TypeInv
  OBVIOUS
<1>1. KeyOfStep /\ handler \in [Requests -> Locals]
  BY IdleFits DEF Init, KeyOfStep
<1> QED
  BY <1>1 DEF Init, TypeInv, TypeOK

LEMMA EndpointsKeepTypes ==
  ASSUME TypeInv, NEW r \in Requests,
         \/ GitHubEndpoints(r) \/ DiscordEndpoints(r) \/ MetaMaskEndpoints(r)
         \/ \E q \in Sources : GetICal(r, q)
  PROVE  TypeInv'
<1>1. ASSUME NEW p \in Platforms, NEW param \in Params, NEW s \in States,
             BuildState(r, p, param, s)
      PROVE  TypeInv'
  <2> DEFINE h == [Idle EXCEPT !.step = "setSubject", !.key = s]
  <2>1. h \in Locals /\ KeyFits(h) /\ h.key \in Keys
    BY DEF Idle, Locals, Steps, Keys, KeyFits, OAuthSteps, NonceSteps, SourceSteps
  <2>2. issued' \in [States -> Asked \cup {Miss}]
    BY <1>1 DEF BuildState, TypeInv, TypeOK, Asked
  <2> QED
    BY <1>1, <2>1, <2>2, BeginTypes DEF BuildState
<1>2. ASSUME NEW g \in Grants, NEW p \in Platforms, Callback(r, g, p)
      PROVE  TypeInv'
  <2> DEFINE h == [Idle EXCEPT !.step = "getSubject", !.key = grant[g].state,
                               !.grant = g]
  <2>1. grant[g].state \in States
    BY <1>2 DEF Callback, TypeInv, TypeOK, Redirects
  <2>2. h \in Locals /\ KeyFits(h) /\ h.key \in Keys
    BY <2>1 DEF Idle, Locals, Steps, Keys, KeyFits, OAuthSteps, NonceSteps, SourceSteps
  <2> QED
    BY <1>2, <2>2, BeginTypes DEF Callback, outside, TypeInv, TypeOK
<1>3. ASSUME NEW a \in Addresses, RequestNonce(r, a)
      PROVE  TypeInv'
  <2> DEFINE h == [Idle EXCEPT !.step = "delNonce", !.key = a]
  <2>1. h \in Locals /\ KeyFits(h) /\ h.key \in Keys
    BY DEF Idle, Locals, Steps, Keys, KeyFits, OAuthSteps, NonceSteps, SourceSteps
  <2> QED
    BY <1>3, <2>1, BeginTypes DEF RequestNonce, outside, TypeInv, TypeOK
<1>4. ASSUME NEW a \in Addresses, NEW c \in Codes, Verify(r, a, c)
      PROVE  TypeInv'
  <2> DEFINE h == [Idle EXCEPT !.step = "getNonce", !.key = a, !.code = c]
  <2>1. h \in Locals /\ KeyFits(h) /\ h.key \in Keys
    <3>1. c \in Nat
      BY CacheBounds DEF CacheBounds, Codes
    <3> QED
      BY <3>1 DEF Idle, Locals, Steps, Keys, KeyFits,
                  OAuthSteps, NonceSteps, SourceSteps
  <2> QED
    BY <1>4, <2>1, BeginTypes DEF Verify, outside, TypeInv, TypeOK
<1>5. ASSUME NEW q \in Sources, GetICal(r, q)
      PROVE  TypeInv'
  <2> DEFINE h == [Idle EXCEPT !.step = "lazyGet", !.key = q]
  <2>1. h \in Locals /\ KeyFits(h) /\ h.key \in Keys
    BY DEF Idle, Locals, Steps, Keys, KeyFits, OAuthSteps, NonceSteps, SourceSteps
  <2> QED
    BY <1>5, <2>1, BeginTypes DEF GetICal, outside, TypeInv, TypeOK
<1> QED
  BY <1>1, <1>2, <1>3, <1>4, <1>5
     DEF GitHubEndpoints, DiscordEndpoints, MetaMaskEndpoints,
         RequestGitHub, RequestDiscord, Platforms

\* Steps of a request that only move it on, or back to idle.
LEMMA MoveTypes ==
  ASSUME TypeInv, NEW r \in Requests, NEW h \in Locals, KeyFits(h),
         handler' = [handler EXCEPT ![r] = h],
         UNCHANGED <<cache, issued, grant, lastCode, version, latest, lapsed,
                     verified, disturbed>>,
         spent' \subseteq Grants, asked' \subseteq States,
         handed' \subseteq [grant : Grants, platform : Platforms,
                            param : Params, user : Users]
  PROVE  TypeInv'
<1>1. handler' \in [Requests -> Locals] /\ KeyOfStep'
  BY HandlerMoves
<1> QED
  BY <1>1 DEF TypeInv, TypeOK, cache

LEMMA ForgetTypes ==
  ASSUME TypeInv, NEW s \in States, Forget(s)
  PROVE  /\ subject' \in [States -> Asked \cup {Miss}]
         /\ disturbed' \subseteq Keys
BY DEF Forget, AfterDel, Noting, TypeInv, TypeOK, Keys

\* The call that a callback ends in.
LEMMA HandOverTypes ==
  ASSUME OriginInv, NEW r \in Requests, HandOver(r),
         handler[r].step \in {"fetch", "delSubject"}
  PROVE  handed' \subseteq [grant : Grants, platform : Platforms,
                            param : Params, user : Users]
<1>1. handler[r] \in Locals /\ handler[r].subject \in Asked
  BY DEF OriginInv, CallbackOfGrant, CallbackFits, TypeInv, TypeOK, Locals
<1>2. handler[r].grant \in Grants /\ grant[handler[r].grant] \in Redirects
  BY DEF OriginInv, CallbackOfGrant, CallbackFits, TypeInv, TypeOK
<1> QED
  BY <1>1, <1>2 DEF HandOver, OriginInv, TypeInv, TypeOK, Asked, Redirects

\* OAuth2: types after the steps of a callback need to know that it has a grant.
LEMMA OAuthKeepsTypes ==
  ASSUME OriginInv, NEW r \in Requests,
         \/ SetSubject(r)
         \/ GitHubFind(r) \/ GitHubFetch(r) \/ GitHubFinish(r)
         \/ DiscordFind(r) \/ DiscordDelete(r) \/ DiscordFetch(r)
  PROVE  TypeInv'
<1> USE DEF OriginInv
<1>a. handler[r] \in Locals /\ KeyFits(handler[r])
  BY DEF TypeInv, TypeOK, KeyOfStep
<1>c. ASSUME NEW g, Named(g) \/ Failed(g), g \in Grants
      PROVE  spent' \subseteq Grants
  BY <1>c DEF Named, Failed, TypeInv, TypeOK
<1>1. ASSUME SetSubject(r) PROVE TypeInv'
  <2>1. handler[r].key \in States
    BY <1>a, <1>1 DEF SetSubject, At, KeyFits, OAuthSteps
  <2>2. handler' \in [Requests -> Locals] /\ KeyOfStep'
    BY <1>1, IdleFits, HandlerMoves DEF SetSubject, Return
  <2>3. subject' \in [States -> Asked \cup {Miss}] /\ disturbed' \subseteq Keys
    BY <1>1, <2>1 DEF SetSubject, AfterSet, Noting, TypeInv, TypeOK, Keys
  <2> QED
    BY <1>1, <2>2, <2>3 DEF SetSubject, TypeInv, TypeOK, outside
<1>2. ASSUME NEW p, NEW next \in {"fetch", "delSubject"}, FindSubject(r, p, next)
      PROVE  TypeInv'
  <2>1. At(r, "getSubject") /\ handler[r].key \in States
    BY <1>a, <1>2 DEF FindSubject, In, At, KeyFits, OAuthSteps
  <2>2. PICK got \in Gets(subject[handler[r].key]) :
          \/ handler' = [handler EXCEPT ![r].step = next, ![r].subject = got]
          \/ Return(r)
    BY <1>2 DEF FindSubject
  <2>3. got \in Asked \cup {Miss}
    BY <2>1 DEF Gets, TypeInv, TypeOK
  <2>4. \E h \in Locals : KeyFits(h) /\ handler' = [handler EXCEPT ![r] = h]
    <3>1. CASE Return(r)
      BY <3>1, IdleFits DEF Return
    <3>2. CASE handler' = [handler EXCEPT ![r].step = next, ![r].subject = got]
      BY <3>2, <1>a, CallbackMoves, <2>1, <2>3 DEF At, OAuthSteps, TypeInv, TypeOK
    <3> QED
      BY <2>2, <3>1, <3>2
  <2> QED
    BY <1>2, <2>4, MoveTypes DEF FindSubject, outside, history, TypeInv, TypeOK
<1>3. ASSUME In(r, "github", "fetch") \/ In(r, "discord", "fetch"),
             \/ Named(handler[r].grant) \/ Failed(handler[r].grant),
             Fetch(r),
             \/ Return(r) /\ handed' = handed
             \/ Goto(r, "delSubject") /\ handed' = handed
             \/ HandOver(r)
      PROVE  TypeInv'
  <2>1. At(r, "fetch") /\ handler[r].key \in States /\ handler[r].grant \in Grants
    BY <1>a, <1>3 DEF In, At, KeyFits, OAuthSteps, CallbackOfGrant, CallbackFits
  <2>2. spent' \subseteq Grants
    BY <1>3, <1>c, <2>1
  <2>3. handed' \subseteq [grant : Grants, platform : Platforms,
                           param : Params, user : Users]
    BY <1>3, <2>1, HandOverTypes DEF At, TypeInv, TypeOK
  <2>4. \E h \in Locals : KeyFits(h) /\ handler' = [handler EXCEPT ![r] = h]
    <3>1. CASE handler' = [handler EXCEPT ![r] = Idle]
      BY <3>1, IdleFits
    <3>2. CASE Goto(r, "delSubject")
      BY <3>2, <1>a, CallbackMoves, <2>1 DEF Goto, At, OAuthSteps, TypeInv, TypeOK
    <3> QED
      BY <1>3, <3>1, <3>2 DEF Return, HandOver
  <2> QED
    BY <1>3, <2>1, <2>2, <2>3, <2>4, MoveTypes DEF Fetch, TypeInv, TypeOK
<1>4. ASSUME GitHubFinish(r) \/ DiscordDelete(r) PROVE TypeInv'
  <2>1. At(r, "delSubject") /\ handler[r].key \in States /\ Forget(handler[r].key)
    BY <1>a, <1>4 DEF GitHubFinish, DiscordDelete, In, At, KeyFits, OAuthSteps
  <2>2. subject' \in [States -> Asked \cup {Miss}] /\ disturbed' \subseteq Keys
    BY <2>1, ForgetTypes
  <2>3. handed' \subseteq [grant : Grants, platform : Platforms,
                           param : Params, user : Users]
    BY <1>4, <2>1, HandOverTypes DEF GitHubFinish, DiscordDelete, At, TypeInv, TypeOK
  <2>4. \E h \in Locals : KeyFits(h) /\ handler' = [handler EXCEPT ![r] = h]
    <3>1. CASE handler' = [handler EXCEPT ![r] = Idle]
      BY <3>1, IdleFits
    <3>2. CASE Goto(r, "fetch")
      BY <3>2, <1>a, CallbackMoves, <2>1 DEF Goto, At, OAuthSteps, TypeInv, TypeOK
    <3> QED
      BY <1>4, <3>1, <3>2 DEF GitHubFinish, DiscordDelete, HandOver, Return
  <2>5. handler' \in [Requests -> Locals] /\ KeyOfStep'
    BY <2>4, HandlerMoves
  <2> QED
    BY <1>4, <2>1, <2>2, <2>3, <2>5
       DEF GitHubFinish, DiscordDelete, Forget, TypeInv, TypeOK, outside
<1> QED
  BY <1>1, <1>2, <1>3, <1>4
     DEF GitHubFind, GitHubFetch, DiscordFind, DiscordFetch

LEMMA NonceKeepsTypes ==
  ASSUME TypeInv, NEW r \in Requests, DelNonce(r) \/ SetNonce(r) \/ GetNonce(r)
  PROVE  TypeInv'
<1> DEFINE a == handler[r].key
<1>a. handler[r] \in Locals /\ KeyFits(handler[r])
  BY DEF TypeInv, TypeOK, KeyOfStep
<1>b. a \in Addresses /\ a \in Keys /\ handler[r].code \in Nat
  BY <1>a DEF DelNonce, SetNonce, GetNonce, At, KeyFits, NonceSteps, Keys, Locals
<1>1. CASE DelNonce(r)
  <2> DEFINE h == [handler[r] EXCEPT !.step = "setNonce", !.code = lastCode + 1]
  <2>1. \A g \in Locals, c \in Nat :
          g.key \in Addresses => /\ [g EXCEPT !.step = "setNonce", !.code = c] \in Locals
                                 /\ KeyFits([g EXCEPT !.step = "setNonce", !.code = c])
    BY DEF Locals, Steps, KeyFits, OAuthSteps, NonceSteps, SourceSteps
  <2>2. lastCode + 1 \in Nat
    BY DEF TypeInv, TypeOK
  <2>3. h \in Locals /\ KeyFits(h)
    BY <1>a, <1>b, <2>1, <2>2
  <2>4. handler' = [handler EXCEPT ![r] = h]
    BY <1>1 DEF DelNonce, TypeInv, TypeOK
  <2>5. handler' \in [Requests -> Locals] /\ KeyOfStep'
    BY <2>3, <2>4, HandlerMoves
  <2>6. nonce' \in [Addresses -> Nat \cup {Miss}] /\ disturbed' \subseteq Keys
    BY <1>1, <1>b DEF DelNonce, AfterDel, Noting, TypeInv, TypeOK
  <2> QED
    BY <1>1, <2>2, <2>5, <2>6 DEF DelNonce, TypeInv, TypeOK
<1>2. CASE SetNonce(r)
  <2>1. handler' \in [Requests -> Locals] /\ KeyOfStep'
    BY <1>2, IdleFits, HandlerMoves DEF SetNonce, Return
  <2>2. nonce' \in [Addresses -> Nat \cup {Miss}] /\ disturbed' \subseteq Keys
    BY <1>2, <1>b DEF SetNonce, AfterSet, Noting, TypeInv, TypeOK
  <2>3. latest' \in [Addresses -> Nat] /\ lapsed' \subseteq Addresses
    BY <1>2, <1>b DEF SetNonce, TypeInv, TypeOK
  <2> QED
    BY <1>2, <2>1, <2>2, <2>3 DEF SetNonce, TypeInv, TypeOK
<1>3. CASE GetNonce(r)
  <2>1. handler' \in [Requests -> Locals] /\ KeyOfStep'
    BY <1>3, IdleFits, HandlerMoves DEF GetNonce, Return
  <2>2. disturbed' \subseteq Keys /\ verified' \in BOOLEAN
    BY <1>3, <1>b DEF GetNonce, Noting, TypeInv, TypeOK
  <2> QED
    BY <1>3, <2>1, <2>2 DEF GetNonce, TypeInv, TypeOK, cache, outside
<1> QED
  BY <1>1, <1>2, <1>3

LEMMA CalendarKeepsTypes ==
  ASSUME TypeInv, NEW r \in Requests, LazyGet(r) \/ Compute(r) \/ SetEntry(r)
  PROVE  TypeInv'
<1> DEFINE q == handler[r].key
<1>a. handler[r] \in Locals /\ KeyFits(handler[r])
  BY DEF TypeInv, TypeOK, KeyOfStep
<1>b. q \in Sources /\ handler[r].value \in Nat /\ version[q] \in Nat
  BY <1>a DEF LazyGet, Compute, SetEntry, At, KeyFits, SourceSteps, Locals,
              TypeInv, TypeOK
<1>c. \A g \in Locals, v \in Nat :
        g.key \in Sources =>
          /\ [g EXCEPT !.step = "compute"] \in Locals
          /\ KeyFits([g EXCEPT !.step = "compute"])
          /\ [g EXCEPT !.step = "setEntry", !.value = v] \in Locals
          /\ KeyFits([g EXCEPT !.step = "setEntry", !.value = v])
  <2> SUFFICES ASSUME NEW g \in Locals, NEW v \in Nat, g.key \in Sources
               PROVE  /\ [g EXCEPT !.step = "compute"] \in Locals
                      /\ KeyFits([g EXCEPT !.step = "compute"])
                      /\ [g EXCEPT !.step = "setEntry", !.value = v] \in Locals
                      /\ KeyFits([g EXCEPT !.step = "setEntry", !.value = v])
    OBVIOUS
  <2>1. \A s \in {"compute", "setEntry"} :
          s \in Steps /\ s \in SourceSteps /\ s \notin OAuthSteps \cup NonceSteps
    BY DEF Steps, OAuthSteps, NonceSteps, SourceSteps
  <2>2. PICK f : f = [g EXCEPT !.step = "compute"]
    OBVIOUS
  <2>3. f \in Locals /\ f.step = "compute" /\ f.key = g.key
    BY <2>1, <2>2 DEF Locals
  <2>4. PICK h : h = [g EXCEPT !.step = "setEntry", !.value = v]
    OBVIOUS
  <2>5. h \in Locals /\ h.step = "setEntry" /\ h.key = g.key
    BY <2>1, <2>4 DEF Locals
  <2>6. KeyFits(f) /\ KeyFits(h)
    BY <2>1, <2>3, <2>5 DEF KeyFits
  <2> QED
    BY <2>2, <2>3, <2>4, <2>5, <2>6
<1>d. \E h \in Locals : KeyFits(h) /\ handler' = [handler EXCEPT ![r] = h]
  <2>1. CASE handler' = [handler EXCEPT ![r] = Idle]
    BY <2>1, IdleFits
  <2>2. CASE Goto(r, "compute")
    <3>1. handler' = [handler EXCEPT ![r] = [handler[r] EXCEPT !.step = "compute"]]
      BY <2>2 DEF Goto, TypeInv, TypeOK
    <3> QED
      BY <3>1, <1>a, <1>b, <1>c
  <2>3. CASE handler' = [handler EXCEPT ![r].step = "setEntry", ![r].value = version[q]]
    <3>1. handler' = [handler EXCEPT ![r] =
                        [handler[r] EXCEPT !.step = "setEntry", !.value = version[q]]]
      BY <2>3 DEF TypeInv, TypeOK
    <3> QED
      BY <3>1, <1>a, <1>b, <1>c
  <2> QED
    BY <2>1, <2>2, <2>3 DEF LazyGet, Compute, SetEntry, Return
<1>1. CASE LazyGet(r) \/ Compute(r)
  BY <1>1, <1>d, MoveTypes DEF LazyGet, Compute, outside, history, TypeInv, TypeOK
<1>2. CASE SetEntry(r)
  <2>1. handler' \in [Requests -> Locals] /\ KeyOfStep'
    BY <1>d, HandlerMoves
  <2>2. entry' \in [Sources -> Nat \cup {Miss}]
    BY <1>2, <1>b DEF SetEntry, AfterSet, TypeInv, TypeOK
  <2> QED
    BY <1>2, <2>1, <2>2 DEF SetEntry, TypeInv, TypeOK, outside, history
<1> QED
  BY <1>1, <1>2

\* What happens outside of the server, and the ends of times to live.
LEMMA OutsideKeepsTypes ==
  ASSUME TypeInv,
         \/ \E g \in Grants, s \in States, u \in Users : Redirect(g, s, u)
         \/ \E q \in Sources : Publish(q)
         \/ Expire
         \/ UNCHANGED vars
  PROVE  TypeInv'
<1>1. ASSUME NEW g \in Grants, NEW s \in States, NEW u \in Users, Redirect(g, s, u)
      PROVE  TypeInv'
  <2>1. grant' \in [Grants -> Redirects \cup {Miss}]
    BY <1>1 DEF Redirect, Redirects, TypeInv, TypeOK
  <2> QED
    BY <1>1, <2>1 DEF Redirect, cache, history, TypeInv, TypeOK, KeyOfStep
<1>2. ASSUME NEW q \in Sources, Publish(q)
      PROVE  TypeInv'
  <2>1. version' \in [Sources -> Nat]
    BY <1>2 DEF Publish, TypeInv, TypeOK
  <2> QED
    BY <1>2, <2>1 DEF Publish, cache, history, TypeInv, TypeOK, KeyOfStep
<1>3. CASE Expire
  <2>1. /\ subject' \in [States -> Asked \cup {Miss}]
        /\ nonce' \in [Addresses -> Nat \cup {Miss}]
        /\ entry' \in [Sources -> Nat \cup {Miss}]
        /\ lapsed' \subseteq Addresses
    BY <1>3 DEF Expire, TypeInv, TypeOK
  <2> QED
    BY <1>3, <2>1 DEF Expire, outside, TypeInv, TypeOK, KeyOfStep
<1>4. CASE UNCHANGED vars
  BY <1>4 DEF vars, cache, outside, history, TypeInv, TypeOK, KeyOfStep
<1> QED
  BY <1>1, <1>2, <1>3, <1>4

-------------------------------------------------------------------------------
(* What is remembered about a state goes back to the request it was made for. *)

LEMMA OriginInit == Init => OriginInv
<1> SUFFICES ASSUME Init PROVE OriginInv
  OBVIOUS
<1>1. CallbackOfGrant
  BY DEF Init, CallbackOfGrant, CallbackFits, Idle
<1> QED
  BY <1>1, TypeInit
     DEF Init, OriginInv, StoredAsIssued, GrantOfIssued, HandedOfGrant

\* Steps that store at most what was issued, and leave the callbacks as they
\* were or as they should be.
LEMMA OriginFrame ==
  ASSUME OriginInv, TypeInv', UNCHANGED <<issued, grant, handed>>,
         \A s \in States : subject'[s] \in {subject[s], issued[s], Miss},
         \A r \in Requests : handler'[r] = handler[r] \/ CallbackFits(handler'[r])
  PROVE  OriginInv'
<1>1. StoredAsIssued'
  BY DEF OriginInv, StoredAsIssued
<1>2. CallbackOfGrant'
  BY DEF OriginInv, CallbackOfGrant, CallbackFits
<1>3. GrantOfIssued' /\ HandedOfGrant'
  BY DEF OriginInv, GrantOfIssued, HandedOfGrant
<1> QED
  BY <1>1, <1>2, <1>3 DEF OriginInv

\* A new state: nothing stored, no redirect, callback or call has it yet.
LEMMA OriginBuildState ==
  ASSUME OriginInv, TypeInv', NEW r \in Requests, NEW p \in Platforms,
         NEW param \in Params, NEW s \in States, BuildState(r, p, param, s)
  PROVE  OriginInv'
<1> DEFINE a == [platform |-> p, param |-> param]
<1>1. a \in Asked /\ a # Miss
  BY MissIsFresh DEF MissIsFresh, Asked
<1>2. /\ issued[s] = Miss /\ issued' = [issued EXCEPT ![s] = a]
      /\ UNCHANGED <<subject, grant, handed>>
  BY DEF BuildState, cache
<1>3. \A t \in States : issued[t] # Miss => issued'[t] = issued[t]
  BY <1>2 DEF OriginInv, TypeInv, TypeOK
<1>4. StoredAsIssued'
  BY <1>2, <1>3 DEF OriginInv, StoredAsIssued
<1>5. \A g \in Grants : grant[g] # Miss => grant[g].state \in States
  BY DEF OriginInv, TypeInv, TypeOK, Redirects
<1>6. GrantOfIssued'
  BY <1>2, <1>3, <1>5 DEF OriginInv, GrantOfIssued
<1>7. CallbackOfGrant'
  <2> SUFFICES ASSUME NEW q \in Requests PROVE CallbackFits(handler[q])'
    BY DEF CallbackOfGrant
  <2>1. CASE q = r
    BY <2>1 DEF BuildState, Begin, CallbackFits, OriginInv, TypeInv, TypeOK, Idle
  <2>2. CASE q # r
    <3>1. handler'[q] = handler[q] /\ CallbackFits(handler[q])
      BY <2>2 DEF BuildState, Begin, OriginInv, TypeInv, TypeOK, CallbackOfGrant
    <3>2. handler[q].step \in {"fetch", "delSubject"} => handler[q].key \in States
      BY DEF OriginInv, TypeInv, KeyOfStep, KeyFits, OAuthSteps
    <3> QED
      BY <3>1, <3>2, <1>2, <1>3 DEF CallbackFits
  <2> QED
    BY <2>1, <2>2
<1>8. HandedOfGrant'
  BY <1>2 DEF OriginInv, HandedOfGrant
<1> QED
  BY <1>4, <1>6, <1>7, <1>8 DEF OriginInv

\* A redirect that was not used before.
LEMMA OriginRedirect ==
  ASSUME OriginInv, TypeInv', NEW g \in Grants, NEW s \in States, NEW u \in Users,
         Redirect(g, s, u)
  PROVE  OriginInv'
<1>1. /\ grant[g] = Miss /\ issued[s] # Miss
      /\ grant' = [grant EXCEPT ![g] = [state |-> s, user |-> u]]
      /\ UNCHANGED <<subject, issued, handler, handed>>
  BY DEF Redirect, cache, history
<1>2. \A f \in Grants : grant[f] # Miss => grant'[f] = grant[f]
  BY <1>1 DEF OriginInv, TypeInv, TypeOK
<1>3. StoredAsIssued'
  BY <1>1 DEF OriginInv, StoredAsIssued
<1>4. GrantOfIssued'
  BY <1>1 DEF OriginInv, GrantOfIssued, TypeInv, TypeOK
<1>5. CallbackOfGrant'
  BY <1>1, <1>2 DEF OriginInv, CallbackOfGrant, CallbackFits
<1>6. \A h \in handed : h.grant \in Grants /\ grant[h.grant] # Miss
  BY DEF OriginInv, HandedOfGrant, TypeInv, TypeOK
<1>7. HandedOfGrant'
  BY <1>1, <1>2, <1>6 DEF OriginInv, HandedOfGrant
<1> QED
  BY <1>3, <1>4, <1>5, <1>7 DEF OriginInv

\* The call at the end of a callback.
LEMMA OriginHandOver ==
  ASSUME OriginInv, TypeInv', NEW r \in Requests, HandOver(r),
         handler[r].step \in {"fetch", "delSubject"},
         UNCHANGED <<issued, grant>>,
         \A s \in States : subject'[s] \in {subject[s], Miss}
  PROVE  OriginInv'
<1> DEFINE h == handler[r]
<1>1. /\ h.grant \in Grants /\ grant[h.grant] # Miss
      /\ grant[h.grant].state = h.key
      /\ h.subject # Miss /\ h.subject = issued[h.key]
  BY DEF OriginInv, CallbackOfGrant, CallbackFits
<1>2. StoredAsIssued'
  BY DEF OriginInv, StoredAsIssued
<1>3. GrantOfIssued'
  BY DEF OriginInv, GrantOfIssued
<1>4. CallbackOfGrant'
  BY DEF OriginInv, CallbackOfGrant, CallbackFits, HandOver, Return, Idle,
         TypeInv, TypeOK
<1>5. HandedOfGrant'
  BY <1>1 DEF OriginInv, HandedOfGrant, HandOver
<1> QED
  BY <1>2, <1>3, <1>4, <1>5 DEF OriginInv

LEMMA OriginOAuth ==
  ASSUME OriginInv, NEW r \in Requests,
         \/ SetSubject(r)
         \/ GitHubFind(r) \/ GitHubFetch(r) \/ GitHubFinish(r)
         \/ DiscordFind(r) \/ DiscordDelete(r) \/ DiscordFetch(r)
  PROVE  OriginInv'
<1>t. TypeInv'
  BY OAuthKeepsTypes
<1>a. /\ handler \in [Requests -> Locals] /\ subject \in [States -> Asked \cup {Miss}]
      /\ handler[r].step \in {"getSubject", "fetch", "delSubject"} =>
           handler[r].key \in States
  BY DEF OriginInv, TypeInv, TypeOK, KeyOfStep, KeyFits, OAuthSteps
<1>b. CallbackFits(handler[r]) /\ CallbackFits(Idle)
  BY DEF OriginInv, CallbackOfGrant, CallbackFits, Idle
<1>1. CASE SetSubject(r)
  <2>1. \A q \in Requests : handler'[q] = handler[q] \/ CallbackFits(handler'[q])
    BY <1>1, <1>a, <1>b DEF SetSubject, Return
  <2> QED
    BY <1>1, <1>t, <1>a, <2>1, OriginFrame DEF SetSubject, AfterSet, outside
<1>2. ASSUME NEW p, NEW next \in {"fetch", "delSubject"}, FindSubject(r, p, next)
      PROVE  OriginInv'
  <2>1. At(r, "getSubject") /\ handler[r].key \in States
    BY <1>2, <1>a DEF FindSubject, In, At
  <2>2. PICK got \in Gets(subject[handler[r].key]) :
          \/ /\ got # Miss
             /\ handler' = [handler EXCEPT ![r].step = next, ![r].subject = got]
          \/ Return(r)
    BY <1>2 DEF FindSubject
  <2>3. got # Miss => got = issued[handler[r].key]
    BY <2>1 DEF OriginInv, StoredAsIssued, Gets
  <2>4. CallbackFits(handler'[r])
    <3>1. CASE Return(r)
      BY <3>1, <1>a, <1>b DEF Return
    <3>2. CASE /\ got # Miss
               /\ handler' = [handler EXCEPT ![r].step = next, ![r].subject = got]
      <4>1. /\ handler'[r].grant = handler[r].grant /\ handler'[r].key = handler[r].key
            /\ handler'[r].subject = got
        BY <3>2, <1>a DEF Locals
      <4> QED
        BY <3>2, <4>1, <2>1, <2>3, <1>b DEF CallbackFits, At
    <3> QED
      BY <2>2, <3>1, <3>2
  <2>5. \A q \in Requests : handler'[q] = handler[q] \/ CallbackFits(handler'[q])
    BY <2>2, <2>4, <1>a DEF Return
  <2> QED
    BY <1>2, <1>t, <2>5, OriginFrame DEF FindSubject, cache, outside, history
<1>3. ASSUME UNCHANGED <<issued, grant, handed>>,
             \A s \in States : subject'[s] \in {subject[s], Miss},
             \E step \in {"fetch", "delSubject"} : At(r, step),
             \/ Return(r)
             \/ \E step \in {"fetch", "delSubject"} : Goto(r, step)
      PROVE  OriginInv'
  <2>1. \A q \in Requests : handler'[q] = handler[q] \/ CallbackFits(handler'[q])
    <3>1. CASE Return(r)
      BY <3>1, <1>a, <1>b DEF Return
    <3>2. ASSUME NEW step \in {"fetch", "delSubject"}, Goto(r, step)
          PROVE  \A q \in Requests : handler'[q] = handler[q] \/ CallbackFits(handler'[q])
      <4>1. /\ handler'[r].grant = handler[r].grant /\ handler'[r].key = handler[r].key
            /\ handler'[r].subject = handler[r].subject
            /\ \A q \in Requests : q # r => handler'[q] = handler[q]
        BY <3>2, <1>a DEF Goto, Locals
      <4>2. CallbackFits(handler'[r])
        BY <4>1, <1>b, <1>3 DEF CallbackFits, At
      <4> QED
        BY <4>1, <4>2
    <3> QED
      BY <1>3, <3>1, <3>2
  <2> QED
    BY <1>3, <1>t, <2>1, OriginFrame
<1>4. CASE GitHubFetch(r)
  BY <1>4, <1>3 DEF GitHubFetch, In, Fetch, cache
<1>5. CASE GitHubFinish(r)
  BY <1>5, <1>t, <1>a, OriginHandOver
     DEF GitHubFinish, In, At, Forget, AfterDel, outside
<1>6. CASE DiscordDelete(r)
  BY <1>6, <1>a, <1>3 DEF DiscordDelete, In, At, Forget, AfterDel, outside
<1>7. CASE DiscordFetch(r)
  <2>1. At(r, "fetch") /\ UNCHANGED <<subject, issued, grant>>
    BY <1>7 DEF DiscordFetch, In, Fetch, cache
  <2>2. CASE HandOver(r)
    BY <2>1, <2>2, <1>t, OriginHandOver DEF At
  <2>3. CASE Return(r) /\ UNCHANGED handed
    BY <2>1, <2>3, <1>3
  <2> QED
    BY <1>7, <2>2, <2>3 DEF DiscordFetch
<1> QED
  BY <1>1, <1>2, <1>4, <1>5, <1>6, <1>7 DEF GitHubFind, DiscordFind

\* The nonces, the calendar, the other sites and the ends of times to live.
LEMMA OriginElsewhere ==
  ASSUME OriginInv,
         \/ \E r \in Requests :
              \/ MetaMaskEndpoints(r) \/ \E q \in Sources : GetICal(r, q)
              \/ DelNonce(r) \/ SetNonce(r) \/ GetNonce(r)
              \/ LazyGet(r) \/ Compute(r) \/ SetEntry(r)
         \/ \E q \in Sources : Publish(q)
         \/ Expire
         \/ UNCHANGED vars
  PROVE  /\ OriginInv' /\ UNCHANGED <<issued, grant, handed>>
         /\ \A s \in States : subject'[s] \in {subject[s], Miss}
         /\ \A r \in Requests :
              handler'[r] = handler[r] \/ handler'[r].step \notin OAuthSteps
<1>t. TypeInv'
  BY EndpointsKeepTypes, NonceKeepsTypes, CalendarKeepsTypes, OutsideKeepsTypes
     DEF OriginInv
<1>a. handler \in [Requests -> Locals] /\ subject \in [States -> Asked \cup {Miss}]
  BY DEF OriginInv, TypeInv, TypeOK
<1>1. UNCHANGED <<issued, grant, handed>>
  BY DEF MetaMaskEndpoints, RequestNonce, Verify, GetICal, DelNonce, SetNonce,
         GetNonce, LazyGet, Compute, SetEntry, Publish, Expire, vars, outside,
         history
<1>2. \A s \in States : subject'[s] \in {subject[s], Miss}
  BY <1>a DEF MetaMaskEndpoints, RequestNonce, Verify, GetICal, DelNonce, SetNonce,
         GetNonce, LazyGet, Compute, SetEntry, Publish, Expire, vars, cache
<1>3. \A r \in Requests :
        handler'[r] = handler[r] \/ handler'[r].step \notin OAuthSteps
  <2>1. ASSUME NEW r \in Requests, MetaMaskEndpoints(r) \/ \E q \in Sources : GetICal(r, q)
        PROVE  \A q \in Requests :
                 handler'[q] = handler[q] \/ handler'[q].step \notin OAuthSteps
    <3>1. ASSUME NEW h, h.step \notin OAuthSteps, Begin(r, h)
          PROVE  \A q \in Requests :
                   handler'[q] = handler[q] \/ handler'[q].step \notin OAuthSteps
      BY <3>1, <1>a DEF Begin
    <3>2. ASSUME NEW a, NEW c, NEW step \in NonceSteps \cup SourceSteps
          PROVE  /\ [Idle EXCEPT !.step = step, !.key = a].step \notin OAuthSteps
                 /\ [Idle EXCEPT !.step = step, !.key = a, !.code = c].step
                      \notin OAuthSteps
      BY DEF Idle, OAuthSteps, NonceSteps, SourceSteps
    <3>3. \E h : h.step \notin OAuthSteps /\ Begin(r, h)
      BY <2>1, <3>2 DEF MetaMaskEndpoints, RequestNonce, Verify, GetICal,
                        NonceSteps, SourceSteps
    <3> QED
      BY <3>1, <3>3
  <2>2. ASSUME NEW r \in Requests,
               \/ DelNonce(r) \/ SetNonce(r) \/ GetNonce(r)
               \/ LazyGet(r) \/ Compute(r) \/ SetEntry(r)
        PROVE  \A q \in Requests :
                 handler'[q] = handler[q] \/ handler'[q].step \notin OAuthSteps
    <3>1. \A s \in {"idle", "setNonce", "compute", "setEntry"} : s \notin OAuthSteps
      BY DEF OAuthSteps
    <3>2. ASSUME NEW s \in {"setNonce", "compute", "setEntry"},
                 \/ handler' = [handler EXCEPT ![r].step = s]
                 \/ \E c : handler' = [handler EXCEPT ![r].step = s, ![r].code = c]
                 \/ \E c : handler' = [handler EXCEPT ![r].step = s, ![r].value = c]
          PROVE  \A q \in Requests :
                   handler'[q] = handler[q] \/ handler'[q].step \notin OAuthSteps
      BY <3>1, <3>2, <1>a DEF Locals
    <3>3. CASE Return(r)
      BY <3>1, <3>3, <1>a DEF Return, Idle
    <3>4. CASE DelNonce(r)
      BY <3>2, <3>4 DEF DelNonce
    <3>5. CASE LazyGet(r) \/ Compute(r)
      BY <3>2, <3>3, <3>5 DEF LazyGet, Compute, Goto
    <3> QED
      BY <2>2, <3>3, <3>4, <3>5 DEF SetNonce, GetNonce, SetEntry
  <2>3. CASE (\E q \in Sources : Publish(q)) \/ Expire \/ UNCHANGED vars
    BY <2>3 DEF Publish, Expire, vars
  <2> QED
    BY <2>1, <2>2, <2>3
<1>4. \A r \in Requests : handler'[r] = handler[r] \/ CallbackFits(handler'[r])
  BY <1>3 DEF CallbackFits, OAuthSteps
<1> QED
  BY <1>t, <1>1, <1>2, <1>3, <1>4, OriginFrame

LEMMA OriginNext == OriginInv /\ [Next]_vars => OriginInv'
<1> SUFFICES ASSUME OriginInv, [Next]_vars PROVE OriginInv'
  OBVIOUS
<1>1. ASSUME NEW r \in Requests, GitHubEndpoints(r) \/ DiscordEndpoints(r)
      PROVE  OriginInv'
  <2>t. TypeInv'
    BY <1>1, EndpointsKeepTypes DEF OriginInv
  <2>1. ASSUME NEW p \in Platforms, NEW param \in Params, NEW s \in States,
               BuildState(r, p, param, s)
        PROVE  OriginInv'
    BY <2>t, <2>1, OriginBuildState
  <2>2. ASSUME NEW g \in Grants, NEW p \in Platforms, Callback(r, g, p)
        PROVE  OriginInv'
    <3>1. \A q \in Requests : handler'[q] = handler[q] \/ CallbackFits(handler'[q])
      BY <2>2 DEF Callback, Begin, CallbackFits, Idle, OriginInv, TypeInv, TypeOK
    <3> QED
      BY <2>2, <2>t, <3>1, OriginFrame DEF Callback, cache, outside
  <2> QED
    BY <1>1, <2>1, <2>2 DEF GitHubEndpoints, DiscordEndpoints, RequestGitHub,
                            RequestDiscord, Platforms
<1>2. ASSUME NEW g \in Grants, NEW s \in States, NEW u \in Users, Redirect(g, s, u)
      PROVE  OriginInv'
  BY <1>2, OutsideKeepsTypes, OriginRedirect DEF OriginInv
<1> QED
  BY <1>1, <1>2, OriginOAuth, OriginElsewhere DEF Next, Step

\* Every variable keeps its type: in particular a callback in progress works on
\* a state, and the calls of AccountsService name a platform, what was asked
\* and an account.
THEOREM TypeCorrect == Spec => []TypeOK
<1>1. OriginInv => TypeOK
  BY DEF OriginInv, TypeInv
<1> QED
  BY OriginInit, OriginNext, <1>1, PTL DEF Spec

-------------------------------------------------------------------------------
(* A state serves once. *)

\* Requests that do not begin stay at their key or become idle; what was
\* disturbed stays so.
LEMMA StaysAtKey ==
  ASSUME TypeInv, NEW r \in Requests, Step(r)
  PROVE  /\ \A q \in Requests :
              Busy(q)' => Busy(q) /\ handler'[q].key = handler[q].key
         /\ disturbed \subseteq disturbed'
<1>a. handler \in [Requests -> Locals]
  BY DEF TypeInv, TypeOK
<1>b. Busy(r)
  BY DEF Step, SetSubject, GitHubFind, GitHubFetch, GitHubFinish, DiscordFind,
         DiscordDelete, DiscordFetch, FindSubject, DelNonce, SetNonce, GetNonce,
         LazyGet, Compute, SetEntry, In, At, Busy
<1>c. disturbed \subseteq disturbed'
  BY DEF Step, SetSubject, GitHubFind, GitHubFetch, GitHubFinish, DiscordFind,
         DiscordDelete, DiscordFetch, FindSubject, Fetch, Forget, DelNonce,
         SetNonce, GetNonce, LazyGet, Compute, SetEntry, Noting, history
<1>1. CASE Return(r)
  BY <1>1, <1>a, <1>c DEF Return, Idle, Busy
<1>2. ASSUME NEW step, Goto(r, step)
      PROVE  \A q \in Requests :
               Busy(q)' => Busy(q) /\ handler'[q].key = handler[q].key
  BY <1>2, <1>a, <1>b DEF Goto, Busy, Locals
<1>3. CASE \/ SetSubject(r) \/ GitHubFetch(r) \/ GitHubFinish(r) \/ DiscordDelete(r)
           \/ DiscordFetch(r) \/ SetNonce(r) \/ GetNonce(r) \/ LazyGet(r) \/ SetEntry(r)
  BY <1>3, <1>1, <1>2, <1>c
     DEF SetSubject, GitHubFetch, GitHubFinish, DiscordDelete, DiscordFetch,
         SetNonce, GetNonce, LazyGet, SetEntry, HandOver
<1>4. ASSUME NEW p, NEW next, FindSubject(r, p, next)
      PROVE  \A q \in Requests :
               Busy(q)' => Busy(q) /\ handler'[q].key = handler[q].key
  <2>1. ASSUME NEW got,
               handler' = [handler EXCEPT ![r].step = next, ![r].subject = got]
        PROVE  \A q \in Requests :
                 Busy(q)' => Busy(q) /\ handler'[q].key = handler[q].key
    BY <2>1, <1>a, <1>b DEF Busy, Locals
  <2> QED
    BY <1>4, <1>1, <2>1 DEF FindSubject
<1>5. CASE DelNonce(r) \/ Compute(r)
  <2>1. CASE DelNonce(r)
    BY <2>1, <1>a, <1>b, <1>c DEF DelNonce, Busy, Locals
  <2>2. CASE Compute(r)
    <3>1. CASE handler' = [handler EXCEPT ![r].step = "setEntry",
                                         ![r].value = version[handler[r].key]]
      BY <3>1, <1>a, <1>b, <1>c DEF Busy, Locals
    <3> QED
      BY <2>2, <3>1, <1>1 DEF Compute
  <2> QED
    BY <1>5, <2>1, <2>2
<1> QED
  BY <1>c, <1>3, <1>4, <1>5 DEF Step, GitHubFind, DiscordFind

\* A request that begins disturbs a key in use.
LEMMA OneAtKeyBegin ==
  ASSUME TypeInv, OneAtKey, NEW r \in Requests, NEW h, Begin(r, h)
  PROVE  OneAtKey' /\ disturbed \subseteq disturbed'
<1>1. \A q \in Requests : q # r => handler'[q] = handler[q]
  BY DEF Begin, TypeInv, TypeOK
<1>2. handler'[r] = h
  BY DEF Begin, TypeInv, TypeOK
<1>3. disturbed \subseteq disturbed'
  BY DEF Begin
<1> SUFFICES ASSUME NEW p \in Requests, NEW q \in Requests, p # q,
                    Busy(p)', Busy(q)', handler'[p].key = handler'[q].key
             PROVE  handler'[p].key \in disturbed'
  BY <1>3 DEF OneAtKey
<1>4. CASE p # r /\ q # r
  BY <1>1, <1>3, <1>4 DEF OneAtKey, Busy
<1>5. CASE p = r
  BY <1>1, <1>2, <1>5 DEF Begin, Busy
<1>6. CASE q = r
  BY <1>1, <1>2, <1>6 DEF Begin, Busy
<1> QED
  BY <1>4, <1>5, <1>6

LEMMA OneAtKeyNext ==
  ASSUME OriginInv, OneAtKey, [Next]_vars
  PROVE  OneAtKey' /\ disturbed \subseteq disturbed'
<1>1. ASSUME NEW r \in Requests,
             \/ GitHubEndpoints(r) \/ DiscordEndpoints(r) \/ MetaMaskEndpoints(r)
             \/ \E q \in Sources : GetICal(r, q)
      PROVE  OneAtKey' /\ disturbed \subseteq disturbed'
  <2>1. \E h : Begin(r, h)
    BY <1>1 DEF GitHubEndpoints, DiscordEndpoints, MetaMaskEndpoints, GetICal,
         RequestGitHub, RequestDiscord, BuildState, Callback, RequestNonce, Verify
  <2> QED
    BY <2>1, OneAtKeyBegin DEF OriginInv
<1>2. ASSUME NEW r \in Requests, Step(r)
      PROVE  OneAtKey' /\ disturbed \subseteq disturbed'
  BY <1>2, StaysAtKey DEF OneAtKey, OriginInv
<1>3. CASE \/ \E g \in Grants, s \in States, u \in Users : Redirect(g, s, u)
           \/ \E q \in Sources : Publish(q)
           \/ Expire
           \/ UNCHANGED vars
  <2>1. UNCHANGED <<handler, disturbed>>
    BY <1>3 DEF Redirect, Publish, Expire, vars, history
  <2> QED
    BY <2>1 DEF OneAtKey, Busy
<1> QED
  BY <1>1, <1>2, <1>3 DEF Next

\* Steps that neither make a state, nor redirect, nor end a callback with a call:
\* nobody comes to hold a subject that has served, and Discord is asked only
\* about what was deleted.
LEMMA ServesFrame ==
  ASSUME IInv, disturbed \subseteq disturbed',
         UNCHANGED <<issued, grant, handed>>,
         \A s \in States : subject'[s] \in {subject[s], Miss},
         \A r \in Requests :
           /\ At(r, "setSubject")' =>
                At(r, "setSubject") /\ handler'[r].key = handler[r].key
           /\ HoldsSubject(r)' =>
                \/ HoldsSubject(r) /\ handler'[r].key = handler[r].key
                \/ handler'[r].key \in States /\ subject[handler'[r].key] # Miss
           /\ In(r, "discord", "fetch")' =>
                \/ In(r, "discord", "fetch") /\ handler'[r].key = handler[r].key
                \/ subject'[handler'[r].key] = Miss
                \/ handler'[r].key \in disturbed'
  PROVE  Serves'
<1>1. NoGrantYet'
  BY DEF IInv, Serves, NoGrantYet
<1>2. DeletedAtDiscord'
  <2> SUFFICES ASSUME NEW r \in Requests, In(r, "discord", "fetch")',
                      handler'[r].key \notin disturbed'
               PROVE  subject'[handler'[r].key] = Miss
    BY DEF DeletedAtDiscord
  <2>1. CASE In(r, "discord", "fetch") /\ handler'[r].key = handler[r].key
    <3>1. handler[r].key \in States
      BY <2>1 DEF IInv, OriginInv, TypeInv, KeyOfStep, KeyFits, OAuthSteps, In, At
    <3> QED
      BY <2>1, <3>1 DEF IInv, Serves, DeletedAtDiscord
  <2> QED
    BY <2>1
<1>3. GoneOnceServed' /\ OncePerState'
  <2>1. \A h \in handed : grant[h.grant].state \in States
    BY DEF IInv, OriginInv, HandedOfGrant, TypeInv, TypeOK, Redirects
  <2>2. GoneOnceServed'
    BY <2>1 DEF IInv, Serves, GoneOnceServed
  <2>3. OncePerState'
    BY DEF IInv, Serves, OncePerState
  <2> QED
    BY <2>2, <2>3
<1> QED
  BY <1>1, <1>2, <1>3 DEF Serves

LEMMA ServesBuildState ==
  ASSUME IInv, NEW r \in Requests, NEW p \in Platforms, NEW param \in Params,
         NEW s \in States, BuildState(r, p, param, s),
         disturbed \subseteq disturbed'
  PROVE  Serves'
<1>1. /\ issued[s] = Miss /\ UNCHANGED <<subject, grant, handed>>
      /\ \A t \in States : t # s => issued'[t] = issued[t]
  BY DEF BuildState, cache, IInv, OriginInv, TypeInv, TypeOK
<1>2. /\ handler'[r].step = "setSubject" /\ handler'[r].key = s
      /\ \A q \in Requests : q # r => handler'[q] = handler[q]
  BY DEF BuildState, Begin, Idle, IInv, OriginInv, TypeInv, TypeOK
<1>3. \A g \in Grants : grant[g] # Miss => grant[g].state # s
  BY <1>1 DEF IInv, OriginInv, GrantOfIssued
<1>4. NoGrantYet'
  BY <1>1, <1>2, <1>3 DEF IInv, Serves, NoGrantYet, At
<1>5. DeletedAtDiscord'
  <2> SUFFICES ASSUME NEW q \in Requests, In(q, "discord", "fetch")',
                      handler'[q].key \notin disturbed'
               PROVE  subject[handler'[q].key] = Miss
    BY <1>1 DEF DeletedAtDiscord
  <2>1. q # r /\ handler'[q] = handler[q] /\ handler[q].step = "fetch"
    BY <1>2 DEF In, At
  <2>2. handler[q].key \in States /\ handler[q].key # s
    BY <1>1, <2>1 DEF IInv, OriginInv, TypeInv, KeyOfStep, KeyFits, OAuthSteps,
                      CallbackOfGrant, CallbackFits
  <2> QED
    BY <1>1, <2>1, <2>2 DEF In, At, PlatformOf, IInv, Serves, DeletedAtDiscord
<1>6. GoneOnceServed' /\ OncePerState'
  BY <1>1, <1>2 DEF IInv, Serves, GoneOnceServed, OncePerState, HoldsSubject
<1> QED
  BY <1>4, <1>5, <1>6 DEF Serves

LEMMA ServesRedirect ==
  ASSUME IInv, NEW g \in Grants, NEW s \in States, NEW u \in Users,
         Redirect(g, s, u)
  PROVE  Serves'
<1>1. /\ grant[g] = Miss /\ grant'[g].state = s
      /\ \A f \in Grants : f # g => grant'[f] = grant[f]
      /\ UNCHANGED <<subject, issued, handler, handed, disturbed>>
  BY DEF Redirect, cache, history, IInv, OriginInv, TypeInv, TypeOK
<1>2. \A h \in handed : h.grant \in Grants /\ grant'[h.grant] = grant[h.grant]
  BY <1>1 DEF IInv, OriginInv, HandedOfGrant, TypeInv, TypeOK
<1>3. NoGrantYet'
  BY <1>1 DEF Redirect, IInv, Serves, NoGrantYet, At
<1>4. DeletedAtDiscord'
  BY <1>1 DEF IInv, Serves, DeletedAtDiscord, In, At, PlatformOf
<1>5. GoneOnceServed' /\ OncePerState'
  BY <1>1, <1>2 DEF IInv, Serves, GoneOnceServed, OncePerState, HoldsSubject
<1> QED
  BY <1>3, <1>4, <1>5 DEF Serves

\* The place of a state is filled before anyone comes back with it.
LEMMA ServesSetSubject ==
  ASSUME IInv, NEW r \in Requests, SetSubject(r), disturbed \subseteq disturbed'
  PROVE  Serves'
<1> DEFINE s == handler[r].key
<1>1. /\ At(r, "setSubject") /\ UNCHANGED <<issued, grant, handed>>
      /\ \A t \in States : t # s => subject'[t] = subject[t]
  BY DEF SetSubject, outside, IInv, OriginInv, TypeInv, TypeOK
<1>2. /\ handler'[r].step = "idle"
      /\ \A q \in Requests : q # r => handler'[q] = handler[q]
  BY DEF SetSubject, Return, Idle, IInv, OriginInv, TypeInv, TypeOK
<1>3. \A g \in Grants : grant[g] # Miss => grant[g].state # s
  BY <1>1 DEF IInv, Serves, NoGrantYet
<1>4. NoGrantYet'
  BY <1>1, <1>2 DEF IInv, Serves, NoGrantYet, At
<1>5. DeletedAtDiscord'
  <2> SUFFICES ASSUME NEW q \in Requests, In(q, "discord", "fetch")',
                      handler'[q].key \notin disturbed'
               PROVE  subject'[handler'[q].key] = Miss
    BY DEF DeletedAtDiscord
  <2>1. q # r /\ handler'[q] = handler[q] /\ handler[q].step = "fetch"
    BY <1>2 DEF In, At
  <2>2. handler[q].key \in States /\ handler[q].key # s
    BY <1>3, <2>1 DEF IInv, OriginInv, TypeInv, KeyOfStep, KeyFits, OAuthSteps,
                      CallbackOfGrant, CallbackFits
  <2> QED
    BY <1>1, <2>1, <2>2 DEF In, At, PlatformOf, IInv, Serves, DeletedAtDiscord
<1>6. \A h \in handed : /\ grant[h.grant].state \in States
                        /\ grant[h.grant].state # s
  BY <1>3 DEF IInv, OriginInv, HandedOfGrant, TypeInv, TypeOK, Redirects
<1>7. GoneOnceServed' /\ OncePerState'
  BY <1>1, <1>2, <1>6 DEF IInv, Serves, GoneOnceServed, OncePerState, HoldsSubject
<1> QED
  BY <1>4, <1>5, <1>7 DEF Serves

\* The call: the state was deleted, or is disturbed, and no other callback that
\* is not disturbed holds it or held it.
LEMMA ServesHandOver ==
  ASSUME IInv, NEW r \in Requests, HoldsSubject(r), HandOver(r),
         UNCHANGED <<issued, grant>>, disturbed \subseteq disturbed',
         \A t \in States : subject'[t] \in {subject[t], Miss},
         handler[r].key \notin disturbed' => subject'[handler[r].key] = Miss
  PROVE  Serves'
<1> DEFINE s == handler[r].key
           new == [grant |-> handler[r].grant,
                   platform |-> handler[r].subject.platform,
                   param |-> handler[r].subject.param,
                   user |-> grant[handler[r].grant].user]
<1>1. /\ handler'[r].step = "idle"
      /\ \A q \in Requests : q # r => handler'[q] = handler[q]
  BY DEF HandOver, Return, Idle, IInv, OriginInv, TypeInv, TypeOK
<1>2. handed' = handed \cup {new} /\ grant[new.grant].state = s
  BY DEF HandOver, HoldsSubject, IInv, OriginInv, CallbackOfGrant, CallbackFits
<1>3. NoGrantYet'
  BY <1>1 DEF IInv, Serves, NoGrantYet, At
<1>4. DeletedAtDiscord'
  <2> SUFFICES ASSUME NEW q \in Requests, In(q, "discord", "fetch")',
                      handler'[q].key \notin disturbed'
               PROVE  subject'[handler'[q].key] = Miss
    BY DEF DeletedAtDiscord
  <2>1. q # r /\ handler'[q] = handler[q] /\ handler[q].step = "fetch"
    BY <1>1 DEF In, At
  <2>2. handler[q].key \in States
    BY <2>1 DEF IInv, OriginInv, TypeInv, KeyOfStep, KeyFits, OAuthSteps
  <2> QED
    BY <2>1, <2>2 DEF In, At, PlatformOf, IInv, Serves, DeletedAtDiscord
<1>5. \A h \in handed : grant[h.grant].state \in States
  BY DEF IInv, OriginInv, HandedOfGrant, TypeInv, TypeOK, Redirects
<1>6. GoneOnceServed'
  <2> SUFFICES ASSUME NEW h \in handed', grant[h.grant].state \notin disturbed'
               PROVE  /\ subject'[grant[h.grant].state] = Miss
                      /\ \A q \in Requests :
                           HoldsSubject(q)' => handler'[q].key # grant[h.grant].state
    BY DEF GoneOnceServed
  <2>1. CASE h \in handed
    BY <2>1, <1>1, <1>5 DEF IInv, Serves, GoneOnceServed, HoldsSubject
  <2>2. CASE h = new
    <3>1. \A q \in Requests : q # r /\ HoldsSubject(q) => handler[q].key # s
      BY <1>2, <2>2 DEF IInv, OneAtKey, HoldsSubject, Busy
    <3> QED
      BY <1>1, <1>2, <2>2, <3>1 DEF HoldsSubject
  <2> QED
    BY <1>2, <2>1, <2>2
<1>7. OncePerState'
  <2>1. \A h \in handed : grant[h.grant].state = s => s \in disturbed
    BY DEF IInv, Serves, GoneOnceServed
  <2> QED
    BY <1>2, <2>1 DEF IInv, Serves, OncePerState
<1> QED
  BY <1>3, <1>4, <1>6, <1>7 DEF Serves

LEMMA ServesOAuth ==
  ASSUME IInv, NEW r \in Requests, disturbed \subseteq disturbed',
         \/ GitHubFind(r) \/ GitHubFetch(r) \/ GitHubFinish(r)
         \/ DiscordFind(r) \/ DiscordDelete(r) \/ DiscordFetch(r)
  PROVE  Serves'
<1>a. /\ handler \in [Requests -> Locals] /\ subject \in [States -> Asked \cup {Miss}]
      /\ handler[r].step \in {"getSubject", "fetch", "delSubject"} =>
           handler[r].key \in States
  BY DEF IInv, OriginInv, TypeInv, TypeOK, KeyOfStep, KeyFits, OAuthSteps
<1>b. ASSUME Return(r)
      PROVE  \A q \in Requests :
               handler'[q] = handler[q] \/ handler'[q].step = "idle"
  BY <1>b, <1>a DEF Return, Idle
<1>c. ASSUME NEW step, Goto(r, step)
      PROVE  /\ handler'[r].step = step /\ handler'[r].key = handler[r].key
             /\ \A q \in Requests : q # r => handler'[q] = handler[q]
  BY <1>c, <1>a DEF Goto, Locals
<1>1. ASSUME NEW p, NEW next,
             \/ p = "github" /\ next = "fetch"
             \/ p = "discord" /\ next = "delSubject",
             FindSubject(r, p, next)
      PROVE  Serves'
  <2>1. /\ At(r, "getSubject") /\ PlatformOf(handler[r].key) = p
        /\ UNCHANGED <<subject, issued, grant, handed>>
    BY <1>1 DEF FindSubject, In, cache, outside, history
  <2>2. PICK got \in Gets(subject[handler[r].key]) :
          \/ /\ got # Miss
             /\ handler' = [handler EXCEPT ![r].step = next, ![r].subject = got]
          \/ Return(r)
    BY <1>1 DEF FindSubject
  <2>3. CASE Return(r)
    BY <2>1, <2>3, <1>b, ServesFrame DEF At, HoldsSubject, In, PlatformOf
  <2>4. CASE /\ got # Miss
             /\ handler' = [handler EXCEPT ![r].step = next, ![r].subject = got]
    <3>1. /\ handler'[r].step = next /\ handler'[r].key = handler[r].key
          /\ \A q \in Requests : q # r => handler'[q] = handler[q]
      BY <2>4, <1>a DEF Locals
    <3>2. handler[r].key \in States /\ subject[handler[r].key] # Miss
      BY <2>1, <2>2, <2>4, <1>a DEF At, Gets
    <3> QED
      BY <1>1, <2>1, <3>1, <3>2, ServesFrame DEF At, HoldsSubject, In, PlatformOf
  <2> QED
    BY <2>2, <2>3, <2>4
<1>2. CASE GitHubFetch(r)
  <2>1. At(r, "fetch") /\ UNCHANGED <<subject, issued, grant, handed>>
    BY <1>2 DEF GitHubFetch, In, Fetch, cache
  <2>2. CASE Return(r)
    BY <2>1, <2>2, <1>b, ServesFrame DEF At, HoldsSubject, In, PlatformOf
  <2>3. CASE Goto(r, "delSubject")
    BY <2>1, <2>3, <1>c, ServesFrame DEF At, HoldsSubject, In, PlatformOf
  <2> QED
    BY <1>2, <2>2, <2>3 DEF GitHubFetch
<1>3. ASSUME Forget(handler[r].key), handler[r].key \in States
      PROVE  /\ \A t \in States : subject'[t] \in {subject[t], Miss}
             /\ handler[r].key \notin disturbed' => subject'[handler[r].key] = Miss
  BY <1>3, <1>a DEF Forget, AfterDel, Noting
<1>4. CASE GitHubFinish(r)
  <2>1. /\ At(r, "delSubject") /\ HandOver(r) /\ Forget(handler[r].key)
        /\ UNCHANGED <<issued, grant>>
    BY <1>4 DEF GitHubFinish, In, outside
  <2> QED
    BY <2>1, <1>a, <1>3, ServesHandOver DEF At, HoldsSubject
<1>5. CASE DiscordDelete(r)
  <2>1. /\ At(r, "delSubject") /\ Goto(r, "fetch") /\ Forget(handler[r].key)
        /\ UNCHANGED <<issued, grant, handed>>
    BY <1>5 DEF DiscordDelete, In, outside
  <2> QED
    BY <2>1, <1>a, <1>3, <1>c, ServesFrame DEF At, HoldsSubject, In, PlatformOf
<1>6. CASE DiscordFetch(r)
  <2>1. /\ At(r, "fetch") /\ PlatformOf(handler[r].key) = "discord"
        /\ UNCHANGED <<subject, issued, grant>>
    BY <1>6 DEF DiscordFetch, In, Fetch, cache
  <2>2. handler[r].key \notin disturbed => subject[handler[r].key] = Miss
    BY <2>1 DEF IInv, Serves, DeletedAtDiscord, In
  <2>3. CASE HandOver(r)
    BY <2>1, <2>2, <2>3, ServesHandOver DEF At, HoldsSubject
  <2>4. CASE Return(r) /\ UNCHANGED handed
    BY <2>1, <2>4, <1>b, ServesFrame DEF At, HoldsSubject, In, PlatformOf
  <2> QED
    BY <1>6, <2>3, <2>4 DEF DiscordFetch
<1>7. FindSubject(r, "github", "fetch") => Serves'
  BY <1>1
<1>8. FindSubject(r, "discord", "delSubject") => Serves'
  BY <1>1
<1> QED
  BY <1>2, <1>4, <1>5, <1>6, <1>7, <1>8 DEF GitHubFind, DiscordFind

LEMMA IInvInit == Init => IInv
<1> SUFFICES ASSUME Init PROVE IInv
  OBVIOUS
<1>1. OneAtKey /\ NoGrantYet /\ DeletedAtDiscord
  <2>1. \A r \in Requests : handler[r].step = "idle"
    BY DEF Init, Idle
  <2> QED
    BY <2>1 DEF OneAtKey, Busy, NoGrantYet, At, DeletedAtDiscord, In
<1>2. GoneOnceServed /\ OncePerState
  BY DEF Init, GoneOnceServed, OncePerState
<1> QED
  BY <1>1, <1>2, OriginInit DEF IInv, Serves

LEMMA IInvNext == IInv /\ [Next]_vars => IInv'
<1> SUFFICES ASSUME IInv, [Next]_vars PROVE IInv'
  OBVIOUS
<1>1. OriginInv' /\ OneAtKey' /\ disturbed \subseteq disturbed'
  BY OriginNext, OneAtKeyNext DEF IInv
<1>2. ASSUME NEW r \in Requests, GitHubEndpoints(r) \/ DiscordEndpoints(r)
      PROVE  Serves'
  <2>1. ASSUME NEW g \in Grants, NEW p, Callback(r, g, p)
        PROVE  Serves'
    <3>1. /\ handler'[r].step = "getSubject"
          /\ \A q \in Requests : q # r => handler'[q] = handler[q]
          /\ UNCHANGED <<subject, issued, grant, handed>>
      BY <2>1 DEF Callback, Begin, Idle, cache, outside, IInv, OriginInv,
                  TypeInv, TypeOK
    <3> QED
      BY <1>1, <3>1, ServesFrame DEF At, HoldsSubject, In, PlatformOf
  <2>2. ASSUME NEW p \in Platforms, NEW param \in Params, NEW s \in States,
               BuildState(r, p, param, s)
        PROVE  Serves'
    BY <1>1, <2>2, ServesBuildState
  <2> QED
    BY <1>2, <2>1, <2>2 DEF GitHubEndpoints, DiscordEndpoints, RequestGitHub,
                            RequestDiscord, Platforms
<1>3. ASSUME NEW g \in Grants, NEW s \in States, NEW u \in Users, Redirect(g, s, u)
      PROVE  Serves'
  BY <1>3, ServesRedirect
<1>4. ASSUME \/ \E r \in Requests :
                  \/ MetaMaskEndpoints(r) \/ \E q \in Sources : GetICal(r, q)
                  \/ DelNonce(r) \/ SetNonce(r) \/ GetNonce(r)
                  \/ LazyGet(r) \/ Compute(r) \/ SetEntry(r)
             \/ \E q \in Sources : Publish(q)
             \/ Expire
             \/ UNCHANGED vars
      PROVE  Serves'
  <2>1. /\ UNCHANGED <<issued, grant, handed>>
        /\ \A s \in States : subject'[s] \in {subject[s], Miss}
        /\ \A r \in Requests :
             handler'[r] = handler[r] \/ handler'[r].step \notin OAuthSteps
    BY <1>4, OriginElsewhere DEF IInv
  <2> QED
    BY <1>1, <2>1, ServesFrame DEF At, HoldsSubject, In, PlatformOf, OAuthSteps
<1>5. ASSUME NEW r \in Requests, Step(r)
      PROVE  Serves'
  BY <1>1, <1>4, <1>5, ServesSetSubject, ServesOAuth DEF Step
<1>6. Serves'
  BY <1>2, <1>3, <1>4, <1>5 DEF Next
<1> QED
  BY <1>1, <1>6 DEF IInv

\* A state leads to one call of AccountsService, for one account, however often
\* the browser comes back and whoever agrees with it; unless two callbacks with
\* it overlapped, or the cache failed to delete it.
THEOREM ServedOnce == Spec => []OncePerState
<1>1. IInv => OncePerState
  BY DEF IInv, Serves
<1> QED
  BY IInvInit, IInvNext, <1>1, PTL DEF Spec

\* At GitHub only a callback that ends in a call takes the state from the cache:
\* one that fails leaves it to be tried again.
THEOREM FailedMayRetry == Spec => RetryAtGitHub
<1>1. ASSUME OriginInv, [Next]_vars, NEW s \in States,
             subject[s] # Miss, subject'[s] = Miss, subject[s].platform = "github",
             handler' # handler
      PROVE  \E h \in handed' : grant[h.grant].state = s
  <2>a. subject \in [States -> Asked \cup {Miss}] /\ subject[s] = issued[s]
    BY <1>1 DEF OriginInv, TypeInv, TypeOK, StoredAsIssued
  <2>b. ASSUME NEW r \in Requests, Forget(handler[r].key), handler[r].key \in States
        PROVE  handler[r].key = s
    BY <2>b, <2>a, <1>1 DEF Forget
  <2>c. PICK r \in Requests :
          \/ GitHubEndpoints(r) \/ DiscordEndpoints(r) \/ MetaMaskEndpoints(r)
          \/ \E q \in Sources : GetICal(r, q)
          \/ Step(r)
    BY <1>1 DEF Next, Redirect, Publish, Expire, vars
  <2>d. handler[r].step \in OAuthSteps => handler[r].key \in States
    BY <1>1 DEF OriginInv, TypeInv, KeyOfStep, KeyFits
  <2>1. CASE GitHubFinish(r)
    <3>1. At(r, "delSubject") /\ handler[r].key = s
      BY <2>1, <2>b, <2>d DEF GitHubFinish, In, At, OAuthSteps
    <3>2. grant[handler[r].grant].state = s
      BY <1>1, <3>1 DEF OriginInv, CallbackOfGrant, CallbackFits, At
    <3> DEFINE new == [grant |-> handler[r].grant,
                       platform |-> handler[r].subject.platform,
                       param |-> handler[r].subject.param,
                       user |-> grant[handler[r].grant].user]
    <3>3. new \in handed'
      BY <2>1 DEF GitHubFinish, HandOver
    <3>4. new.grant = handler[r].grant
      OBVIOUS
    <3> QED
      BY <3>2, <3>3, <3>4
  <2>2. CASE DiscordDelete(r)
    <3>1. handler[r].key = s /\ PlatformOf(s) = "discord"
      BY <2>2, <2>b, <2>d DEF DiscordDelete, In, At, OAuthSteps
    <3> QED
      BY <3>1, <2>a, <1>1 DEF PlatformOf
  <2>3. CASE SetSubject(r)
    BY <2>3, <2>a, <2>d, <1>1 DEF SetSubject, AfterSet, At, OAuthSteps
  <2>4. CASE UNCHANGED subject
    BY <2>4, <1>1
  <2>5. \/ GitHubFinish(r) \/ DiscordDelete(r) \/ SetSubject(r) \/ UNCHANGED subject
    BY <2>c DEF Step, GitHubEndpoints, DiscordEndpoints, MetaMaskEndpoints, GetICal,
         RequestGitHub, RequestDiscord, BuildState, Callback, RequestNonce, Verify,
         GitHubFind, GitHubFetch, DiscordFind, DiscordFetch, FindSubject, Fetch,
         DelNonce, SetNonce, GetNonce, LazyGet, Compute, SetEntry, cache
  <2> QED
    BY <2>1, <2>2, <2>3, <2>4, <2>5
<1>2. OriginInv /\ [Next]_vars =>
        [\A s \in States :
           subject[s] # Miss /\ subject'[s] = Miss /\ subject[s].platform = "github"
             /\ handler' # handler
             => \E h \in handed' : grant[h.grant].state = s]_vars
  BY <1>1
<1> QED
  BY OriginInit, OriginNext, <1>2, PTL DEF Spec, RetryAtGitHub

-------------------------------------------------------------------------------
(* The nonces, the calendar, and what Discord was asked. *)

\* A state that a callback asked about came back with a redirect.
AskedOfGrant == \A s \in asked : \E g \in Grants : grant[g] # Miss /\ grant[g].state = s

\* A state that Discord was asked about is neither stored nor held by a callback.
GoneOnceAsked ==
  \A s \in asked : PlatformOf(s) = "discord" /\ s \notin disturbed =>
    /\ subject[s] = Miss
    /\ \A r \in Requests : HoldsSubject(r) => handler[r].key # s

\* What is stored is the code that was answered last.
LatestStored ==
  \A a \in Addresses :
    /\ a \notin lapsed /\ a \notin disturbed
    /\ \A r \in Requests : At(r, "setNonce") => handler[r].key # a
    => nonce[a] = latest[a]

\* Neither the cache nor a fill is ahead of the calendar, nor the cache ahead
\* of the fill.
NothingNewer ==
  /\ \A q \in Sources : entry[q] # Miss => entry[q] <= version[q]
  /\ \A r \in Requests : At(r, "setEntry") =>
       LET q == handler[r].key
       IN /\ handler[r].value <= version[q]
          /\ q \notin disturbed /\ entry[q] # Miss => entry[q] <= handler[r].value

\* The steps that a request begins at.
LEMMA BeginsAt ==
  ASSUME TypeInv, NEW r \in Requests,
         \/ GitHubEndpoints(r) \/ DiscordEndpoints(r) \/ MetaMaskEndpoints(r)
         \/ \E q \in Sources : GetICal(r, q)
  PROVE  /\ handler'[r].step \in {"setSubject", "getSubject", "delNonce", "getNonce", "lazyGet"}
         /\ ~Busy(r) /\ \A q \in Requests : q # r => handler'[q] = handler[q]
         /\ UNCHANGED <<cache, grant, version, latest, lapsed, asked>>
<1>1. ASSUME NEW h, Begin(r, h)
      PROVE  /\ handler'[r] = h /\ ~Busy(r)
             /\ \A q \in Requests : q # r => handler'[q] = handler[q]
  BY <1>1 DEF Begin, TypeInv, TypeOK
<1>2. \E h : /\ Begin(r, h)
             /\ h.step \in {"setSubject", "getSubject", "delNonce", "getNonce", "lazyGet"}
  <2>1. ASSUME NEW p, NEW param, NEW s, BuildState(r, p, param, s)
        PROVE  \E h : Begin(r, h) /\ h.step = "setSubject"
    <3>1. [Idle EXCEPT !.step = "setSubject", !.key = s].step = "setSubject"
      BY DEF Idle
    <3> QED BY <2>1, <3>1 DEF BuildState
  <2>2. ASSUME NEW g, NEW p, Callback(r, g, p)
        PROVE  \E h : Begin(r, h) /\ h.step = "getSubject"
    <3>1. [Idle EXCEPT !.step = "getSubject", !.key = grant[g].state,
                       !.grant = g].step = "getSubject"
      BY DEF Idle
    <3> QED BY <2>2, <3>1 DEF Callback
  <2>3. ASSUME NEW a, RequestNonce(r, a) PROVE \E h : Begin(r, h) /\ h.step = "delNonce"
    <3>1. [Idle EXCEPT !.step = "delNonce", !.key = a].step = "delNonce"
      BY DEF Idle
    <3> QED BY <2>3, <3>1 DEF RequestNonce
  <2>4. ASSUME NEW a, NEW c, Verify(r, a, c) PROVE \E h : Begin(r, h) /\ h.step = "getNonce"
    <3>1. [Idle EXCEPT !.step = "getNonce", !.key = a, !.code = c].step = "getNonce"
      BY DEF Idle
    <3> QED BY <2>4, <3>1 DEF Verify
  <2>5. ASSUME NEW q, GetICal(r, q) PROVE \E h : Begin(r, h) /\ h.step = "lazyGet"
    <3>1. [Idle EXCEPT !.step = "lazyGet", !.key = q].step = "lazyGet"
      BY DEF Idle
    <3> QED BY <2>5, <3>1 DEF GetICal
  <2>6. CASE GitHubEndpoints(r)
    BY <2>1, <2>2, <2>6 DEF GitHubEndpoints, RequestGitHub
  <2>7. CASE DiscordEndpoints(r)
    BY <2>1, <2>2, <2>7 DEF DiscordEndpoints, RequestDiscord
  <2>8. CASE MetaMaskEndpoints(r)
    BY <2>3, <2>4, <2>8 DEF MetaMaskEndpoints
  <2> QED BY <2>5, <2>6, <2>7, <2>8
<1>3. UNCHANGED <<cache, grant, version, latest, lapsed, asked>>
  BY DEF GitHubEndpoints, DiscordEndpoints, MetaMaskEndpoints, GetICal, RequestGitHub,
     RequestDiscord, BuildState, Callback, RequestNonce, Verify, outside
<1> QED BY <1>1, <1>2, <1>3

\* The steps that a request goes on to.
LEMMA GoesTo ==
  ASSUME TypeInv, NEW r \in Requests, Step(r)
  PROVE  /\ \A q \in Requests : q # r => handler'[q] = handler[q]
         /\ \/ Return(r) /\ handler'[r].step = "idle"
            \/ /\ handler'[r].key = handler[r].key
               /\ \/ handler'[r].step = "fetch" /\ (GitHubFind(r) \/ DiscordDelete(r))
                  \/ handler'[r].step = "delSubject" /\ (GitHubFetch(r) \/ DiscordFind(r))
                  \/ handler'[r].step = "setNonce" /\ DelNonce(r)
                  \/ handler'[r].step = "compute" /\ LazyGet(r)
                  \/ handler'[r].step = "setEntry" /\ Compute(r)
<1>1. handler \in [Requests -> Locals] /\ handler[r] \in Locals
  BY DEF TypeInv, TypeOK
<1>2. ASSUME Return(r)
      PROVE  /\ handler'[r].step = "idle"
             /\ \A q \in Requests : q # r => handler'[q] = handler[q]
  BY <1>1, <1>2 DEF Return, Idle
<1>3. ASSUME NEW step, NEW h, handler' = [handler EXCEPT ![r] = h],
             h.step = step, h.key = handler[r].key
      PROVE  /\ handler'[r].step = step /\ handler'[r].key = handler[r].key
             /\ \A q \in Requests : q # r => handler'[q] = handler[q]
  BY <1>1, <1>3
<1>4. ASSUME NEW step,
             \/ Goto(r, step)
             \/ \E x : handler' = [handler EXCEPT ![r].step = step, ![r].subject = x]
             \/ \E x : handler' = [handler EXCEPT ![r].step = step, ![r].code = x]
             \/ \E x : handler' = [handler EXCEPT ![r].step = step, ![r].value = x]
      PROVE  /\ handler'[r].step = step /\ handler'[r].key = handler[r].key
             /\ \A q \in Requests : q # r => handler'[q] = handler[q]
  <2>1. CASE Goto(r, step)
    BY <1>1, <2>1 DEF Goto, Locals
  <2>2. ASSUME NEW x, handler' = [handler EXCEPT ![r].step = step, ![r].subject = x]
        PROVE  /\ handler'[r].step = step /\ handler'[r].key = handler[r].key
               /\ \A q \in Requests : q # r => handler'[q] = handler[q]
    BY <1>1, <2>2 DEF Locals
  <2>3. ASSUME NEW x, handler' = [handler EXCEPT ![r].step = step, ![r].code = x]
        PROVE  /\ handler'[r].step = step /\ handler'[r].key = handler[r].key
               /\ \A q \in Requests : q # r => handler'[q] = handler[q]
    BY <1>1, <2>3 DEF Locals
  <2>4. ASSUME NEW x, handler' = [handler EXCEPT ![r].step = step, ![r].value = x]
        PROVE  /\ handler'[r].step = step /\ handler'[r].key = handler[r].key
               /\ \A q \in Requests : q # r => handler'[q] = handler[q]
    BY <1>1, <2>4 DEF Locals
  <2> QED BY <1>4, <2>1, <2>2, <2>3, <2>4
<1>5. CASE SetSubject(r) \/ GitHubFinish(r) \/ SetNonce(r) \/ GetNonce(r) \/ SetEntry(r)
  BY <1>2, <1>5 DEF SetSubject, GitHubFinish, HandOver, SetNonce, GetNonce, SetEntry
<1>6. CASE GitHubFind(r) \/ DiscordFind(r)
  BY <1>2, <1>4, <1>6 DEF GitHubFind, DiscordFind, FindSubject
<1>7. CASE GitHubFetch(r) \/ DiscordDelete(r) \/ DiscordFetch(r)
  BY <1>2, <1>4, <1>7 DEF GitHubFetch, DiscordDelete, DiscordFetch, HandOver
<1>8. CASE DelNonce(r)
  BY <1>4, <1>8 DEF DelNonce
<1>9. CASE LazyGet(r)
  BY <1>2, <1>4, <1>9 DEF LazyGet
<1>10. CASE Compute(r)
  BY <1>2, <1>4, <1>10 DEF Compute
<1> QED BY <1>5, <1>6, <1>7, <1>8, <1>9, <1>10 DEF Step

\* Steps that neither fetch nor store a calendar.
LEMMA FillsFrame ==
  ASSUME TypeInv, NothingNewer, disturbed \subseteq disturbed',
         \A q \in Sources : /\ version'[q] \in Nat /\ version'[q] >= version[q]
                            /\ entry'[q] \in {entry[q], Miss},
         \A r \in Requests : At(r, "setEntry")' => handler'[r] = handler[r]
  PROVE  NothingNewer'
<1>1. /\ \A q \in Sources : version[q] \in Nat /\ entry[q] \in Nat \cup {Miss}
      /\ \A r \in Requests : At(r, "setEntry") => handler[r].key \in Sources
      /\ \A r \in Requests : handler[r].value \in Nat
  BY DEF TypeInv, TypeOK, KeyOfStep, KeyFits, SourceSteps, At, Locals
<1>2. ASSUME NEW q \in Sources, entry'[q] # Miss PROVE entry'[q] <= version'[q]
  BY <1>1, <1>2 DEF NothingNewer
<1>3. ASSUME NEW r \in Requests, At(r, "setEntry")'
      PROVE  LET q == handler'[r].key
             IN /\ handler'[r].value <= version'[q]
                /\ q \notin disturbed' /\ entry'[q] # Miss => entry'[q] <= handler'[r].value
  <2>1. handler'[r] = handler[r] /\ At(r, "setEntry")
    BY <1>3 DEF At
  <2>2. handler[r].key \in Sources
    BY <1>1, <2>1
  <2>3. handler[r].value <= version'[handler[r].key]
    BY <1>1, <2>1, <2>2 DEF NothingNewer
  <2> QED BY <1>1, <2>1, <2>2, <2>3 DEF NothingNewer
<1> QED BY <1>2, <1>3 DEF NothingNewer

LEMMA FillsNext ==
  ASSUME OriginInv, OneAtKey, NothingNewer, [Next]_vars
  PROVE  NothingNewer'
<1>1. TypeInv /\ disturbed \subseteq disturbed'
  BY OneAtKeyNext DEF OriginInv
<1>2. /\ handler \in [Requests -> Locals] /\ version \in [Sources -> Nat]
      /\ entry \in [Sources -> Nat \cup {Miss}]
  BY <1>1 DEF TypeInv, TypeOK
<1>3. ASSUME \A q \in Sources : version'[q] = version[q] PROVE
        \A q \in Sources : version'[q] \in Nat /\ version'[q] >= version[q]
  BY <1>2, <1>3
<1>4. ASSUME NEW r \in Requests,
             \/ GitHubEndpoints(r) \/ DiscordEndpoints(r) \/ MetaMaskEndpoints(r)
             \/ \E q \in Sources : GetICal(r, q)
      PROVE  NothingNewer'
  <2>1. /\ handler'[r].step # "setEntry"
        /\ \A q \in Requests : q # r => handler'[q] = handler[q]
        /\ UNCHANGED <<entry, version>>
    BY <1>1, <1>4, BeginsAt DEF cache
  <2> QED BY <1>1, <1>3, <2>1, FillsFrame DEF At
<1>5. ASSUME NEW r \in Requests, Step(r), ~Compute(r), ~SetEntry(r)
      PROVE  NothingNewer'
  <2>1. /\ handler'[r].step # "setEntry"
        /\ \A q \in Requests : q # r => handler'[q] = handler[q]
    BY <1>1, <1>5, GoesTo
  <2>2. UNCHANGED <<entry, version>>
    BY <1>5 DEF Step, SetSubject, GitHubFind, GitHubFetch, GitHubFinish, DiscordFind,
       DiscordDelete, DiscordFetch, FindSubject, Fetch, Forget, DelNonce, SetNonce,
       GetNonce, LazyGet, cache, outside
  <2> QED BY <1>1, <1>3, <2>1, <2>2, FillsFrame DEF At
<1>6. ASSUME NEW r \in Requests, Compute(r) PROVE NothingNewer'
  <2>1. /\ UNCHANGED <<entry, version, disturbed>>
        /\ \A q \in Requests : q # r => handler'[q] = handler[q]
    BY <1>1, <1>6, GoesTo DEF Compute, cache, outside, history, Step
  <2>2. CASE Return(r)
    <3>1. handler'[r].step # "setEntry"
      BY <1>2, <2>2 DEF Return, Idle
    <3> QED BY <1>1, <1>3, <2>1, <3>1, FillsFrame DEF At
  <2>3. CASE handler' = [handler EXCEPT ![r].step = "setEntry",
                                        ![r].value = version[handler[r].key]]
    <3>1. /\ handler'[r].value = version[handler[r].key]
          /\ handler'[r].key = handler[r].key /\ handler[r].key \in Sources
      BY <1>1, <1>2, <1>6, <2>3
         DEF Locals, Compute, TypeInv, KeyOfStep, KeyFits, SourceSteps, At
    <3>2. version[handler[r].key] \in Nat
      BY <1>2, <3>1
    <3>3. ASSUME NEW p \in Requests, At(p, "setEntry")'
          PROVE  LET q == handler'[p].key
                 IN /\ handler'[p].value <= version'[q]
                    /\ q \notin disturbed' /\ entry'[q] # Miss
                         => entry'[q] <= handler'[p].value
      <4>1. CASE p = r
        BY <2>1, <3>1, <3>2, <4>1 DEF NothingNewer
      <4>2. CASE p # r
        BY <2>1, <3>3, <4>2 DEF NothingNewer, At
      <4> QED BY <4>1, <4>2
    <3> QED BY <2>1, <3>3 DEF NothingNewer
  <2> QED BY <1>6, <2>2, <2>3 DEF Compute
<1>7. ASSUME NEW r \in Requests, SetEntry(r) PROVE NothingNewer'
  <2>1. /\ handler[r].key \in Sources /\ handler[r].value \in Nat /\ At(r, "setEntry")
        /\ UNCHANGED <<version, disturbed>>
        /\ \A q \in Requests : q # r => handler'[q] = handler[q]
        /\ handler'[r].step # "setEntry"
    BY <1>1, <1>2, <1>7
       DEF SetEntry, Return, Idle, outside, history, TypeInv, KeyOfStep, KeyFits,
       SourceSteps, At, Locals
  <2>2. /\ entry'[handler[r].key] \in {handler[r].value, entry[handler[r].key]}
        /\ \A q \in Sources : q # handler[r].key => entry'[q] = entry[q]
    BY <1>2, <1>7, <2>1 DEF SetEntry, AfterSet
  <2>3. ASSUME NEW q \in Sources, entry'[q] # Miss PROVE entry'[q] <= version'[q]
    BY <2>1, <2>2, <2>3 DEF NothingNewer
  <2>4. ASSUME NEW p \in Requests, At(p, "setEntry")'
        PROVE  LET q == handler'[p].key
               IN /\ handler'[p].value <= version'[q]
                  /\ q \notin disturbed' /\ entry'[q] # Miss
                       => entry'[q] <= handler'[p].value
    <3>1. p # r /\ handler'[p] = handler[p] /\ At(p, "setEntry")
      BY <2>1, <2>4 DEF At
    <3>2. handler[p].key \in Sources
      BY <1>1, <3>1 DEF TypeInv, KeyOfStep, KeyFits, SourceSteps, At
    <3>3. CASE handler[p].key = handler[r].key
      <4>1. handler[p].key \in disturbed
        BY <2>1, <3>1, <3>3 DEF OneAtKey, Busy, At
      <4> QED BY <2>1, <3>1, <4>1 DEF NothingNewer
    <3>4. CASE handler[p].key # handler[r].key
      BY <2>1, <2>2, <3>1, <3>2, <3>4 DEF NothingNewer
    <3> QED BY <3>3, <3>4
  <2> QED BY <2>3, <2>4 DEF NothingNewer
<1>8. ASSUME \/ \E g \in Grants, s \in States, u \in Users : Redirect(g, s, u)
             \/ \E q \in Sources : Publish(q)
             \/ Expire
             \/ UNCHANGED vars
      PROVE  NothingNewer'
  <2>1. UNCHANGED handler
    BY <1>8 DEF Redirect, Publish, Expire, vars
  <2>2. \A q \in Sources : version'[q] \in Nat /\ version'[q] >= version[q]
    BY <1>2, <1>8 DEF Redirect, Publish, Expire, vars, outside
  <2>3. \A q \in Sources : entry'[q] \in {entry[q], Miss}
    BY <1>2, <1>8 DEF Redirect, Publish, Expire, vars, cache
  <2> QED BY <1>1, <2>1, <2>2, <2>3, FillsFrame DEF At
<1> QED BY <1>4, <1>5, <1>6, <1>7, <1>8 DEF Next

\* Steps that touch no nonce but to end it.
LEMMA NoncesFrame ==
  ASSUME TypeInv, LatestStored, disturbed \subseteq disturbed', UNCHANGED latest,
         \A a \in Addresses : a \notin lapsed' => a \notin lapsed /\ nonce'[a] = nonce[a],
         \A r \in Requests : At(r, "setNonce") => handler'[r] = handler[r]
  PROVE  LatestStored'
BY DEF LatestStored, At

LEMMA NoncesNext ==
  ASSUME OriginInv, LatestStored, [Next]_vars, disturbed \subseteq disturbed'
  PROVE  LatestStored'
<1>1. /\ TypeInv /\ handler \in [Requests -> Locals]
      /\ nonce \in [Addresses -> Nat \cup {Miss}] /\ latest \in [Addresses -> Nat]
  BY DEF OriginInv, TypeInv, TypeOK
<1>2. ASSUME NEW r \in Requests,
             \/ GitHubEndpoints(r) \/ DiscordEndpoints(r) \/ MetaMaskEndpoints(r)
             \/ \E q \in Sources : GetICal(r, q)
      PROVE  LatestStored'
  <2>1. /\ ~At(r, "setNonce") /\ UNCHANGED <<nonce, latest, lapsed>>
        /\ \A q \in Requests : q # r => handler'[q] = handler[q]
    BY <1>1, <1>2, BeginsAt DEF Busy, At, cache
  <2> QED BY <1>1, <2>1, NoncesFrame
<1>3. ASSUME NEW r \in Requests, Step(r), ~DelNonce(r), ~SetNonce(r)
      PROVE  LatestStored'
  <2>1. \A q \in Requests : q # r => handler'[q] = handler[q]
    BY <1>1, <1>3, GoesTo
  <2>2. ~At(r, "setNonce") /\ UNCHANGED <<nonce, latest, lapsed>>
    BY <1>3 DEF Step, SetSubject, GitHubFind, GitHubFetch, GitHubFinish, DiscordFind,
       DiscordDelete, DiscordFetch, FindSubject, Fetch, Forget, In, At,
       GetNonce, LazyGet, Compute, SetEntry, cache, history
  <2> QED BY <1>1, <2>1, <2>2, NoncesFrame
<1>4. ASSUME NEW r \in Requests, DelNonce(r) PROVE LatestStored'
  <2>1. /\ \A q \in Requests : q # r => handler'[q] = handler[q]
        /\ handler'[r].step = "setNonce" /\ handler'[r].key = handler[r].key
    BY <1>1, <1>4 DEF DelNonce, Locals
  <2>2. /\ ~At(r, "setNonce") /\ UNCHANGED <<latest, lapsed>>
        /\ \A a \in Addresses : a # handler[r].key => nonce'[a] = nonce[a]
    BY <1>1, <1>4 DEF DelNonce, At
  <2> QED BY <2>1, <2>2 DEF LatestStored, At
<1>5. ASSUME NEW r \in Requests, SetNonce(r) PROVE LatestStored'
  <2>1. /\ handler[r].key \in Addresses /\ handler[r].code \in Nat
        /\ \A q \in Requests : q # r => handler'[q] = handler[q]
    BY <1>1, <1>5 DEF SetNonce, Return, TypeInv, KeyOfStep, KeyFits, NonceSteps, At, Locals
  <2>2. /\ \A a \in Addresses : a # handler[r].key =>
             nonce'[a] = nonce[a] /\ latest'[a] = latest[a] /\ (a \in lapsed' <=> a \in lapsed)
        /\ latest'[handler[r].key] = handler[r].code
    BY <1>1, <1>5, <2>1 DEF SetNonce
  <2>3. handler[r].key \notin disturbed' => nonce'[handler[r].key] = handler[r].code
    BY <1>1, <1>5, <2>1 DEF SetNonce, Noting
  <2> SUFFICES ASSUME NEW a \in Addresses, a \notin lapsed', a \notin disturbed',
                      \A q \in Requests : At(q, "setNonce")' => handler'[q].key # a
               PROVE  nonce'[a] = latest'[a]
    BY DEF LatestStored
  <2>4. CASE a = handler[r].key
    BY <2>2, <2>3, <2>4
  <2>5. CASE a # handler[r].key
    <3>1. \A q \in Requests : At(q, "setNonce") => handler[q].key # a
      BY <2>1, <2>5 DEF At
    <3> QED BY <2>2, <2>5, <3>1 DEF LatestStored
  <2> QED BY <2>4, <2>5
<1>6. ASSUME \/ \E g \in Grants, s \in States, u \in Users : Redirect(g, s, u)
             \/ \E q \in Sources : Publish(q)
             \/ Expire
             \/ UNCHANGED vars
      PROVE  LatestStored'
  <2>1. UNCHANGED <<handler, latest>>
    BY <1>6 DEF Redirect, Publish, Expire, vars, history
  <2>2. \A a \in Addresses : a \notin lapsed' => a \notin lapsed /\ nonce'[a] = nonce[a]
    BY <1>1, <1>6 DEF Redirect, Publish, Expire, vars, cache, history
  <2> QED BY <1>1, <2>1, <2>2, NoncesFrame
<1> QED BY <1>2, <1>3, <1>4, <1>5, <1>6 DEF Next

LEMMA AskedOfGrantNext ==
  ASSUME OriginInv, AskedOfGrant, [Next]_vars
  PROVE  AskedOfGrant'
<1>1. TypeInv /\ CallbackOfGrant /\ grant \in [Grants -> Redirects \cup {Miss}]
  BY DEF OriginInv, TypeInv, TypeOK
<1>2. \A g \in Grants : grant[g] # Miss => grant'[g] = grant[g]
  <2>1. ASSUME NEW f \in Grants, NEW s, NEW u, Redirect(f, s, u)
        PROVE  \A g \in Grants : grant[g] # Miss => grant'[g] = grant[g]
    BY <1>1, <2>1 DEF Redirect
  <2>2. ASSUME NEW r \in Requests,
               \/ GitHubEndpoints(r) \/ DiscordEndpoints(r) \/ MetaMaskEndpoints(r)
               \/ \E q \in Sources : GetICal(r, q)
        PROVE  UNCHANGED grant
    BY <1>1, <2>2, BeginsAt
  <2>3. ASSUME NEW r \in Requests, Step(r) PROVE UNCHANGED grant
    BY <2>3 DEF Step, SetSubject, GitHubFind, GitHubFetch, GitHubFinish, DiscordFind,
       DiscordDelete, DiscordFetch, FindSubject, Fetch, DelNonce, SetNonce,
       GetNonce, LazyGet, Compute, SetEntry, outside
  <2>4. (\E q \in Sources : Publish(q)) \/ Expire \/ UNCHANGED vars => UNCHANGED grant
    BY DEF Publish, Expire, vars, outside
  <2> QED BY <2>1, <2>2, <2>3, <2>4 DEF Next
<1>3. \A s \in asked' : s \in asked \/ \E r \in Requests : At(r, "fetch") /\ handler[r].key = s
  <2>1. ASSUME NEW r \in Requests, GitHubFetch(r) \/ DiscordFetch(r)
        PROVE  At(r, "fetch") /\ asked' = asked \cup {handler[r].key}
    BY <2>1 DEF GitHubFetch, DiscordFetch, Fetch, In
  <2>2. ASSUME NEW r \in Requests, Step(r), ~GitHubFetch(r), ~DiscordFetch(r)
        PROVE  UNCHANGED asked
    BY <2>2 DEF Step, SetSubject, GitHubFind, GitHubFinish, DiscordFind,
       DiscordDelete, FindSubject, DelNonce, SetNonce, GetNonce, LazyGet, Compute,
       SetEntry, history
  <2>3. ASSUME NEW r \in Requests,
               \/ GitHubEndpoints(r) \/ DiscordEndpoints(r) \/ MetaMaskEndpoints(r)
               \/ \E q \in Sources : GetICal(r, q)
        PROVE  UNCHANGED asked
    BY <1>1, <2>3, BeginsAt
  <2>4. CASE \/ \E g \in Grants, s \in States, u \in Users : Redirect(g, s, u)
             \/ \E q \in Sources : Publish(q)
             \/ Expire
             \/ UNCHANGED vars
    BY <2>4 DEF Redirect, Publish, Expire, vars, history
  <2> QED BY <2>1, <2>2, <2>3, <2>4 DEF Next
<1>4. ASSUME NEW r \in Requests, At(r, "fetch")
      PROVE  \E g \in Grants : grant[g] # Miss /\ grant[g].state = handler[r].key
  BY <1>1, <1>4 DEF CallbackOfGrant, CallbackFits, At
<1>5. \A s \in asked' : \E g \in Grants : grant[g] # Miss /\ grant[g].state = s
  BY <1>3, <1>4 DEF AskedOfGrant
<1> QED BY <1>2, <1>5 DEF AskedOfGrant

\* Steps that ask nothing keep what was asked deleted, unless somebody finds it stored.
LEMMA AskedFrame ==
  ASSUME TypeInv, GoneOnceAsked, disturbed \subseteq disturbed', UNCHANGED asked,
         \A s \in asked : issued'[s] = issued[s] /\ subject'[s] \in {subject[s], Miss},
         \A r \in Requests : HoldsSubject(r)' =>
           \/ HoldsSubject(r) /\ handler'[r].key = handler[r].key
           \/ subject[handler'[r].key] # Miss
  PROVE  GoneOnceAsked'
BY DEF GoneOnceAsked, PlatformOf

LEMMA GoneOnceAskedNext ==
  ASSUME IInv, AskedOfGrant, GoneOnceAsked, [Next]_vars
  PROVE  GoneOnceAsked'
<1>1. /\ OriginInv /\ TypeInv /\ disturbed \subseteq disturbed'
      /\ handler \in [Requests -> Locals] /\ asked \subseteq States
      /\ issued \in [States -> Asked \cup {Miss}] /\ subject \in [States -> Asked \cup {Miss}]
  BY OneAtKeyNext DEF IInv, OriginInv, TypeInv, TypeOK
<1>2. \A s \in asked : issued[s] # Miss
  BY <1>1 DEF AskedOfGrant, OriginInv, GrantOfIssued
<1>3. ASSUME NEW r \in Requests,
             \/ GitHubEndpoints(r) \/ DiscordEndpoints(r) \/ MetaMaskEndpoints(r)
             \/ \E q \in Sources : GetICal(r, q)
      PROVE  GoneOnceAsked'
  <2>1. /\ ~HoldsSubject(r)' /\ UNCHANGED <<subject, asked>>
        /\ \A q \in Requests : q # r => handler'[q] = handler[q]
    BY <1>1, <1>3, BeginsAt DEF HoldsSubject, cache
  <2>2. \A s \in asked : issued'[s] = issued[s]
    BY <1>1, <1>2, <1>3 DEF GitHubEndpoints, DiscordEndpoints, MetaMaskEndpoints, GetICal,
       RequestGitHub, RequestDiscord, BuildState, Callback, RequestNonce, Verify, outside
  <2> QED BY <1>1, <2>1, <2>2, AskedFrame DEF HoldsSubject
<1>4. ASSUME NEW r \in Requests, Step(r)
      PROVE  /\ UNCHANGED issued
             /\ \A q \in Requests : q # r => handler'[q] = handler[q]
             /\ HoldsSubject(r)' =>
                  handler'[r].key = handler[r].key /\
                  (HoldsSubject(r) \/ GitHubFind(r) \/ DiscordFind(r))
  <2>1. UNCHANGED issued
    BY <1>4 DEF Step, SetSubject, GitHubFind, GitHubFetch, GitHubFinish, DiscordFind,
       DiscordDelete, DiscordFetch, FindSubject, Fetch, DelNonce, SetNonce,
       GetNonce, LazyGet, Compute, SetEntry, outside
  <2> QED BY <1>1, <1>4, <2>1, GoesTo
        DEF HoldsSubject, GitHubFetch, DiscordDelete, In, At
<1>5. ASSUME NEW r \in Requests, GitHubFind(r) \/ DiscordFind(r) PROVE GoneOnceAsked'
  <2>1. UNCHANGED <<subject, asked>> /\ Step(r)
    BY <1>5 DEF GitHubFind, DiscordFind, FindSubject, cache, history, Step
  <2>2. HoldsSubject(r)' => subject[handler'[r].key] # Miss
    <3>1. CASE Return(r)
      BY <1>1, <3>1 DEF Return, Idle, HoldsSubject
    <3>2. CASE ~Return(r)
      <4>1. subject[handler[r].key] # Miss
        BY <1>5, <3>2 DEF GitHubFind, DiscordFind, FindSubject, Gets
      <4> QED BY <1>4, <2>1, <4>1
    <3> QED BY <3>1, <3>2
  <2> QED BY <1>1, <1>4, <2>1, <2>2, AskedFrame DEF HoldsSubject
<1>6. ASSUME NEW r \in Requests, SetSubject(r) PROVE GoneOnceAsked'
  <2>1. UNCHANGED asked /\ Step(r) /\ At(r, "setSubject")
    BY <1>6 DEF SetSubject, Step
  <2>2. \A s \in asked : s # handler[r].key
    BY <2>1 DEF AskedOfGrant, IInv, Serves, NoGrantYet
  <2>3. \A s \in asked : subject'[s] = subject[s]
    BY <1>1, <1>6, <2>2 DEF SetSubject
  <2>4. HoldsSubject(r)' => HoldsSubject(r) /\ handler'[r].key = handler[r].key
    BY <1>1, <1>6 DEF SetSubject, Return, Idle, HoldsSubject
  <2> QED BY <1>1, <1>4, <2>1, <2>3, <2>4, AskedFrame DEF HoldsSubject
<1>7. ASSUME NEW r \in Requests, GitHubFinish(r) \/ DiscordDelete(r) PROVE GoneOnceAsked'
  <2>1. UNCHANGED asked /\ Step(r) /\ HoldsSubject(r) /\ Forget(handler[r].key)
    BY <1>7 DEF GitHubFinish, DiscordDelete, Step, HoldsSubject, In, At
  <2>2. \A s \in asked : subject'[s] \in {subject[s], Miss}
    BY <1>1, <2>1 DEF Forget, AfterDel
  <2> QED BY <1>1, <1>4, <2>1, <2>2, AskedFrame DEF HoldsSubject
<1>8. ASSUME NEW r \in Requests, GitHubFetch(r) \/ DiscordFetch(r) PROVE GoneOnceAsked'
  <2>1. /\ asked' = asked \cup {handler[r].key} /\ Step(r) /\ At(r, "fetch")
        /\ UNCHANGED <<subject, disturbed>> /\ HoldsSubject(r)
    BY <1>8 DEF GitHubFetch, DiscordFetch, Fetch, cache, Step, HoldsSubject, In, At
  <2>2. \A q \in Requests : HoldsSubject(q)' =>
          HoldsSubject(q) /\ handler'[q].key = handler[q].key
    BY <1>4, <2>1 DEF HoldsSubject
  <2> SUFFICES ASSUME NEW s \in asked', PlatformOf(s)' = "discord", s \notin disturbed
               PROVE  /\ subject[s] = Miss
                      /\ \A q \in Requests : HoldsSubject(q)' => handler'[q].key # s
    BY <2>1 DEF GoneOnceAsked
  <2>3. PlatformOf(s) = "discord"
    BY <1>4, <2>1 DEF PlatformOf
  <2>4. CASE s \in asked
    BY <2>2, <2>3, <2>4 DEF GoneOnceAsked
  <2>5. CASE s \notin asked
    <3>1. s = handler[r].key /\ DiscordFetch(r) /\ In(r, "discord", "fetch")
      BY <1>8, <2>1, <2>3, <2>5 DEF GitHubFetch, DiscordFetch, In
    <3>2. subject[s] = Miss
      BY <3>1 DEF IInv, Serves, DeletedAtDiscord
    <3>3. ~HoldsSubject(r)'
      BY <1>1, <3>1 DEF DiscordFetch, HandOver, Return, Idle, HoldsSubject
    <3>4. \A q \in Requests : q # r /\ HoldsSubject(q) => handler[q].key # s
      BY <2>1, <3>1 DEF IInv, OneAtKey, Busy, HoldsSubject
    <3> QED BY <2>2, <3>2, <3>3, <3>4
  <2> QED BY <2>4, <2>5
<1>9. ASSUME NEW r \in Requests,
             DelNonce(r) \/ SetNonce(r) \/ GetNonce(r) \/ LazyGet(r) \/ Compute(r) \/ SetEntry(r)
      PROVE  GoneOnceAsked'
  <2>1. UNCHANGED <<subject, asked>> /\ Step(r)
    BY <1>9 DEF DelNonce, SetNonce, GetNonce, LazyGet, Compute, SetEntry, cache, history, Step
  <2>2. ~HoldsSubject(r)'
    BY <1>1, <1>9, <2>1, GoesTo
       DEF HoldsSubject, GitHubFind, GitHubFetch, DiscordFind, DiscordDelete, FindSubject,
       In, At, DelNonce, SetNonce, GetNonce, LazyGet, Compute, SetEntry
  <2> QED BY <1>1, <1>4, <2>1, <2>2, AskedFrame DEF HoldsSubject
<1>10. ASSUME \/ \E g \in Grants, s \in States, u \in Users : Redirect(g, s, u)
              \/ \E q \in Sources : Publish(q)
              \/ Expire
              \/ UNCHANGED vars
       PROVE  GoneOnceAsked'
  <2>1. UNCHANGED <<handler, asked, issued>>
    BY <1>10 DEF Redirect, Publish, Expire, vars, history, outside
  <2>2. \A s \in asked : subject'[s] \in {subject[s], Miss}
    BY <1>1, <1>10 DEF Redirect, Publish, Expire, vars, cache
  <2> QED BY <1>1, <2>1, <2>2, AskedFrame DEF HoldsSubject
<1> QED BY <1>3, <1>5, <1>6, <1>7, <1>8, <1>9, <1>10 DEF Next, Step

\* The inductive invariant of the whole cache.
CacheInv == IInv /\ AskedOfGrant /\ GoneOnceAsked /\ LatestStored /\ NothingNewer

LEMMA CacheInvInit == Init => CacheInv
<1> SUFFICES ASSUME Init PROVE CacheInv
  OBVIOUS
<1>1. AskedOfGrant /\ GoneOnceAsked /\ LatestStored
  BY DEF Init, AskedOfGrant, GoneOnceAsked, LatestStored
<1>2. NothingNewer
  BY DEF Init, NothingNewer, At, Idle
<1> QED BY <1>1, <1>2, IInvInit DEF CacheInv

LEMMA CacheInvNext == CacheInv /\ [Next]_vars => CacheInv'
<1> SUFFICES ASSUME CacheInv, [Next]_vars PROVE CacheInv'
  OBVIOUS
<1>1. IInv' /\ disturbed \subseteq disturbed'
  BY IInvNext, OneAtKeyNext DEF CacheInv, IInv
<1> QED BY <1>1, AskedOfGrantNext, GoneOnceAskedNext, NoncesNext, FillsNext
      DEF CacheInv, IInv

\* Whatever overlaps, expires or fails: states, nonces and calendars are in the cache as
\* the requests at their keys expect, except at disturbed keys.
THEOREM CacheInvHolds == Spec => []CacheInv
BY CacheInvInit, CacheInvNext, PTL DEF Spec

\* Discord is asked once about a state, since the callback deletes the state before it
\* asks: a second callback with it finds nothing, unless both looked before the deletion.
THEOREM DiscordAskedOnce == Spec => AskedOnceAtDiscord
<1>1. CacheInv =>
        \A r \in Requests :
          In(r, "discord", "fetch") /\ handler'[r] # handler[r]
            /\ handler[r].key \notin disturbed
            => handler[r].key \notin asked
  BY DEF CacheInv, GoneOnceAsked, In, At, HoldsSubject
<1>2. CacheInv /\ [Next]_vars =>
        [\A r \in Requests :
           In(r, "discord", "fetch") /\ handler'[r] # handler[r]
             /\ handler[r].key \notin disturbed
             => handler[r].key \notin asked]_vars
  BY <1>1
<1> QED BY <1>2, CacheInvHolds, PTL DEF Spec, AskedOnceAtDiscord

\* A signature is accepted exactly if it is one of the code that was answered last for the
\* address, until that code expires: generateVerificationCode deletes the code before,
\* and verify leaves the code in place.  Overlapping requests for the address, and a
\* cache that fails, are exempt.
THEOREM LatestCodeAccepted == Spec => LatestCodeOnly
<1>1. ASSUME CacheInv, [Next]_vars, NEW r \in Requests, At(r, "getNonce"),
             ~At(r, "getNonce")', handler[r].key \notin disturbed',
             handler[r].key \notin lapsed
      PROVE  verified' = (handler[r].code = latest[handler[r].key])
  <2>1. /\ OriginInv /\ OneAtKey /\ TypeInv /\ handler[r].key \in Addresses
        /\ disturbed \subseteq disturbed'
    BY <1>1, OneAtKeyNext DEF CacheInv, IInv, OriginInv, TypeInv, KeyOfStep, KeyFits,
       NonceSteps, At
  <2>2. GetNonce(r)
    <3>1. PICK q \in Requests :
            \/ GitHubEndpoints(q) \/ DiscordEndpoints(q) \/ MetaMaskEndpoints(q)
            \/ \E c \in Sources : GetICal(q, c)
            \/ Step(q)
      BY <1>1 DEF Next, Redirect, Publish, Expire, vars, At
    <3>2. CASE Step(q)
      <4>1. q = r
        BY <1>1, <2>1, <3>2, GoesTo DEF At
      <4> QED BY <1>1, <3>2, <4>1
            DEF Step, SetSubject, GitHubFind, GitHubFetch, GitHubFinish, DiscordFind,
            DiscordDelete, DiscordFetch, FindSubject, DelNonce, SetNonce, LazyGet,
            Compute, SetEntry, In, At
    <3>3. CASE ~Step(q)
      <4>1. q # r /\ handler'[r] = handler[r]
        BY <1>1, <2>1, <3>1, <3>3, BeginsAt DEF Busy, At
      <4> QED BY <1>1, <4>1 DEF At
    <3> QED BY <3>2, <3>3
  <2>3. \A q \in Requests : At(q, "setNonce") => handler[q].key # handler[r].key
    BY <1>1, <2>1 DEF OneAtKey, Busy, At
  <2>4. nonce[handler[r].key] = latest[handler[r].key]
    BY <1>1, <2>1, <2>3 DEF CacheInv, LatestStored
  <2>5. PICK got \in Gets(nonce[handler[r].key]) :
          Noting(handler[r].key, got # nonce[handler[r].key])
            /\ verified' = (got = handler[r].code)
    BY <2>2 DEF GetNonce
  <2>6. got = nonce[handler[r].key]
    BY <1>1, <2>5 DEF Noting
  <2> QED BY <2>4, <2>5, <2>6
<1>2. CacheInv /\ [Next]_vars =>
        [\A r \in Requests :
           LET a == handler[r].key
           IN At(r, "getNonce") /\ ~At(r, "getNonce")'
                /\ a \notin disturbed' /\ a \notin lapsed
                => verified' = (handler[r].code = latest[a])]_vars
  BY <1>1
<1> QED BY <1>2, CacheInvHolds, PTL DEF Spec, LatestCodeOnly

\* A calendar that lazyGet has kept is not replaced by an older version of it, although
\* the calendar changes while it is fetched, unless two fills of the key overlapped.
THEOREM CalendarForward == Spec => FillsForward
<1>1. ASSUME CacheInv, [Next]_vars, NEW q \in Sources, entry[q] # Miss, entry'[q] # Miss,
             q \notin disturbed
      PROVE  entry'[q] >= entry[q]
  <2>1. TypeInv /\ entry \in [Sources -> Nat \cup {Miss}]
    BY <1>1 DEF CacheInv, IInv, OriginInv, TypeInv, TypeOK
  <2>2. CASE entry'[q] = entry[q]
    BY <1>1, <2>1, <2>2
  <2>3. CASE entry'[q] # entry[q]
    <3>1. PICK r \in Requests : SetEntry(r)
      <4>1. ASSUME NEW r \in Requests, Step(r), ~SetEntry(r) PROVE UNCHANGED entry
        BY <4>1 DEF Step, SetSubject, GitHubFind, GitHubFetch, GitHubFinish, DiscordFind,
           DiscordDelete, DiscordFetch, FindSubject, Fetch, Forget, DelNonce, SetNonce,
           GetNonce, LazyGet, Compute, cache
      <4>2. ASSUME NEW r \in Requests,
                   \/ GitHubEndpoints(r) \/ DiscordEndpoints(r) \/ MetaMaskEndpoints(r)
                   \/ \E c \in Sources : GetICal(r, c)
            PROVE  UNCHANGED entry
        BY <2>1, <4>2, BeginsAt DEF cache
      <4>3. CASE \/ \E g \in Grants, s \in States, u \in Users : Redirect(g, s, u)
                 \/ \E c \in Sources : Publish(c)
                 \/ Expire
                 \/ UNCHANGED vars
        <5>1. entry'[q] \in {entry[q], Miss}
          BY <2>1, <4>3 DEF Redirect, Publish, Expire, vars, cache
        <5> QED BY <1>1, <2>3, <5>1
      <4> QED BY <1>1, <2>3, <4>1, <4>2, <4>3 DEF Next
    <3>2. /\ At(r, "setEntry") /\ handler[r].key = q /\ entry'[q] = handler[r].value
          /\ handler[r].value \in Nat
      BY <2>1, <2>3, <3>1 DEF SetEntry, AfterSet, TypeInv, TypeOK, Locals
    <3> QED BY <1>1, <2>1, <3>2 DEF CacheInv, NothingNewer
  <2> QED BY <2>2, <2>3
<1>2. CacheInv /\ [Next]_vars =>
        [\A q \in Sources :
           entry[q] # Miss /\ entry'[q] # Miss /\ q \notin disturbed
             => entry'[q] >= entry[q]]_vars
  BY <1>1
<1> QED BY <1>2, CacheInvHolds, PTL DEF Spec, FillsForward

===============================================================================
