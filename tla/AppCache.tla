------------------------------- MODULE AppCache -------------------------------
(***************************************************************************)
(* AppCacheService and what the server remembers in it between requests:    *)
(*   - for GitHub and Discord (OAuth2) a random state, which stands for     *)
(*     what was asked; the platform sends the browser back with it and with *)
(*     a code that is good for one exchange;                                *)
(*   - for MetaMask a nonce per wallet address, which the wallet signs;     *)
(*   - for the calendar what was fetched from other sites.                  *)
(* A login ends in a call of AccountsService, see Accounts; handed records  *)
(* the calls that the callbacks of OAuth2 make.                             *)
(*                                                                          *)
(* One step per await of the cache or of a platform.  The service logs the  *)
(* errors of the store and goes on: a get that fails is a miss, a set or    *)
(* del that fails leaves the key as it was.                                 *)
(***************************************************************************)
EXTENDS FiniteSets, Naturals

CONSTANTS Miss,        \* what get returns for a key that is not there
          Params,      \* what is asked: the type and the user, name or path
          Users,       \* accounts of the platforms
          Addresses,   \* wallets
          Sources,     \* calendars on other sites
          Requests,    \* request processes, reused
          States,      \* what generateState may return (bounds the requests)
          Grants,      \* redirects from a platform to a callback (a bound)
          MaxCode,     \* bound: nonces ever generated
          MaxVersion   \* bound: changes of a calendar

Platforms == {"github", "discord"}

ASSUME CacheBounds == MaxCode \in Nat /\ MaxVersion \in Nat

VARIABLES
  subject,    \* cache: state -> [platform, param]
  nonce,      \* cache: address -> the code to be signed
  entry,      \* cache: source -> the version that was fetched
  handler,    \* request -> what it does next and remembers
  issued,     \* state -> what it was generated for
  grant,      \* platforms: redirect -> [state, user] of its code
  spent,      \* platforms: redirects whose code was exchanged
  lastCode,   \* nonces generated so far
  version,    \* other sites: source -> its present version
  \* history
  handed,     \* calls of AccountsService, by redirect
  asked,      \* states whose callback asked the platform
  latest,     \* address -> the code its owner was told last
  lapsed,     \* addresses whose nonce expired or was never stored
  verified,   \* was the signature that was checked last accepted?
  disturbed   \* keys used by two requests at once, or whose set or del failed

cache   == <<subject, nonce, entry>>
outside == <<issued, grant, spent, lastCode, version>>
history == <<handed, asked, latest, lapsed, verified, disturbed>>
vars    == <<cache, handler, outside, history>>

Asked     == [platform : Platforms, param : Params]
Redirects == [state : States, user : Users]
Codes     == 1 .. MaxCode
Keys  == States \cup Addresses \cup Sources
Steps == {"idle", "setSubject", "getSubject", "fetch", "delSubject",
          "delNonce", "setNonce", "getNonce", "lazyGet", "compute", "setEntry"}

\* key is the state, address or source; subject, code and value are locals.
Locals == [step : Steps, key : Keys \cup {Miss}, grant : Grants \cup {Miss},
           subject : Asked \cup {Miss}, code : Nat, value : Nat]
Idle == [step |-> "idle", key |-> Miss, grant |-> Miss, subject |-> Miss,
         code |-> 0, value |-> 0]

ASSUME MissIsFresh == Miss \notin Asked \cup Redirects \cup Keys

Busy(r)      == handler[r].step # "idle"
PlatformOf(s) == issued[s].platform

TypeOK ==
  /\ subject \in [States -> Asked \cup {Miss}]
  /\ nonce \in [Addresses -> Nat \cup {Miss}]
  /\ entry \in [Sources -> Nat \cup {Miss}]
  /\ handler \in [Requests -> Locals]
  /\ issued \in [States -> Asked \cup {Miss}]
  /\ grant \in [Grants -> Redirects \cup {Miss}]
  /\ spent \subseteq Grants
  /\ lastCode \in Nat
  /\ version \in [Sources -> Nat]
  /\ handed \subseteq [grant : Grants, platform : Platforms,
                       param : Params, user : Users]
  /\ asked \subseteq States
  /\ latest \in [Addresses -> Nat]
  /\ lapsed \subseteq Addresses
  /\ verified \in BOOLEAN
  /\ disturbed \subseteq Keys

Init ==
  /\ subject = [s \in States |-> Miss]
  /\ nonce = [a \in Addresses |-> Miss]
  /\ entry = [q \in Sources |-> Miss]
  /\ handler = [r \in Requests |-> Idle]
  /\ issued = [s \in States |-> Miss]
  /\ grant = [g \in Grants |-> Miss]
  /\ spent = {} /\ lastCode = 0
  /\ version = [q \in Sources |-> 0]
  /\ handed = {} /\ asked = {}
  /\ latest = [a \in Addresses |-> 0]
  /\ lapsed = Addresses /\ verified = FALSE
  /\ disturbed = {}

-----------------------------------------------------------------------------
(* AppCacheService: what a key may hold after a set or a del, and what a get *)
(* may return.                                                              *)
AfterSet(held, value) == {value, held}
AfterDel(held)        == {Miss, held}
Gets(held)            == {held, Miss}

\* A request begins; a key that another one is using is disturbed.
Begin(r, h) ==
  /\ ~Busy(r)
  /\ handler' = [handler EXCEPT ![r] = h]
  /\ disturbed' = disturbed \cup
       {k \in {h.key} : \E q \in Requests : Busy(q) /\ handler[q].key = k}

At(r, step)   == handler[r].step = step
Goto(r, step) == handler' = [handler EXCEPT ![r].step = step]
Return(r)     == handler' = [handler EXCEPT ![r] = Idle]

\* A set or del of key that left it as it was disturbs it.
Noting(key, failed) ==
  disturbed' = IF failed THEN disturbed \cup {key} ELSE disturbed

-----------------------------------------------------------------------------
(* OAuth2: the request. *)

\* buildAuthorizeRequestState, up to the set: a new state, and a place in the
\* cache for what was asked.
BuildState(r, p, param, s) ==
  /\ issued[s] = Miss
  /\ Begin(r, [Idle EXCEPT !.step = "setSubject", !.key = s])
  /\ issued' = [issued EXCEPT ![s] = [platform |-> p, param |-> param]]
  /\ UNCHANGED <<cache, grant, spent, lastCode, version,
                 handed, asked, latest, lapsed, verified>>

\* authorizeRequest of the two services.
RequestGitHub(r, param, s)  == BuildState(r, "github", param, s)
RequestDiscord(r, param, s) == BuildState(r, "discord", param, s)

\* The set; the platform's address is answered even if it failed.
SetSubject(r) ==
  LET s == handler[r].key
  IN /\ At(r, "setSubject")
     /\ \E held \in AfterSet(subject[s], issued[s]) :
          /\ subject' = [subject EXCEPT ![s] = held]
          /\ Noting(s, held # issued[s])
     /\ Return(r)
     /\ UNCHANGED <<nonce, entry, outside, handed, asked, latest, lapsed, verified>>

\* At the platform: the owner of an account agrees and the browser is sent
\* to the callback, as often as they like.  (One sent back without a code fails
\* like one whose code does not work.)
Redirect(g, s, u) ==
  /\ grant[g] = Miss /\ issued[s] # Miss
  /\ \A r \in Requests : At(r, "setSubject") => handler[r].key # s
  /\ grant' = [grant EXCEPT ![g] = [state |-> s, user |-> u]]
  /\ UNCHANGED <<cache, handler, issued, spent, lastCode, version, history>>

-----------------------------------------------------------------------------
(* OAuth2: the callback. *)

\* The browser may come back to the same address again.
Callback(r, g, p) ==
  /\ grant[g] # Miss /\ PlatformOf(grant[g].state) = p
  /\ Begin(r, [Idle EXCEPT !.step = "getSubject", !.key = grant[g].state,
                           !.grant = g])
  /\ UNCHANGED <<cache, outside, handed, asked, latest, lapsed, verified>>

\* Request r, in a callback of platform p, is at step.
In(r, p, step) == At(r, step) /\ PlatformOf(handler[r].key) = p

\* getAuthorizeRequestSubjectByState: the subject, or 'Invalid state'.
FindSubject(r, p, next) ==
  /\ In(r, p, "getSubject")
  /\ \E got \in Gets(subject[handler[r].key]) :
       \/ /\ got # Miss
          /\ handler' = [handler EXCEPT ![r].step = next, ![r].subject = got]
       \/ got = Miss /\ Return(r)
  /\ UNCHANGED <<cache, outside, history>>

\* delAuthorizeRequestSubjectByState
Forget(s) ==
  /\ \E held \in AfterDel(subject[s]) :
       /\ subject' = [subject EXCEPT ![s] = held]
       /\ Noting(s, held # Miss)
  /\ UNCHANGED <<nonce, entry>>

\* handleAuthorizeCallback is called with what the state stood for, and for
\* the account that the platform named.
HandOver(r) ==
  LET h == handler[r]
  IN /\ handed' = handed \cup
          {[grant |-> h.grant, platform |-> h.subject.platform,
            param |-> h.subject.param, user |-> grant[h.grant].user]}
     /\ Return(r)

\* getPlatformUsername: the code is exchanged for a token, once, and the
\* account read with it.
Named(g)  == g \notin spent /\ spent' = spent \cup {g}
Failed(g) == spent' \in {spent, spent \cup {g}}

Fetch(r) ==
  /\ asked' = asked \cup {handler[r].key}
  /\ UNCHANGED <<cache, issued, grant, lastCode, version,
                 latest, lapsed, verified, disturbed>>

\* (Mutant: Discord is asked before the state is deleted.)
DiscordFindFetch(r) == FindSubject(r, "discord", "fetch")

\* (Mutant: a callback that fails deletes the state.)
GitHubFetchForgets(r) ==
  /\ In(r, "github", "fetch")
  /\ \/ Named(handler[r].grant) /\ Goto(r, "delSubject") /\ Noting(Miss, FALSE)
        /\ UNCHANGED cache
     \/ Failed(handler[r].grant) /\ Return(r) /\ Forget(handler[r].key)
  /\ asked' = asked \cup {handler[r].key}
  /\ UNCHANGED <<issued, grant, lastCode, version, handed, latest, lapsed, verified>>

\* GitHub: the state is found, the platform asked, and the state deleted.  A
\* failure sends the browser back with 401.
GitHubFind(r) == FindSubject(r, "github", "fetch")
GitHubFetch(r) ==
  /\ In(r, "github", "fetch")
  /\ \/ Named(handler[r].grant) /\ Goto(r, "delSubject")
     \/ Failed(handler[r].grant) /\ Return(r)
  /\ UNCHANGED handed
  /\ Fetch(r)

\* (Mutant: the state is left to expire.)
GitHubFinishKeeping(r) ==
  /\ In(r, "github", "delSubject")
  /\ HandOver(r)
  /\ UNCHANGED <<cache, outside, asked, latest, lapsed, verified, disturbed>>

GitHubFinish(r) ==
  /\ In(r, "github", "delSubject")
  /\ Forget(handler[r].key)
  /\ HandOver(r)
  /\ UNCHANGED <<outside, asked, latest, lapsed, verified>>

\* Discord: the state is found and deleted, and the platform asked.
DiscordFind(r) == FindSubject(r, "discord", "delSubject")
DiscordDelete(r) ==
  /\ In(r, "discord", "delSubject")
  /\ Forget(handler[r].key)
  /\ Goto(r, "fetch")
  /\ UNCHANGED <<outside, handed, asked, latest, lapsed, verified>>
DiscordFetch(r) ==
  /\ In(r, "discord", "fetch")
  /\ \/ Named(handler[r].grant) /\ HandOver(r)
     \/ Failed(handler[r].grant) /\ Return(r) /\ UNCHANGED handed
  /\ Fetch(r)

-----------------------------------------------------------------------------
(* MetaMask. *)

\* POST verification-code
RequestNonce(r, a) ==
  /\ lastCode + Cardinality({q \in Requests : At(q, "delNonce")}) < MaxCode
  /\ Begin(r, [Idle EXCEPT !.step = "delNonce", !.key = a])
  /\ UNCHANGED <<cache, outside, handed, asked, latest, lapsed, verified>>

\* generateVerificationCode, up to the set.
DelNonce(r) ==
  LET a == handler[r].key
  IN /\ At(r, "delNonce")
     /\ \E held \in AfterDel(nonce[a]) :
          /\ nonce' = [nonce EXCEPT ![a] = held]
          /\ Noting(a, held # Miss)
     /\ lastCode' = lastCode + 1
     /\ handler' = [handler EXCEPT ![r].step = "setNonce",
                                   ![r].code = lastCode + 1]
     /\ UNCHANGED <<subject, entry, issued, grant, spent, version,
                    handed, asked, latest, lapsed, verified>>

\* The code is answered, stored or not.
SetNonce(r) ==
  LET a == handler[r].key
      c == handler[r].code
  IN /\ At(r, "setNonce")
     /\ \E held \in AfterSet(nonce[a], c) :
          /\ nonce' = [nonce EXCEPT ![a] = held]
          /\ Noting(a, held # c)
     /\ lapsed' = lapsed \ {a}
     /\ latest' = [latest EXCEPT ![a] = c]
     /\ Return(r)
     /\ UNCHANGED <<subject, entry, issued, grant, spent, lastCode, version,
                    handed, asked, verified>>

\* login, signup and bind: a code that the owner was told comes back signed.
Verify(r, a, c) ==
  /\ c <= lastCode
  /\ \A q \in Requests : At(q, "setNonce") => handler[q].code # c
  /\ Begin(r, [Idle EXCEPT !.step = "getNonce", !.key = a, !.code = c])
  /\ UNCHANGED <<cache, outside, handed, asked, latest, lapsed, verified>>

\* (Mutant: the signature is not compared.)
GetNonceAny(r) ==
  LET a == handler[r].key
  IN /\ At(r, "getNonce")
     /\ \E got \in Gets(nonce[a]) :
          /\ Noting(a, got # nonce[a])
          /\ verified' = (got # Miss)
     /\ Return(r)
     /\ UNCHANGED <<cache, outside, handed, asked, latest, lapsed>>

\* verify: what the signature is compared with is the nonce of the address.
\* If it is the one that was signed AccountsService is called, if not the
\* request refused; the nonce stays either way.
GetNonce(r) ==
  LET a == handler[r].key
      c == handler[r].code
  IN /\ At(r, "getNonce")
     /\ \E got \in Gets(nonce[a]) :
          /\ Noting(a, got # nonce[a])
          /\ verified' = (got = c)
     /\ Return(r)
     /\ UNCHANGED <<cache, outside, handed, asked, latest, lapsed>>

-----------------------------------------------------------------------------
(* The calendar. *)

\* getICal: a lazyGet per source, one after the other; each is a request here.
GetICal(r, q) ==
  /\ Begin(r, [Idle EXCEPT !.step = "lazyGet", !.key = q])
  /\ UNCHANGED <<cache, outside, handed, asked, latest, lapsed, verified>>

LazyGet(r) ==
  /\ At(r, "lazyGet")
  /\ \E got \in Gets(entry[handler[r].key]) :
       \/ got # Miss /\ Return(r)
       \/ got = Miss /\ Goto(r, "compute")
  /\ UNCHANGED <<cache, outside, history>>

\* (Mutant: a failure is kept like an empty calendar.)
ComputeAnyway(r) ==
  /\ At(r, "compute")
  /\ \E value \in {0, version[handler[r].key]} :
       handler' = [handler EXCEPT ![r].step = "setEntry", ![r].value = value]
  /\ UNCHANGED <<cache, outside, history>>

\* The function given to lazyGet fetches the source, or fails with it.
Compute(r) ==
  /\ At(r, "compute")
  /\ \/ handler' = [handler EXCEPT ![r].step = "setEntry",
                                   ![r].value = version[handler[r].key]]
     \/ Return(r)
  /\ UNCHANGED <<cache, outside, history>>

SetEntry(r) ==
  LET q == handler[r].key
  IN /\ At(r, "setEntry")
     /\ \E held \in AfterSet(entry[q], handler[r].value) :
          entry' = [entry EXCEPT ![q] = held]
     /\ Return(r)
     /\ UNCHANGED <<subject, nonce, outside, history>>

\* A calendar changes.
Publish(q) ==
  /\ version[q] < MaxVersion
  /\ version' = [version EXCEPT ![q] = @ + 1]
  /\ UNCHANGED <<cache, handler, issued, grant, spent, lastCode, history>>

-----------------------------------------------------------------------------
\* A time to live ends.
Expire ==
  /\ \/ \E s \in States : /\ subject[s] # Miss
                          /\ subject' = [subject EXCEPT ![s] = Miss]
                          /\ UNCHANGED <<nonce, entry, lapsed>>
     \/ \E a \in Addresses : /\ nonce[a] # Miss
                             /\ nonce' = [nonce EXCEPT ![a] = Miss]
                             /\ lapsed' = lapsed \cup {a}
                             /\ UNCHANGED <<subject, entry>>
     \/ \E q \in Sources : /\ entry[q] # Miss
                           /\ entry' = [entry EXCEPT ![q] = Miss]
                           /\ UNCHANGED <<subject, nonce, lapsed>>
  /\ UNCHANGED <<handler, outside, handed, asked, latest, verified, disturbed>>

GitHubEndpoints(r) ==
  \/ \E param \in Params, s \in States : RequestGitHub(r, param, s)
  \/ \E g \in Grants : Callback(r, g, "github")
DiscordEndpoints(r) ==
  \/ \E param \in Params, s \in States : RequestDiscord(r, param, s)
  \/ \E g \in Grants : Callback(r, g, "discord")
MetaMaskEndpoints(r) ==
  \/ \E a \in Addresses : RequestNonce(r, a)
  \/ \E a \in Addresses, c \in Codes : Verify(r, a, c)

Step(r) ==
  \/ SetSubject(r)
  \/ GitHubFind(r) \/ GitHubFetch(r) \/ GitHubFinish(r)
  \/ DiscordFind(r) \/ DiscordDelete(r) \/ DiscordFetch(r)
  \/ DelNonce(r) \/ SetNonce(r) \/ GetNonce(r)
  \/ LazyGet(r) \/ Compute(r) \/ SetEntry(r)

Next ==
  \/ \E r \in Requests :
       \/ GitHubEndpoints(r) \/ DiscordEndpoints(r) \/ MetaMaskEndpoints(r)
       \/ \E q \in Sources : GetICal(r, q)
       \/ Step(r)
  \/ \E g \in Grants, s \in States, u \in Users : Redirect(g, s, u)
  \/ \E q \in Sources : Publish(q)
  \/ Expire

Spec == Init /\ [][Next]_vars

-----------------------------------------------------------------------------
\* A state serves once, for one account, however often the browser comes
\* back or the user agrees again; unless two callbacks overlapped, or its
\* del failed.
OncePerState ==
  \A g, h \in handed :
    grant[g.grant].state = grant[h.grant].state
      /\ grant[g.grant].state \notin disturbed => g = h

\* At GitHub a state is good until it was served or has expired: a callback
\* that failed may be tried again.
RetryAtGitHub ==
  [][\A s \in States :
       subject[s] # Miss /\ subject'[s] = Miss /\ subject[s].platform = "github"
         /\ handler' # handler
         => \E h \in handed' : grant[h.grant].state = s]_vars

\* Discord is asked once about a state, for better or worse.
AskedOnceAtDiscord ==
  [][\A r \in Requests :
       In(r, "discord", "fetch") /\ handler'[r] # handler[r]
         /\ handler[r].key \notin disturbed
         => handler[r].key \notin asked]_vars

\* The code that was answered last logs in until it expires, an earlier one
\* does not; unless requests for the address overlapped or the cache failed.
LatestCodeOnly ==
  [][\A r \in Requests :
       LET a == handler[r].key
       IN At(r, "getNonce") /\ ~At(r, "getNonce")'
            /\ a \notin disturbed' /\ a \notin lapsed
            => verified' = (handler[r].code = latest[a])]_vars

\* What lazyGet keeps never goes back to an older version, unless two fills
\* of a key overlapped.
FillsForward ==
  [][\A q \in Sources :
       entry[q] # Miss /\ entry'[q] # Miss /\ q \notin disturbed
         => entry'[q] >= entry[q]]_vars

=============================================================================
