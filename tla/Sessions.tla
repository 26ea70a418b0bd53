------------------------------- MODULE Sessions -------------------------------
(***************************************************************************)
(* The session of one browser: the cookies with the access, the refresh and *)
(* the signup token, the requests that write and clear them, and what the   *)
(* other endpoints take from the access token.  A token is signed with a    *)
(* copy of the rows of the user and of the account (AuthenticationService), *)
(* which go out of date.                                                    *)
(*                                                                          *)
(* Requests of the browser overlap, and their answers, which set cookies,   *)
(* arrive in any order or are lost.  One step per row that is read; that of *)
(* a signup, whose statements are in Accounts, is one step, like bind,      *)
(* unbind and the profile edits, which may come from any browser.           *)
(***************************************************************************)
EXTENDS FiniteSets, Naturals

CONSTANTS None,         \* no row, cookie or user
          Platforms,    \* where accounts are from
          Names,        \* of accounts at a platform
          Users,        \* usernames
          Requests,     \* requests of the browser, reused
          MaxAccounts,  \* bound: accounts ever inserted
          MaxEdits      \* bound: edits of a profile

Cookies == {"access", "refresh", "signup"}

ASSUME KnownPlatforms == Platforms \subseteq {"github", "discord", "metamask"}
ASSUME SessionBounds  == MaxAccounts \in Nat /\ MaxEdits \in Nat

VARIABLES
  profile,      \* user -> how often its profile was edited, or no row
  accounts,     \* rows of accounts
  lastAccount,  \* the id that was given last
  jar,          \* cookie -> what the browser holds
  handler,      \* request -> what it does next and remembers
  \* history
  ended,        \* the browser logged out, with nothing else under way, and
                \* asked for no login since
  crossed       \* requests under way together with another one

database == <<profile, accounts, lastAccount>>
history  == <<ended, crossed>>
vars     == <<database, jar, handler, history>>

Identities == [platform : Platforms, name : Names]
Rows       == [id : 1 .. MaxAccounts, user : Users, identity : Identities]

\* The payload of a login token; account 0 is undefined, joined tells whether
\* account.user is there.
Tokens == [user : Users, profile : 0 .. MaxEdits,
           account : 0 .. MaxAccounts, joined : BOOLEAN]

ASSUME NoneIsFresh == None \notin Users \cup Nat \cup Tokens \cup Identities

\* What the browser and the server keep of a request.
Locals == [step : {"idle", "find", "findUser", "findAccount", "answer"},
           kind : {"login", "signup", "callbackSignup", "refresh", "logout"},
           identity : Identities \cup {None}, user : Users \cup {None},
           token : Tokens \cup {None},
           sets : {"nothing", "login", "signedUp", "signup", "clear"}]

\* identity and user: the arguments; token: the one that came with the
\* request, then the one that is signed; sets: what its answer does to the jar.
Idle == [step |-> "idle", kind |-> "logout", identity |-> None,
         user |-> None, token |-> None, sets |-> "nothing"]

TypeOK ==
  /\ profile \in [Users -> (0 .. MaxEdits) \cup {None}]
  /\ accounts \subseteq Rows
  /\ lastAccount \in 0 .. MaxAccounts
  /\ jar \in [access : Tokens \cup {None}, refresh : Tokens \cup {None},
             signup : Identities \cup {None}]
  /\ handler \in [Requests -> Locals]
  /\ ended \in BOOLEAN
  /\ crossed \subseteq Requests

Init ==
  /\ profile = [u \in Users |-> None]
  /\ accounts = {} /\ lastAccount = 0
  /\ jar = [c \in Cookies |-> None]
  /\ handler = [r \in Requests |-> Idle]
  /\ ended = TRUE /\ crossed = {}

-----------------------------------------------------------------------------
Busy == {r \in Requests : handler[r] # Idle}

\* A request is sent, with the cookies of this moment.
Send(r, h) ==
  /\ r \notin Busy
  /\ handler' = [handler EXCEPT ![r] = h]
  /\ crossed' = IF Busy = {} THEN crossed \ {r} ELSE crossed \cup Busy \cup {r}
  /\ UNCHANGED <<database, jar>>

At(r, step) == handler[r].step = step

\* The request is answered: its answer will do this to the jar.
AnswerWith(r, sets, token) ==
  handler' = [handler EXCEPT ![r].step = "answer", ![r].sets = sets,
                             ![r].token = token]

\* signLoginJWT; account is a row.
Signed(u, account, joined) ==
  [user |-> u, profile |-> profile[u], account |-> account.id, joined |-> joined]

\* getUserAndAccount: the oldest account with the identity, if there is one.
Found(identity) ==
  LET rows == {a \in accounts : a.identity = identity}
  IN {a \in rows : \A b \in rows : a.id <= b.id}

-----------------------------------------------------------------------------
(* Login and signup, at the end of what AppCache models: a signature or a    *)
(* callback that named the account.                                         *)

\* The requests.
SendLogin(r, i) ==
  /\ Send(r, [Idle EXCEPT !.step = "find", !.kind = "login", !.identity = i])
  /\ ended' = FALSE
SendSignup(r, i, u) ==
  /\ Send(r, [Idle EXCEPT !.step = "find", !.kind = "signup",
                          !.identity = i, !.user = u])
  /\ ended' = FALSE

\* AccountsController.authorizeCallbackSignup: the account is that of the
\* cookie; without it the request is refused.
SendCallbackSignup(r, u) ==
  /\ jar.signup # None
  /\ Send(r, [Idle EXCEPT !.step = "find", !.kind = "callbackSignup",
                          !.identity = jar.signup, !.user = u])
  /\ ended' = FALSE

\* A known account logs in, its user joined to it.
LoginKnown(r, sets) ==
  /\ \E a \in Found(handler[r].identity) :
       AnswerWith(r, sets, Signed(a.user, a, TRUE))
  /\ UNCHANGED <<database, jar, history>>

\* handleAuthorizeCallback, of a wallet as well: an unknown account is asked to
\* sign up first.
Login(r) ==
  /\ At(r, "find") /\ handler[r].kind = "login"
  /\ \/ LoginKnown(r, "login")
     \/ Found(handler[r].identity) = {} /\ AnswerWith(r, "signup", None)
        /\ UNCHANGED <<database, jar, history>>

\* A wallet's signup answers the tokens in its body and sets no cookie.
SignupSets(h) ==
  CASE h.kind = "callbackSignup"               -> "signedUp"
    [] h.kind = "signup" /\ h.identity.platform # "metamask" -> "login"
    [] h.kind = "signup" /\ h.identity.platform = "metamask" -> "nothing"

\* signup: a known account logs in; else it is refused (the name is reserved or
\* taken), or the name is free and both rows are inserted.
Signup(r) ==
  LET h == handler[r]
      sets == SignupSets(h)
      row == [id |-> lastAccount + 1, user |-> h.user, identity |-> h.identity]
  IN /\ At(r, "find") /\ h.kind \in {"signup", "callbackSignup"}
     /\ \/ LoginKnown(r, sets)
        \/ /\ Found(h.identity) = {}
           /\ AnswerWith(r, "nothing", None)
           /\ UNCHANGED <<database, jar, history>>
        \/ /\ Found(h.identity) = {} /\ profile[h.user] = None
           /\ lastAccount < MaxAccounts
           /\ lastAccount' = row.id
           /\ accounts' = accounts \cup {row}
           /\ profile' = [profile EXCEPT ![h.user] = 0]
           /\ AnswerWith(r, sets, [user |-> h.user, profile |-> 0,
                                   account |-> row.id, joined |-> TRUE])
           /\ UNCHANGED <<jar, history>>

-----------------------------------------------------------------------------
(* AccountsTokenController *)

\* PATCH: refused without the cookie; without an account in it the request
\* fails with an error of the server.  Neither changes anything.
SendRefresh(r) ==
  /\ jar.refresh # None /\ jar.refresh.account # 0
  /\ Send(r, [Idle EXCEPT !.step = "findUser", !.kind = "refresh",
                          !.token = jar.refresh])
  /\ UNCHANGED ended

\* (Mutants: whichever account the database finds first; a user that was never
\* edited.)
RefreshAccountAny(r) ==
  /\ At(r, "findAccount")
  /\ \E a \in accounts :
       AnswerWith(r, "login", [handler[r].token EXCEPT !.account = a.id,
                                                       !.joined = FALSE])
  /\ UNCHANGED <<database, jar, history>>
RefreshUserNot(r) ==
  /\ At(r, "findUser")
  /\ handler' = [handler EXCEPT ![r].step = "findAccount",
                                ![r].token.profile = 0]
  /\ UNCHANGED <<database, jar, history>>

\* AccountsTokenService.refresh finds the user ...
RefreshUser(r) ==
  /\ At(r, "findUser")
  /\ handler' = [handler EXCEPT ![r].step = "findAccount",
                   ![r].token.profile = profile[handler[r].token.user]]
  /\ UNCHANGED <<database, jar, history>>

\* ... and the account by its id, without its user, and signs new tokens.
RefreshAccount(r) ==
  LET t == handler[r].token
      found == {a.id : a \in {b \in accounts : b.id = t.account}}
  IN /\ At(r, "findAccount")
     /\ AnswerWith(r, "login",
          [t EXCEPT !.account = IF found = {} THEN 0 ELSE t.account,
                    !.joined = FALSE])
     /\ UNCHANGED <<database, jar, history>>

\* DELETE
SendLogout(r) ==
  /\ Send(r, [Idle EXCEPT !.step = "answer", !.sets = "clear"])
  /\ UNCHANGED ended

-----------------------------------------------------------------------------
(* The browser: answers, expiry. *)

\* JwtCookieHelper: what an answer does to the cookies.
WriteJwtCookies(j, token) ==
  [j EXCEPT !.access = token, !.refresh = token]
WriteSignupCookie(j, identity) == [j EXCEPT !.signup = identity]
\* (Mutant: logging out leaves the refresh token.)
DeleteAccessCookie(j)          == [j EXCEPT !.access = None]
DeleteJwtCookies(j)            == [j EXCEPT !.access = None, !.refresh = None]
DeleteSignupCookie(j)          == [j EXCEPT !.signup = None]

Receive(r) ==
  LET h == handler[r]
  IN /\ At(r, "answer")
     /\ jar' = CASE h.sets = "nothing"  -> jar
                 [] h.sets = "login"    -> WriteJwtCookies(jar, h.token)
                 [] h.sets = "signup"   -> WriteSignupCookie(jar, h.identity)
                 [] h.sets = "signedUp" -> WriteJwtCookies(DeleteSignupCookie(jar), h.token)
                 [] h.sets = "clear"    -> DeleteJwtCookies(jar)
     /\ ended' = (ended \/ (h.kind = "logout" /\ r \notin crossed))
     /\ handler' = [handler EXCEPT ![r] = Idle]
     /\ UNCHANGED <<database, crossed>>

\* The connection breaks: the server has done its part.
Lose(r) ==
  /\ At(r, "answer")
  /\ handler' = [handler EXCEPT ![r] = Idle]
  /\ UNCHANGED <<database, jar, history>>

\* Cookies expire: the access token long before the refresh token.
Expire(c) ==
  /\ jar[c] # None
  /\ c = "refresh" => jar.access = None
  /\ jar' = [jar EXCEPT ![c] = None]
  /\ UNCHANGED <<database, handler, history>>

-----------------------------------------------------------------------------
(* Other requests, of this browser or another. *)

\* PATCH users/me
Edit(u) ==
  /\ profile[u] # None /\ profile[u] < MaxEdits
  /\ profile' = [profile EXCEPT ![u] = @ + 1]
  /\ UNCHANGED <<accounts, lastAccount, jar, handler, history>>

\* bind: the user has no account of that platform; whether another user has
\* that account is not asked.
Bind(u, i) ==
  /\ profile[u] # None /\ lastAccount < MaxAccounts
  /\ \A a \in accounts : a.user = u => a.identity.platform # i.platform
  /\ lastAccount' = lastAccount + 1
  /\ accounts' = accounts \cup {[id |-> lastAccount + 1, user |-> u, identity |-> i]}
  /\ UNCHANGED <<profile, jar, handler, history>>

\* unbind: not the last one.
Unbind(a) ==
  /\ \E b \in accounts \ {a} : b.user = a.user
  /\ accounts' = accounts \ {a}
  /\ UNCHANGED <<profile, lastAccount, jar, handler, history>>

-----------------------------------------------------------------------------
(* What the endpoints of the games take from the access token. *)

\* user.account?.user.username in paginateGameProjects and
\* findOneWithAccessibilityCheck, for the payload of the token or, without
\* one, for true; "throws" is a TypeError.
Viewer(token) ==
  CASE token = None                         -> None
    [] token # None /\ token.account = 0    -> None
    [] token # None /\ token.account # 0    ->
         IF token.joined THEN token.user ELSE "throws"

Next ==
  \/ \E r \in Requests :
       \/ \E i \in Identities : SendLogin(r, i)
       \/ \E i \in Identities, u \in Users : SendSignup(r, i, u)
       \/ \E u \in Users : SendCallbackSignup(r, u)
       \/ SendRefresh(r) \/ SendLogout(r)
       \/ Login(r) \/ Signup(r)
       \/ RefreshUser(r) \/ RefreshAccount(r)
       \/ Receive(r) \/ Lose(r)
  \/ \E c \in Cookies : Expire(c)
  \/ \E u \in Users : Edit(u)
  \/ \E u \in Users, i \in Identities : Bind(u, i)
  \/ \E a \in accounts : Unbind(a)

Spec == Init /\ [][Next]_vars

-----------------------------------------------------------------------------
\* Once the answer to a logout has arrived the browser holds no token that
\* signs anybody in until a login is asked for, and no refresh brings one back;
\* unless the logout crossed a request, which may write its tokens after it.
LogoutEnds ==
  ended => jar.access = None /\ jar.refresh = None

\* A token names an account of its user, or one that was deleted; so does one
\* that is on its way.
TokenNamesOwner ==
  \A t \in {jar.access, jar.refresh} \cup {handler[r].token : r \in Requests} :
    t # None => \A a \in accounts : a.id = t.account => a.user = t.user

\* A refresh renews the session it was sent by: the user stays, and the account
\* stays or, deleted meanwhile, goes; unless requests crossed.
RefreshKeepsSession ==
  [][\A r \in Requests :
       At(r, "answer") /\ handler[r].kind = "refresh" /\ jar' # jar
         /\ handler'[r] = Idle /\ jar.refresh # None /\ r \notin crossed
         => /\ jar'.refresh.user = jar.refresh.user
            /\ jar'.refresh.account \in {0, jar.refresh.account}]_vars

\* The profile that the tokens carry never gets older while the same user stays
\* signed in, although it is copied from token to token; unless answers crossed.
ProfileForward ==
  [][jar.access # None /\ jar'.access # None
       /\ jar'.access.user = jar.access.user
       => \/ jar'.access.profile >= jar.access.profile
          \/ \E r \in crossed : handler[r].step = "answer" /\ handler'[r] = Idle]_vars

\* "@param username login account's username": the games are listed and shown
\* for the user who is signed in.
OwnGamesListed ==
  jar.access # None => Viewer(jar.access) = jar.access.user

=============================================================================
