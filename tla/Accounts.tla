------------------------------ MODULE Accounts ------------------------------
(***************************************************************************)
(* AccountsService: signing up and logging in with an account of a login    *)
(* platform, binding further platforms to a user and unbinding them.  The   *)
(* services of MetaMask, GitHub and Discord call it once they know which    *)
(* account the caller holds.                                                *)
(*                                                                          *)
(* One process per request, one step per database statement it awaits.      *)
(* Signing a token awaits nothing outside the process and belongs to the    *)
(* step before it.  Users are never deleted, so usersService.findOne(userId)*)
(* finds the user of every token: it belongs to the step that begins.       *)
(***************************************************************************)
EXTENDS FiniteSets, Naturals

CONSTANTS Platforms,   \* login platforms
          AccountIds,  \* wallet addresses and platform user names
          Usernames,
          Reserved,    \* user.username.reservedList
          Requests,    \* request processes, reused
          None,        \* no account, platform or username
          MaxUsers,    \* bound: rows ever inserted into user
          MaxAccounts, \* bound: rows ever inserted into account
          MaxCrashes   \* bound: how often the process dies

ASSUME Bounds == MaxUsers \in Nat /\ MaxAccounts \in Nat /\ MaxCrashes \in Nat
ASSUME ReservedNames == Reserved \subseteq Usernames

VARIABLES
  users,        \* the user table
  lastUser,     \* its AUTO_INCREMENT counter
  accounts,     \* the account table; no index but the primary key
  lastAccount,  \* its AUTO_INCREMENT counter
  tokens,       \* ids of the users somebody was given a login token for
  handler,      \* request -> what it was asked and the statement it awaits
  crashes,
  \* history: whose requests overlapped, or whose signup a crash cut short
  disturbedUsers, disturbedIdentities,
  \* history: users who took an account that logs in another user
  borrowers

tables  == <<users, lastUser, accounts, lastAccount>>
history == <<crashes, disturbedUsers, disturbedIdentities, borrowers>>
vars    == <<tables, tokens, handler, history>>

Identities == [platform : Platforms, accountId : AccountIds]
ASSUME NoneIsFresh == None \notin Identities \cup Platforms \cup Usernames

UserIds    == 1 .. MaxUsers
\* What handleAuthorizeCallback is asked for, and unbind.
Kinds      == {"signup", "login", "bind", "unbind"}
Steps      == {"idle", "findAccount", "validateUsername", "saveUser",
               "findBinding", "saveAccount", "count", "delete"}

\* user 0: not known yet.
Idle == [step |-> "idle", kind |-> "login", identity |-> None, user |-> 0,
         username |-> None, platform |-> None]

\* Tokens name users, accounts identities, and no user has a reserved name.
TypeOK ==
  /\ users \subseteq [id : UserIds, username : Usernames \ Reserved]
  /\ lastUser \in 0 .. MaxUsers
  /\ accounts \subseteq
       [id : 1 .. MaxAccounts, user : UserIds, identity : Identities]
  /\ lastAccount \in 0 .. MaxAccounts
  /\ tokens \subseteq {x.id : x \in users}
  /\ handler \in [Requests -> [step : Steps, kind : Kinds,
                               identity : Identities \cup {None},
                               user : 0 .. MaxUsers,
                               username : Usernames \cup {None},
                               platform : Platforms \cup {None}]]
  /\ crashes \in 0 .. MaxCrashes
  /\ disturbedUsers \subseteq UserIds
  /\ disturbedIdentities \subseteq Identities
  /\ borrowers \subseteq UserIds

Init ==
  /\ users = {} /\ lastUser = 0
  /\ accounts = {} /\ lastAccount = 0
  /\ tokens = {}
  /\ handler = [r \in Requests |-> Idle]
  /\ crashes = 0
  /\ disturbedUsers = {} /\ disturbedIdentities = {} /\ borrowers = {}

-----------------------------------------------------------------------------
AccountsOf(u) == {a \in accounts : a.user = u}
Registered(i) == {a \in accounts : a.identity = i}

UserOfLatest(i) ==    \* (mutant: the newest account, not the oldest)
  IF Registered(i) = {} THEN 0
  ELSE (CHOOSE a \in Registered(i) : \A b \in Registered(i) : a.id >= b.id).user

\* getUserAndAccount joins the user, and such a findOne orders by id: the
\* user of the oldest account with the identity, 0 without one.
UserOf(i) ==
  IF Registered(i) = {} THEN 0
  ELSE (CHOOSE a \in Registered(i) : \A b \in Registered(i) : a.id <= b.id).user

Busy(r) == handler[r].step # "idle"

\* Bounds: a row is left for every request under way and for one more.
Inserting(kinds) == {r \in Requests : Busy(r) /\ handler[r].kind \in kinds}
UserLeft    == lastUser + Cardinality(Inserting({"signup"})) < MaxUsers
AccountLeft ==
  lastAccount + Cardinality(Inserting({"signup", "bind"})) < MaxAccounts

Begin(r, h) ==
  /\ ~Busy(r)
  /\ handler' = [handler EXCEPT ![r] = h]
  /\ disturbedUsers' = disturbedUsers \cup
       {u \in {h.user} \ {0} : \E s \in Requests : handler[s].user = u}
  /\ disturbedIdentities' = disturbedIdentities \cup
       {i \in {h.identity} \ {None} :
          \E s \in Requests : handler[s].identity = i}
  /\ UNCHANGED <<tables, tokens, crashes, borrowers>>

Goto(r, step) == handler' = [handler EXCEPT ![r].step = step]
Return(r)     == handler' = [handler EXCEPT ![r] = Idle]

-----------------------------------------------------------------------------
(* Requests arrive. *)

\* The guards UserLeft and AccountLeft are bounds.
Signup(r, i, name) ==
  /\ UserLeft /\ AccountLeft
  /\ Begin(r, [Idle EXCEPT !.step = "findAccount", !.kind = "signup",
                           !.identity = i, !.username = name])

Login(r, i) ==
  Begin(r, [Idle EXCEPT !.step = "findAccount", !.identity = i])

Bind(r, u, i) ==
  /\ u \in tokens /\ AccountLeft
  /\ Begin(r, [Idle EXCEPT !.step = "findBinding", !.kind = "bind",
                           !.user = u, !.identity = i])

Unbind(r, u, p) ==
  /\ u \in tokens
  /\ Begin(r, [Idle EXCEPT !.step = "count", !.kind = "unbind",
                           !.user = u, !.platform = p])

-----------------------------------------------------------------------------
(* signup and login. *)

\* (Mutant: a signup does not skip.)
FindAccountNoSkip(r) ==
  LET h == handler[r]
  IN /\ h.step = "findAccount"
     /\ \/ h.kind = "signup" /\ Goto(r, "validateUsername") /\ UNCHANGED tokens
        \/ h.kind = "login" /\ UserOf(h.identity) # 0
           /\ tokens' = tokens \cup {UserOf(h.identity)} /\ Return(r)
        \/ h.kind = "login" /\ UserOf(h.identity) = 0
           /\ Return(r) /\ UNCHANGED tokens
     /\ UNCHANGED <<tables, history>>

\* getUserAndAccount: a known account is logged in, an unknown one signed up
\* or refused.
FindAccount(r) ==
  LET h == handler[r]
  IN /\ h.step = "findAccount"
     /\ \/ /\ UserOf(h.identity) # 0
           /\ tokens' = tokens \cup {UserOf(h.identity)}
           /\ Return(r)
        \/ /\ UserOf(h.identity) = 0 /\ h.kind = "signup"
           /\ Goto(r, "validateUsername")
           /\ UNCHANGED tokens
        \/ /\ UserOf(h.identity) = 0 /\ h.kind = "login"
           /\ Return(r)
           /\ UNCHANGED tokens
     /\ UNCHANGED <<tables, history>>

Taken(name) == \E x \in users : x.username = name

\* validateUsername: neither reserved nor taken.
ValidateUsername(r) ==
  LET name == handler[r].username
  IN /\ handler[r].step = "validateUsername"
     /\ \/ name \notin Reserved /\ ~Taken(name) /\ Goto(r, "saveUser")
        \/ (name \in Reserved \/ Taken(name)) /\ Return(r)
     /\ UNCHANGED <<tables, tokens, history>>

\* initUser, first save.  The unique index on username refuses a name that was
\* taken in the meantime; a refused insert uses up its id all the same.
SaveUser(r) ==
  LET name == handler[r].username
      id   == lastUser + 1
  IN /\ handler[r].step = "saveUser"
     /\ lastUser' = id
     /\ \/ /\ ~Taken(name)
           /\ users' = users \cup {[id |-> id, username |-> name]}
           /\ handler' = [handler EXCEPT ![r].step = "saveAccount",
                                         ![r].user = id]
        \/ /\ Taken(name)
           /\ users' = users
           /\ Return(r)
     /\ UNCHANGED <<accounts, lastAccount, tokens, history>>

\* The identity logs in another user, who stays the one it logs in.
Borrows(h) == UserOf(h.identity) \notin {0, h.user}

\* initUser, second save, with the token of the signup; or the save of bind.
SaveAccount(r) ==
  LET h == handler[r]
  IN /\ h.step = "saveAccount"
     /\ lastAccount' = lastAccount + 1
     /\ accounts' = accounts \cup
          {[id |-> lastAccount + 1, user |-> h.user, identity |-> h.identity]}
     /\ tokens' = IF h.kind = "signup" THEN tokens \cup {h.user} ELSE tokens
     /\ borrowers' = borrowers \cup (IF Borrows(h) THEN {h.user} ELSE {})
     /\ Return(r)
     /\ UNCHANGED <<users, lastUser, crashes, disturbedUsers, disturbedIdentities>>

-----------------------------------------------------------------------------
(* bind and unbind. *)

HasBinding(u, p) == \E a \in AccountsOf(u) : a.identity.platform = p

FindBindingSkipped(r) ==    \* (mutant: no look)
  /\ handler[r].step = "findBinding"
  /\ Goto(r, "saveAccount")
  /\ UNCHANGED <<tables, tokens, history>>

\* bind: does the user have an account of this platform?  Whether the account
\* belongs to another user is not asked.
FindBinding(r) ==
  LET h == handler[r]
  IN /\ h.step = "findBinding"
     /\ \/ ~HasBinding(h.user, h.identity.platform) /\ Goto(r, "saveAccount")
        \/ HasBinding(h.user, h.identity.platform) /\ Return(r)
     /\ UNCHANGED <<tables, tokens, history>>

CountNone(r) ==    \* (mutant: off by one)
  LET n == Cardinality(AccountsOf(handler[r].user))
  IN /\ handler[r].step = "count"
     /\ \/ n > 0 /\ Goto(r, "delete")
        \/ n = 0 /\ Return(r)
     /\ UNCHANGED <<tables, tokens, history>>

\* unbind: the last account stays.
Count(r) ==
  LET n == Cardinality(AccountsOf(handler[r].user))
  IN /\ handler[r].step = "count"
     /\ \/ n > 1 /\ Goto(r, "delete")
        \/ n <= 1 /\ Return(r)
     /\ UNCHANGED <<tables, tokens, history>>

DeleteAnyones(r) ==    \* (mutant: the condition on the user is dropped)
  LET h == handler[r]
  IN /\ h.step = "delete"
     /\ accounts' = {a \in accounts : a.identity.platform # h.platform}
     /\ Return(r)
     /\ UNCHANGED <<users, lastUser, lastAccount, tokens, history>>

\* All accounts the user has on the platform, possibly none.
Delete(r) ==
  LET h == handler[r]
  IN /\ h.step = "delete"
     /\ accounts' = {a \in accounts :
                       ~(a.user = h.user /\ a.identity.platform = h.platform)}
     /\ Return(r)
     /\ UNCHANGED <<users, lastUser, lastAccount, tokens, history>>

-----------------------------------------------------------------------------
\* The process dies between two statements and is started again.  The tokens
\* are with the clients.
Crash ==
  /\ crashes < MaxCrashes
  /\ crashes' = crashes + 1
  /\ handler' = [r \in Requests |-> Idle]
  /\ disturbedUsers' = disturbedUsers \cup
       {handler[r].user : r \in {q \in Requests :
          handler[q].step = "saveAccount" /\ handler[q].kind = "signup"}}
  /\ UNCHANGED <<tables, tokens, disturbedIdentities, borrowers>>

Step(r) ==
  \/ FindAccount(r)
  \/ ValidateUsername(r)
  \/ SaveUser(r)
  \/ SaveAccount(r)
  \/ FindBinding(r)
  \/ Count(r)
  \/ Delete(r)

Next ==
  \/ \E r \in Requests, i \in Identities, name \in Usernames : Signup(r, i, name)
  \/ \E r \in Requests, i \in Identities : Login(r, i)
  \/ \E r \in Requests, u \in UserIds, i \in Identities : Bind(r, u, i)
  \/ \E r \in Requests, u \in UserIds, p \in Platforms : Unbind(r, u, p)
  \/ \E r \in Requests : Step(r)
  \/ Crash

Spec == Init /\ [][Next]_vars

-----------------------------------------------------------------------------
\* A user whose requests never overlapped keeps an account, and one that logs in
\* this user, whatever others bind, sign up with and unbind; unless the user took
\* an account that logs in somebody else, which bind does not refuse: after
\* unbinding its own it has only that one left.  Rests on the two saves of
\* initUser, on the count of unbind still being right when it deletes, and on the
\* oldest account deciding whom a login finds.
UsersCanLogin ==
  \A x \in users : x.id \notin disturbedUsers =>
    \/ \E a \in AccountsOf(x.id) :
         UserOf(a.identity) = x.id \/ x.id \in borrowers
    \/ \E r \in Requests :
         handler[r].step = "saveAccount" /\ handler[r].kind = "signup"
           /\ handler[r].user = x.id

\* 'The binding exists': such a user has one account per platform.
OneBindingPerPlatform ==
  \A a, b \in accounts :
    a.user = b.user /\ a.identity.platform = b.identity.platform
      /\ a.user \notin disturbedUsers => a = b

\* "if the user has registered before, skip the signup": no user is created
\* for a platform account that has one, unless requests for that account
\* overlapped.
RegisteredSkipsSignup ==
  [][\A r \in Requests :
       handler[r].step = "saveUser" /\ handler'[r].step = "saveAccount"
         /\ handler[r].identity \notin disturbedIdentities
         => Registered(handler[r].identity) = {}]_vars

\* Whoever logs in with a platform account gets the same user every time,
\* until that user unbinds the platform; other users that sign up with the
\* account or bind it do not take it over.
LoginKeepsUser ==
  [][\A i \in Identities :
       UserOf(i) \notin {0, UserOf(i)'} =>
         \E r \in Requests :
           handler[r].step = "delete" /\ handler'[r].step = "idle"
             /\ handler[r].user = UserOf(i)
             /\ handler[r].platform = i.platform]_vars

=============================================================================
