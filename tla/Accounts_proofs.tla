--------------------------- MODULE Accounts_proofs ---------------------------
(***************************************************************************)
(* Proofs about Accounts, for any platforms, accounts, names, number of     *)
(* requests and crashes: whose requests do not overlap keeps an account that *)
(* logs it in, unless it took another user's, and has one per platform; no   *)
(* identity gets a second user; and a login leads to the same user until that*)
(* user gives the platform up.                                               *)
(***************************************************************************)
EXTENDS Accounts, TLAPS, FiniteSetTheorems

-----------------------------------------------------------------------------
(* The account getUserAndAccount takes. *)

FirstUser(R) ==
  IF R = {} THEN 0
  ELSE (CHOOSE a \in R : \A b \in R : a.id <= b.id).user

LEMMA UserOfIsFirst == \A i : UserOf(i) = FirstUser(Registered(i))
BY DEF UserOf, FirstUser

\* A table with numbered rows has a first one.
LEMMA FirstExists ==
  ASSUME NEW R, R # {}, \A x \in R : x.id \in Nat
  PROVE  \E x \in R : \A y \in R : x.id <= y.id
<1> DEFINE T == {x.id : x \in R}
<1>1. T \subseteq Nat /\ T # {}
  OBVIOUS
<1>2. PICK m \in T : \A n \in T : ~ (<<n, m>> \in OpToRel(<, Nat))
  BY <1>1, WFMin, NatLessThanWellFounded
<1>3. \A n \in T : ~ (n < m)
  BY <1>1, <1>2 DEF OpToRel
<1>4. PICK x \in R : x.id = m
  OBVIOUS
<1>5. ASSUME NEW y \in R PROVE x.id <= y.id
  <2>1. y.id \in T /\ y.id \in Nat /\ m \in Nat
    OBVIOUS
  <2> HIDE DEF T
  <2> QED
    BY <1>3, <1>4, <2>1
<1> QED
  BY <1>5

\* Rows of one table with ids of their own, each of a user.
Keyed(R) ==
  /\ \A a \in R : a.id \in Nat /\ a.user # 0
  /\ \A a, b \in R : a.id = b.id => a = b

LEMMA FirstIs ==
  ASSUME NEW R, Keyed(R), NEW a \in R, \A b \in R : a.id <= b.id
  PROVE  FirstUser(R) = a.user
<1> DEFINE c == CHOOSE c \in R : \A b \in R : c.id <= b.id
<1>1. c \in R /\ \A b \in R : c.id <= b.id
  OBVIOUS
<1>2. FirstUser(R) = c.user
  BY DEF FirstUser
<1> HIDE DEF c
<1>3. c.id = a.id
  BY <1>1 DEF Keyed
<1>4. c = a
  BY <1>1, <1>3 DEF Keyed
<1> QED BY <1>2, <1>4

\* Without accounts, and only then, nobody is found.
LEMMA FirstZero ==
  ASSUME NEW R, Keyed(R)
  PROVE  FirstUser(R) = 0 <=> R = {}
<1>1. ASSUME R # {} PROVE FirstUser(R) # 0
  <2>1. PICK a \in R : \A b \in R : a.id <= b.id
    BY <1>1, FirstExists DEF Keyed
  <2> QED BY <2>1, FirstIs DEF Keyed
<1> QED BY <1>1 DEF FirstUser

\* A later account does not change who is found.
LEMMA FirstAfterInsert ==
  ASSUME NEW R, NEW n, Keyed(R), Keyed(R \cup {n}), \A a \in R : a.id < n.id,
         FirstUser(R) # 0
  PROVE  FirstUser(R \cup {n}) = FirstUser(R)
<1>1. PICK a \in R : \A b \in R : a.id <= b.id
  BY FirstExists DEF Keyed, FirstUser
<1>2. \A b \in R \cup {n} : a.id <= b.id
  BY <1>1 DEF Keyed
<1> QED BY <1>1, <1>2, FirstIs

\* Nor does a deletion of accounts of others.
LEMMA FirstAfterDelete ==
  ASSUME NEW R, NEW Q \in SUBSET R, Keyed(R), \A a \in R \ Q : a.user # FirstUser(R)
  PROVE  FirstUser(R) # 0 => FirstUser(Q) = FirstUser(R)
<1> SUFFICES ASSUME FirstUser(R) # 0 PROVE FirstUser(Q) = FirstUser(R)
  OBVIOUS
<1>1. PICK a \in R : \A b \in R : a.id <= b.id
  BY FirstExists DEF Keyed, FirstUser
<1>2. a.user = FirstUser(R)
  BY <1>1, FirstIs
<1>3. a \in Q /\ Keyed(Q)
  BY <1>2 DEF Keyed
<1> QED BY <1>1, <1>2, <1>3, FirstIs

\* A set of more than one element has two.
LEMMA TwoElements ==
  ASSUME NEW S, Cardinality(S) > 1
  PROVE  \E a, b \in S : a # b
<1>1. CASE S = {}
  BY <1>1, FS_EmptySet
<1>2. CASE \E a : S = {a}
  BY <1>2, FS_Singleton
<1> QED BY <1>1, <1>2

-----------------------------------------------------------------------------
(* The inductive invariant. *)

AnyLocals == [step : Steps, kind : Kinds, identity : Identities \cup {None},
              user : Nat, username : Usernames \cup {None},
              platform : Platforms \cup {None}]

AnyAccount == [id : Nat, user : Nat, identity : Identities]

Known(u, U) == \E x \in U : x.id = u

\* Ids are not given twice; accounts and tokens name users that are there.
RowsInv ==
  /\ handler \in [Requests -> AnyLocals]
  /\ lastUser \in Nat /\ lastAccount \in Nat
  /\ \A x \in users : x.id \in 1 .. lastUser
  /\ accounts \subseteq AnyAccount
  /\ \A a \in accounts : a.id <= lastAccount /\ Known(a.user, users)
  /\ \A a, b \in accounts : a.id = b.id => a = b
  /\ \A u \in tokens : Known(u, users)

\* What a request remembers at a step.
Remembers(h, U) ==
  /\ h.step = "idle" => h = Idle
  /\ h.step \in {"findAccount", "validateUsername", "saveUser"} =>
       h.user = 0 /\ h.identity \in Identities
  /\ h.step \in {"validateUsername", "saveUser"} => h.kind = "signup"
  /\ h.step \in {"findBinding", "saveAccount"} =>
       h.identity \in Identities /\ h.kind \in {"signup", "bind"}
  /\ h.step = "findBinding" => h.kind = "bind"
  /\ h.step \in {"findBinding", "saveAccount", "count", "delete"} =>
       Known(h.user, U)

StepsRemember == \A r \in Requests : Remembers(handler[r], users)

\* Undisturbed means that no two requests are under way for it.
UsersAlone ==
  \A q, r \in Requests :
    /\ handler[q].user = handler[r].user
    /\ handler[q].user \notin disturbedUsers \cup {0}
    => q = r

IdentitiesAlone ==
  \A q, r \in Requests :
    /\ handler[q].identity = handler[r].identity
    /\ handler[q].identity \notin disturbedIdentities \cup {None}
    => q = r

\* What such a request found is still so when it writes: the platform is not
\* bound, there is an account to spare, nobody has the identity.
BindingFree ==
  \A r \in Requests :
    handler[r].step = "saveAccount" /\ handler[r].user \notin disturbedUsers =>
      \A a \in AccountsOf(handler[r].user) :
        a.identity.platform # handler[r].identity.platform

AccountToSpare ==
  \A r \in Requests :
    handler[r].step = "delete" /\ handler[r].user \notin disturbedUsers =>
      \E a, b \in AccountsOf(handler[r].user) : a # b

NotRegistered ==
  \A r \in Requests :
    /\ handler[r].step \in {"validateUsername", "saveUser"}
    /\ handler[r].identity \notin disturbedIdentities
    => Registered(handler[r].identity) = {}

\* An undisturbed user has an account.
KeepsAccount ==
  \A x \in users : x.id \notin disturbedUsers =>
    \/ AccountsOf(x.id) # {}
    \/ \E r \in Requests :
         handler[r].step = "saveAccount" /\ handler[r].kind = "signup"
           /\ handler[r].user = x.id

\* The accounts of a user who took none of another user log it in: each is of the
\* user of the oldest account with the identity.
OwnLogin ==
  \A a \in accounts : a.user \notin borrowers => UserOf(a.identity) = a.user

IInv ==
  /\ RowsInv /\ StepsRemember /\ UsersAlone /\ IdentitiesAlone
  /\ BindingFree /\ AccountToSpare /\ NotRegistered
  /\ KeepsAccount /\ OwnLogin /\ OneBindingPerPlatform

LEMMA RegisteredKeyed ==
  ASSUME RowsInv, NEW i
  PROVE  Keyed(Registered(i))
BY DEF RowsInv, AnyAccount, Known, Registered, Keyed

LEMMA RegisteredKeyedNext ==
  ASSUME RowsInv', NEW i
  PROVE  Keyed(Registered(i)')
BY DEF RowsInv, AnyAccount, Known, Registered, Keyed

LEMMA UserOfIsFirstNext == \A i : UserOf(i)' = FirstUser(Registered(i)')
BY DEF UserOf, FirstUser

\* An account that comes later does not take an identity over.
LEMMA UserAfterInsert ==
  ASSUME RowsInv, RowsInv', NEW n, accounts' = accounts \cup {n},
         \A a \in accounts : a.id < n.id, NEW i, UserOf(i) # 0
  PROVE  UserOf(i)' = UserOf(i)
<1>1. Keyed(Registered(i)) /\ Keyed(Registered(i)')
  BY RegisteredKeyed, RegisteredKeyedNext
<1>2. Registered(i)' = Registered(i) \/ Registered(i)' = Registered(i) \cup {n}
  BY DEF Registered
<1>3. \A a \in Registered(i) : a.id < n.id
  BY DEF Registered
<1> QED BY <1>1, <1>2, <1>3, UserOfIsFirst, UserOfIsFirstNext, FirstAfterInsert

\* Nor do the accounts of others that go.
LEMMA UserAfterDelete ==
  ASSUME RowsInv, NEW i, UserOf(i) # 0, accounts' \subseteq accounts,
         \A a \in Registered(i) : a \notin accounts' => a.user # UserOf(i)
  PROVE  UserOf(i)' = UserOf(i)
<1>1. Keyed(Registered(i)) /\ UserOf(i) = FirstUser(Registered(i))
  BY RegisteredKeyed, UserOfIsFirst
<1>2. Registered(i)' \in SUBSET Registered(i)
  BY DEF Registered
<1>3. \A a \in Registered(i) \ Registered(i)' : a.user # FirstUser(Registered(i))
  BY <1>1 DEF Registered
<1> QED BY <1>1, <1>2, <1>3, UserOfIsFirstNext, FirstAfterDelete

LEMMA IdleLocals == Idle \in AnyLocals
BY DEF Idle, AnyLocals, Steps, Kinds

LEMMA InitIInv == Init => IInv
<1> SUFFICES ASSUME Init PROVE IInv
  OBVIOUS
<1>1. RowsInv /\ StepsRemember
  BY IdleLocals DEF Init, RowsInv, StepsRemember, Remembers, Idle
<1>2. UsersAlone /\ IdentitiesAlone
  BY DEF Init, UsersAlone, IdentitiesAlone, Idle
<1>3. BindingFree /\ AccountToSpare /\ NotRegistered
  BY DEF Init, BindingFree, AccountToSpare, NotRegistered, Idle
<1>4. KeepsAccount /\ OwnLogin /\ OneBindingPerPlatform
  BY DEF Init, KeepsAccount, OwnLogin, OneBindingPerPlatform
<1> QED BY <1>1, <1>2, <1>3, <1>4 DEF IInv

\* A request begins: if another one is under way for its user or identity,
\* both are disturbed from now on.
LEMMA BeginStep ==
  ASSUME IInv, NEW r \in Requests, NEW h \in AnyLocals, Begin(r, h),
         Remembers(h, users), h.step \in {"findAccount", "findBinding", "count"}
  PROVE  IInv'
<1>1. /\ handler' = [handler EXCEPT ![r] = h]
      /\ UNCHANGED <<users, lastUser, accounts, lastAccount, tokens>>
      /\ handler[r].step = "idle" /\ UNCHANGED borrowers
      /\ disturbedUsers \subseteq disturbedUsers'
      /\ disturbedIdentities \subseteq disturbedIdentities'
  BY DEF Begin, tables, Busy
<1>2. \A q \in Requests : handler'[q] = IF q = r THEN h ELSE handler[q]
  BY <1>1 DEF IInv, RowsInv
<1>3. RowsInv'
  BY <1>1 DEF IInv, RowsInv
<1>4. StepsRemember'
  BY <1>1, <1>2 DEF IInv, StepsRemember
<1>5. UsersAlone'
  <2>1. \A s \in Requests : handler[s].user = h.user /\ h.user # 0 =>
          h.user \in disturbedUsers'
    BY DEF Begin
  <2> QED BY <1>1, <1>2, <2>1 DEF IInv, UsersAlone
<1>6. IdentitiesAlone'
  <2>1. \A s \in Requests :
          handler[s].identity = h.identity /\ h.identity # None =>
            h.identity \in disturbedIdentities'
    BY DEF Begin
  <2> QED BY <1>1, <1>2, <2>1 DEF IInv, IdentitiesAlone
<1>7. BindingFree' /\ AccountToSpare'
  BY <1>1, <1>2 DEF IInv, BindingFree, AccountToSpare, AccountsOf
<1>8. NotRegistered'
  BY <1>1, <1>2 DEF IInv, NotRegistered, Registered
<1>9. KeepsAccount' /\ OneBindingPerPlatform'
  BY <1>1, <1>2 DEF IInv, KeepsAccount, OneBindingPerPlatform, AccountsOf
<1>10. OwnLogin'
  BY <1>1 DEF IInv, OwnLogin, UserOf, Registered
<1> QED BY <1>3, <1>4, <1>5, <1>6, <1>7, <1>8, <1>9, <1>10 DEF IInv

\* A request goes on or returns without writing a table.
LEMMA HandlerMoves ==
  ASSUME IInv, NEW r \in Requests, NEW h \in AnyLocals,
         handler' = [handler EXCEPT ![r] = h],
         UNCHANGED <<users, lastUser, accounts, lastAccount>>, UNCHANGED history,
         \A u \in tokens' : Known(u, users),
         handler[r].step # "saveAccount",
         Remembers(h, users),
         h.user \in {0, handler[r].user},
         h.identity \in {None, handler[r].identity},
         h.step = "saveAccount" =>
           \A a \in AccountsOf(h.user) : a.identity.platform # h.identity.platform,
         h.step = "delete" => \E a, b \in AccountsOf(h.user) : a # b,
         h.step \in {"validateUsername", "saveUser"}
           /\ h.identity \notin disturbedIdentities => Registered(h.identity) = {}
  PROVE  IInv'
<1>1. \A q \in Requests : handler'[q] = IF q = r THEN h ELSE handler[q]
  BY DEF IInv, RowsInv
<1>2. UNCHANGED <<disturbedUsers, disturbedIdentities, borrowers>>
  BY DEF history
<1>3. RowsInv'
  BY DEF IInv, RowsInv
<1>4. StepsRemember'
  BY <1>1 DEF IInv, StepsRemember
<1>5. UsersAlone'
  BY <1>1, <1>2 DEF IInv, UsersAlone
<1>6. IdentitiesAlone'
  BY <1>1, <1>2 DEF IInv, IdentitiesAlone
<1>7. BindingFree' /\ AccountToSpare'
  BY <1>1, <1>2 DEF IInv, BindingFree, AccountToSpare, AccountsOf
<1>8. NotRegistered'
  BY <1>1, <1>2 DEF IInv, NotRegistered, Registered
<1>9. KeepsAccount' /\ OneBindingPerPlatform'
  BY <1>1, <1>2 DEF IInv, KeepsAccount, OneBindingPerPlatform, AccountsOf
<1>10. OwnLogin'
  BY <1>2 DEF IInv, OwnLogin, UserOf, Registered
<1> QED BY <1>3, <1>4, <1>5, <1>6, <1>7, <1>8, <1>9, <1>10 DEF IInv

LEMMA GoneTo ==
  ASSUME IInv, NEW r \in Requests, NEW step \in Steps, Goto(r, step)
  PROVE  \E h \in AnyLocals :
           /\ handler' = [handler EXCEPT ![r] = h]
           /\ h.step = step /\ h.kind = handler[r].kind
           /\ h.user = handler[r].user /\ h.identity = handler[r].identity
<1> DEFINE h == [handler[r] EXCEPT !.step = step]
<1>1. handler[r] \in AnyLocals
  BY DEF IInv, RowsInv
<1>2. h \in AnyLocals
  BY <1>1 DEF AnyLocals
<1>3. /\ h.step = step /\ h.kind = handler[r].kind
      /\ h.user = handler[r].user /\ h.identity = handler[r].identity
  BY <1>1 DEF AnyLocals
<1>4. handler' = [handler EXCEPT ![r] = h]
  BY DEF Goto
<1> HIDE DEF h
<1> QED BY <1>2, <1>3, <1>4

LEMMA IdleRemembers ==
  /\ Idle.step = "idle" /\ Idle.user = 0 /\ Idle.identity = None
  /\ \A U : Remembers(Idle, U)
BY DEF Idle, Remembers

LEMMA ReturnStep ==
  ASSUME IInv, NEW r \in Requests, Return(r), handler[r].step # "saveAccount",
         UNCHANGED <<users, lastUser, accounts, lastAccount>>, UNCHANGED history,
         \A u \in tokens' : Known(u, users)
  PROVE  IInv'
BY IdleLocals, IdleRemembers, HandlerMoves DEF Return

\* getUserAndAccount, validateUsername.
LEMMA FindAccountStep ==
  ASSUME IInv, NEW r \in Requests, FindAccount(r)
  PROVE  IInv'
<1>1. /\ handler[r].step = "findAccount"
      /\ UNCHANGED <<users, lastUser, accounts, lastAccount>> /\ UNCHANGED history
  BY DEF FindAccount, tables
<1>2. Remembers(handler[r], users)
  BY DEF IInv, StepsRemember
<1> DEFINE i == handler[r].identity
<1>3. Keyed(Registered(i)) /\ UserOf(i) = FirstUser(Registered(i))
  BY RegisteredKeyed, UserOfIsFirst DEF IInv
<1>4. CASE UserOf(i) # 0
  <2>1. Known(UserOf(i), users)
    <3>1. PICK a \in Registered(i) : \A b \in Registered(i) : a.id <= b.id
      BY <1>3, <1>4, FirstExists DEF Keyed, FirstUser
    <3>2. UserOf(i) = a.user
      BY <1>3, <3>1, FirstIs
    <3> QED BY <3>2 DEF Registered, IInv, RowsInv
  <2>2. Return(r) /\ tokens' = tokens \cup {UserOf(i)}
    BY <1>4 DEF FindAccount
  <2>3. \A u \in tokens' : Known(u, users)
    BY <2>1, <2>2 DEF IInv, RowsInv
  <2> QED BY <1>1, <2>2, <2>3, ReturnStep
<1>5. CASE Return(r) /\ UNCHANGED tokens
  <2>1. \A u \in tokens' : Known(u, users)
    BY <1>5 DEF IInv, RowsInv
  <2> QED BY <1>1, <1>5, <2>1, ReturnStep
<1>6. CASE /\ UserOf(i) = 0 /\ handler[r].kind = "signup"
           /\ Goto(r, "validateUsername") /\ UNCHANGED tokens
  <2>1. PICK h \in AnyLocals :
          /\ handler' = [handler EXCEPT ![r] = h]
          /\ h.step = "validateUsername" /\ h.kind = handler[r].kind
          /\ h.user = handler[r].user /\ h.identity = handler[r].identity
    BY <1>6, GoneTo DEF Steps
  <2>2. Remembers(h, users)
    BY <1>1, <1>2, <1>6, <2>1 DEF Remembers
  <2>3. Registered(h.identity) = {}
    BY <1>3, <1>6, <2>1, FirstZero
  <2>4. \A u \in tokens' : Known(u, users)
    BY <1>6 DEF IInv, RowsInv
  <2> QED BY <1>1, <2>1, <2>2, <2>3, <2>4, HandlerMoves
<1> QED BY <1>4, <1>5, <1>6 DEF FindAccount

LEMMA ValidateUsernameStep ==
  ASSUME IInv, NEW r \in Requests, ValidateUsername(r)
  PROVE  IInv'
<1>1. /\ handler[r].step = "validateUsername"
      /\ UNCHANGED <<users, lastUser, accounts, lastAccount>> /\ UNCHANGED history
      /\ UNCHANGED tokens
  BY DEF ValidateUsername, tables
<1>2. \A u \in tokens' : Known(u, users)
  BY <1>1 DEF IInv, RowsInv
<1>3. CASE Return(r)
  BY <1>1, <1>2, <1>3, ReturnStep
<1>4. CASE Goto(r, "saveUser")
  <2>1. PICK h \in AnyLocals :
          /\ handler' = [handler EXCEPT ![r] = h]
          /\ h.step = "saveUser" /\ h.kind = handler[r].kind
          /\ h.user = handler[r].user /\ h.identity = handler[r].identity
    BY <1>4, GoneTo DEF Steps
  <2>2. Remembers(h, users)
    BY <1>1, <2>1 DEF IInv, StepsRemember, Remembers
  <2>3. h.identity \notin disturbedIdentities => Registered(h.identity) = {}
    BY <1>1, <2>1 DEF IInv, NotRegistered
  <2> QED BY <1>1, <1>2, <2>1, <2>2, <2>3, HandlerMoves
<1> QED BY <1>3, <1>4 DEF ValidateUsername

\* bind looks for an account of the platform, unbind counts.
LEMMA FindBindingStep ==
  ASSUME IInv, NEW r \in Requests, FindBinding(r)
  PROVE  IInv'
<1>1. /\ handler[r].step = "findBinding"
      /\ UNCHANGED <<users, lastUser, accounts, lastAccount>> /\ UNCHANGED history
      /\ UNCHANGED tokens
  BY DEF FindBinding, tables
<1>2. \A u \in tokens' : Known(u, users)
  BY <1>1 DEF IInv, RowsInv
<1>3. CASE Return(r)
  BY <1>1, <1>2, <1>3, ReturnStep
<1>4. CASE /\ ~HasBinding(handler[r].user, handler[r].identity.platform)
           /\ Goto(r, "saveAccount")
  <2>1. PICK h \in AnyLocals :
          /\ handler' = [handler EXCEPT ![r] = h]
          /\ h.step = "saveAccount" /\ h.kind = handler[r].kind
          /\ h.user = handler[r].user /\ h.identity = handler[r].identity
    BY <1>4, GoneTo DEF Steps
  <2>2. Remembers(h, users)
    BY <1>1, <2>1 DEF IInv, StepsRemember, Remembers
  <2>3. \A a \in AccountsOf(h.user) : a.identity.platform # h.identity.platform
    BY <1>4, <2>1 DEF HasBinding
  <2> QED BY <1>1, <1>2, <2>1, <2>2, <2>3, HandlerMoves
<1> QED BY <1>3, <1>4 DEF FindBinding

LEMMA CountStep ==
  ASSUME IInv, NEW r \in Requests, Count(r)
  PROVE  IInv'
<1>1. /\ handler[r].step = "count"
      /\ UNCHANGED <<users, lastUser, accounts, lastAccount>> /\ UNCHANGED history
      /\ UNCHANGED tokens
  BY DEF Count, tables
<1>2. \A u \in tokens' : Known(u, users)
  BY <1>1 DEF IInv, RowsInv
<1>3. CASE Return(r)
  BY <1>1, <1>2, <1>3, ReturnStep
<1>4. CASE /\ Cardinality(AccountsOf(handler[r].user)) > 1
           /\ Goto(r, "delete")
  <2>1. PICK h \in AnyLocals :
          /\ handler' = [handler EXCEPT ![r] = h]
          /\ h.step = "delete" /\ h.kind = handler[r].kind
          /\ h.user = handler[r].user /\ h.identity = handler[r].identity
    BY <1>4, GoneTo DEF Steps
  <2>2. Remembers(h, users)
    BY <1>1, <2>1 DEF IInv, StepsRemember, Remembers
  <2>3. \E a, b \in AccountsOf(h.user) : a # b
    BY <1>4, <2>1, TwoElements
  <2> QED BY <1>1, <1>2, <2>1, <2>2, <2>3, HandlerMoves
<1> QED BY <1>3, <1>4 DEF Count

\* The user of a request is one of the table, or not known yet.
LEMMA UsersOld ==
  ASSUME IInv, NEW q \in Requests
  PROVE  handler[q].user = 0 \/ Known(handler[q].user, users)
<1>1. handler[q].step \in Steps /\ Remembers(handler[q], users)
  BY DEF IInv, RowsInv, StepsRemember, AnyLocals
<1> QED BY <1>1, IdleRemembers DEF Remembers, Steps

LEMMA OldIds ==
  ASSUME RowsInv, NEW u, Known(u, users)
  PROVE  u \in Nat /\ u <= lastUser /\ u # 0
BY DEF RowsInv, Known

\* initUser, first save: the user is new, nothing refers to it yet.
LEMMA SaveUserStep ==
  ASSUME IInv, NEW r \in Requests, SaveUser(r)
  PROVE  IInv'
<1> DEFINE id == lastUser + 1
           x  == [id |-> id, username |-> handler[r].username]
<1>1. /\ handler[r].step = "saveUser" /\ lastUser' = id
      /\ UNCHANGED <<accounts, lastAccount, tokens>>
      /\ UNCHANGED <<disturbedUsers, disturbedIdentities, borrowers>>
  BY DEF SaveUser, history
<1>2. Remembers(handler[r], users) /\ handler[r] \in AnyLocals
  BY DEF IInv, StepsRemember, RowsInv
<1>3. id \in Nat /\ lastUser < id /\ lastUser \in Nat
  BY DEF IInv, RowsInv
<1>4. PICK h \in AnyLocals :
        /\ handler' = [handler EXCEPT ![r] = h]
        /\ \/ h = Idle /\ users' = users
           \/ /\ h.step = "saveAccount" /\ h.user = id /\ h.kind = "signup"
              /\ h.identity = handler[r].identity
              /\ users' = users \cup {x}
  <2>1. CASE Return(r) /\ users' = users
    BY <2>1, IdleLocals DEF Return
  <2>2. CASE /\ users' = users \cup {x}
             /\ handler' = [handler EXCEPT ![r].step = "saveAccount",
                                           ![r].user = id]
    <3> DEFINE h == [handler[r] EXCEPT !.step = "saveAccount", !.user = id]
    <3>1. h \in AnyLocals
      BY <1>2, <1>3 DEF AnyLocals, Steps
    <3>2. /\ h.step = "saveAccount" /\ h.user = id /\ h.kind = "signup"
          /\ h.identity = handler[r].identity
      BY <1>1, <1>2 DEF AnyLocals, Remembers
    <3>3. handler' = [handler EXCEPT ![r] = h]
      BY <2>2 DEF IInv, RowsInv
    <3> HIDE DEF h, id, x
    <3> QED BY <2>2, <3>1, <3>2, <3>3
  <2> QED BY <2>1, <2>2 DEF SaveUser
<1>5. \A q \in Requests : handler'[q] = IF q = r THEN h ELSE handler[q]
  BY <1>4 DEF IInv, RowsInv
<1>6. x.id = id
  OBVIOUS
<1> HIDE DEF x
<1>7. users \subseteq users' /\ \A y \in users' : y \in users \/ y.id = id
  BY <1>4, <1>6
<1>8. \A u : Known(u, users) => Known(u, users') /\ u # id
  BY <1>3, <1>7, OldIds DEF Known, IInv
<1>9. \A q \in Requests : handler[q].user # id
  BY <1>3, <1>8, UsersOld
<1>10. \A a \in accounts : a.user # id
  BY <1>8 DEF IInv, RowsInv
<1>11. RowsInv'
  <2>1. \A y \in users' : y.id \in 1 .. lastUser'
    <3>1. \A y \in users : y.id \in 1 .. id
      BY <1>3 DEF IInv, RowsInv
    <3>2. id \in 1 .. id
      BY <1>3
    <3> HIDE DEF id
    <3> QED BY <1>1, <1>7, <3>1, <3>2
  <2> HIDE DEF id
  <2> QED BY <1>1, <1>3, <1>4, <1>8, <2>1 DEF IInv, RowsInv
<1> HIDE DEF id
<1>12. StepsRemember'
  <2>1. Remembers(h, users')
    <3>1. CASE h = Idle
      BY <3>1, IdleRemembers
    <3>2. CASE /\ h.step = "saveAccount" /\ h.user = id /\ h.kind = "signup"
               /\ h.identity = handler[r].identity /\ users' = users \cup {x}
      BY <1>1, <1>2, <1>6, <3>2 DEF Remembers, Known
    <3> QED BY <1>4, <3>1, <3>2
  <2>2. \A q \in Requests : Remembers(handler[q], users')
    BY <1>8 DEF IInv, StepsRemember, Remembers
  <2> QED BY <1>5, <2>1, <2>2 DEF StepsRemember
<1>13. h.user \in {0, id} /\ h.identity \in {None, handler[r].identity}
       /\ h.step \in {"idle", "saveAccount"}
       /\ (h.step = "saveAccount" => h.user = id)
  BY <1>4, IdleRemembers
<1>14. UsersAlone'
  BY <1>1, <1>5, <1>9, <1>13 DEF IInv, UsersAlone
<1>15. IdentitiesAlone'
  BY <1>1, <1>5, <1>13 DEF IInv, IdentitiesAlone
<1>16. BindingFree' /\ AccountToSpare' /\ NotRegistered'
  <2>1. BindingFree'
    BY <1>1, <1>5, <1>10, <1>13 DEF IInv, BindingFree, AccountsOf
  <2>2. AccountToSpare'
    BY <1>1, <1>5, <1>13 DEF IInv, AccountToSpare, AccountsOf
  <2>3. NotRegistered'
    BY <1>1, <1>5, <1>13 DEF IInv, NotRegistered, Registered
  <2> QED BY <2>1, <2>2, <2>3
<1>17. KeepsAccount'
  <2> SUFFICES ASSUME NEW y \in users', y.id \notin disturbedUsers,
                      AccountsOf(y.id) = {}
               PROVE  \E q \in Requests :
                        handler'[q].step = "saveAccount"
                          /\ handler'[q].kind = "signup" /\ handler'[q].user = y.id
    BY <1>1 DEF KeepsAccount, AccountsOf
  <2>1. CASE y \in users
    <3>1. PICK q \in Requests :
            handler[q].step = "saveAccount" /\ handler[q].kind = "signup"
              /\ handler[q].user = y.id
      BY <2>1 DEF IInv, KeepsAccount
    <3> QED BY <1>1, <1>5, <3>1
  <2>2. CASE y \notin users
    BY <1>4, <1>5, <1>7, <2>2
  <2> QED BY <2>1, <2>2
<1>18. OneBindingPerPlatform'
  BY <1>1 DEF IInv, OneBindingPerPlatform
<1>19. OwnLogin'
  BY <1>1 DEF IInv, OwnLogin, UserOf, Registered
<1> QED BY <1>11, <1>12, <1>14, <1>15, <1>16, <1>17, <1>18, <1>19 DEF IInv

\* initUser, second save, or the save of bind.
LEMMA SaveAccountStep ==
  ASSUME IInv, NEW r \in Requests, SaveAccount(r)
  PROVE  IInv'
<1> DEFINE h == handler[r]
           n == [id |-> lastAccount + 1, user |-> h.user, identity |-> h.identity]
<1>1. /\ h.step = "saveAccount" /\ lastAccount' = lastAccount + 1
      /\ accounts' = accounts \cup {n} /\ tokens' \subseteq tokens \cup {h.user}
      /\ handler' = [handler EXCEPT ![r] = Idle]
      /\ UNCHANGED <<users, lastUser, disturbedUsers, disturbedIdentities>>
      /\ borrowers \subseteq borrowers'
      /\ UserOf(h.identity) \in {0, h.user} \/ h.user \in borrowers'
  BY DEF SaveAccount, Return, Borrows
<1>2. h \in AnyLocals /\ Known(h.user, users) /\ h.identity \in Identities
  BY <1>1 DEF IInv, RowsInv, StepsRemember, Remembers
<1>3. \A q \in Requests : handler'[q] = IF q = r THEN Idle ELSE handler[q]
  BY <1>1 DEF IInv, RowsInv
<1>4. /\ n \in AnyAccount /\ n.id = lastAccount + 1 /\ n.user = h.user
      /\ n.identity = h.identity /\ lastAccount \in Nat
  BY <1>2 DEF AnyAccount, AnyLocals, IInv, RowsInv
<1> HIDE DEF n
<1>5. \A a \in accounts : a.id \in Nat /\ a.id < n.id
  BY <1>4 DEF IInv, RowsInv, AnyAccount
<1>6. RowsInv'
  <2>1. \A a \in accounts' : a.id <= lastAccount' /\ Known(a.user, users)
    <3>1. \A a \in accounts : a.id <= lastAccount + 1
      BY <1>4, <1>5
    <3>2. n.id <= lastAccount + 1
      BY <1>4
    <3> HIDE DEF h
    <3> QED BY <1>1, <1>2, <1>4, <3>1, <3>2 DEF IInv, RowsInv
  <2>2. \A a, b \in accounts' : a.id = b.id => a = b
    <3>1. \A a \in accounts : a.id # n.id
      BY <1>4, <1>5
    <3> QED BY <1>1, <3>1 DEF IInv, RowsInv
  <2>3. accounts' \subseteq AnyAccount /\ lastAccount' \in Nat
    BY <1>1, <1>4 DEF IInv, RowsInv
  <2>4. \A u \in tokens' : Known(u, users)
    BY <1>1, <1>2 DEF IInv, RowsInv
  <2>5. handler' \in [Requests -> AnyLocals]
    BY <1>1, IdleLocals DEF IInv, RowsInv
  <2> QED BY <1>1, <2>1, <2>2, <2>3, <2>4, <2>5 DEF IInv, RowsInv
<1>7. StepsRemember'
  BY <1>1, <1>3, IdleRemembers DEF IInv, StepsRemember
<1>8. UsersAlone' /\ IdentitiesAlone'
  BY <1>1, <1>3, IdleRemembers DEF IInv, UsersAlone, IdentitiesAlone
<1>9. h.user # 0
  BY <1>2, OldIds DEF IInv
<1>10. \A q \in Requests \ {r} : handler[q].user \notin disturbedUsers \cup {0} =>
         handler[q].user # n.user
  BY <1>4 DEF IInv, UsersAlone
<1>11. \A q \in Requests \ {r} : handler[q].identity \notin disturbedIdentities \cup {None} =>
         handler[q].identity # n.identity
  BY <1>4 DEF IInv, IdentitiesAlone
<1> HIDE DEF h
<1>12. BindingFree'
  <2> SUFFICES ASSUME NEW q \in Requests, q # r, handler[q].step = "saveAccount",
                      handler[q].user \notin disturbedUsers,
                      NEW a \in accounts', a.user = handler[q].user
               PROVE  a.identity.platform # handler[q].identity.platform
    BY <1>1, <1>3, IdleRemembers DEF BindingFree, AccountsOf
  <2>1. handler[q].user # 0
    BY OldIds DEF IInv, StepsRemember, Remembers
  <2>2. a \in accounts
    BY <1>1, <1>10, <2>1
  <2> QED BY <2>2 DEF IInv, BindingFree, AccountsOf
<1>13. AccountToSpare'
  BY <1>1, <1>3, IdleRemembers DEF IInv, AccountToSpare, AccountsOf
<1>14. NotRegistered'
  <2> SUFFICES ASSUME NEW q \in Requests, q # r,
                      handler[q].step \in {"validateUsername", "saveUser"},
                      handler[q].identity \notin disturbedIdentities,
                      NEW a \in accounts', a.identity = handler[q].identity
               PROVE  FALSE
    BY <1>1, <1>3, IdleRemembers DEF NotRegistered, Registered
  <2>1. handler[q].identity # None
    BY NoneIsFresh DEF IInv, StepsRemember, Remembers
  <2>2. a \in accounts
    BY <1>1, <1>11, <2>1
  <2> QED BY <2>2 DEF IInv, NotRegistered, Registered
<1>15. KeepsAccount'
  <2> SUFFICES ASSUME NEW y \in users, y.id \notin disturbedUsers,
                      AccountsOf(y.id)' = {}
               PROVE  \E q \in Requests :
                        handler'[q].step = "saveAccount"
                          /\ handler'[q].kind = "signup" /\ handler'[q].user = y.id
    BY <1>1 DEF KeepsAccount
  <2>1. AccountsOf(y.id) = {} /\ y.id # n.user
    BY <1>1 DEF AccountsOf
  <2>2. PICK q \in Requests :
          handler[q].step = "saveAccount" /\ handler[q].kind = "signup"
            /\ handler[q].user = y.id
    BY <2>1 DEF IInv, KeepsAccount
  <2>3. q # r
    BY <1>4, <2>1, <2>2 DEF h
  <2> QED BY <1>3, <2>2, <2>3
<1>16. OneBindingPerPlatform'
  <2>1. h.user \notin disturbedUsers =>
          \A a \in accounts : a.user = h.user =>
            a.identity.platform # h.identity.platform
    BY <1>1 DEF h, IInv, BindingFree, AccountsOf
  <2> QED BY <1>1, <1>4, <2>1 DEF IInv, OneBindingPerPlatform
<1>17. OwnLogin'
  <2> SUFFICES ASSUME NEW a \in accounts', a.user \notin borrowers'
               PROVE  UserOf(a.identity)' = a.user
    BY DEF OwnLogin
  <2>1. \A i : UserOf(i) # 0 => UserOf(i)' = UserOf(i)
    BY <1>1, <1>5, <1>6, UserAfterInsert DEF IInv
  <2>2. CASE a \in accounts
    <3>1. UserOf(a.identity) = a.user
      BY <1>1, <2>2 DEF IInv, OwnLogin
    <3>2. a.user # 0
      BY <2>2, OldIds DEF IInv, RowsInv
    <3> QED BY <2>1, <3>1, <3>2
  <2>3. CASE a = n /\ UserOf(h.identity) = h.user
    BY <1>4, <1>9, <2>1, <2>3
  <2>4. CASE a = n /\ UserOf(h.identity) = 0
    <3>1. Registered(a.identity) = {}
      BY <1>4, <2>4, RegisteredKeyed, UserOfIsFirst, FirstZero DEF IInv
    <3>2. \A b \in accounts : b.identity # a.identity
      BY <3>1 DEF Registered
    <3>3. Registered(a.identity)' = {a}
      BY <1>1, <2>4, <3>2 DEF Registered
    <3>4. Keyed({a}) /\ a.id <= a.id
      BY <1>4, <1>9, <2>4 DEF Keyed, AnyAccount
    <3>5. FirstUser({a}) = a.user
      BY <3>4, FirstIs
    <3> QED BY <3>3, <3>5, UserOfIsFirstNext
  <2> QED BY <1>1, <1>4, <2>2, <2>3, <2>4
<1> QED BY <1>6, <1>7, <1>8, <1>12, <1>13, <1>14, <1>15, <1>16, <1>17 DEF IInv

\* unbind deletes: of the two accounts an undisturbed user had at the count,
\* one is of another platform.
LEMMA DeleteStep ==
  ASSUME IInv, NEW r \in Requests, Delete(r)
  PROVE  IInv'
<1> DEFINE h == handler[r]
<1>1. /\ h.step = "delete"
      /\ accounts' = {a \in accounts :
                        ~(a.user = h.user /\ a.identity.platform = h.platform)}
      /\ handler' = [handler EXCEPT ![r] = Idle]
      /\ UNCHANGED <<users, lastUser, lastAccount, tokens>>
      /\ UNCHANGED <<disturbedUsers, disturbedIdentities, borrowers>>
  BY DEF Delete, Return, history
<1>2. Known(h.user, users) /\ h.user # 0
  <2>1. Known(h.user, users)
    BY <1>1 DEF IInv, StepsRemember, Remembers
  <2> QED BY <2>1, OldIds DEF IInv
<1>3. \A q \in Requests : handler'[q] = IF q = r THEN Idle ELSE handler[q]
  BY <1>1 DEF IInv, RowsInv
<1>4. RowsInv'
  BY <1>1, IdleLocals DEF IInv, RowsInv
<1>5. StepsRemember'
  BY <1>1, <1>3, IdleRemembers DEF IInv, StepsRemember
<1>6. UsersAlone' /\ IdentitiesAlone'
  BY <1>1, <1>3, IdleRemembers DEF IInv, UsersAlone, IdentitiesAlone
<1>7. BindingFree' /\ NotRegistered'
  BY <1>1, <1>3, IdleRemembers
  DEF IInv, BindingFree, NotRegistered, AccountsOf, Registered
<1>8. AccountToSpare'
  <2> SUFFICES ASSUME NEW q \in Requests, q # r, handler[q].step = "delete",
                      handler[q].user \notin disturbedUsers
               PROVE  \E a, b \in AccountsOf(handler[q].user)' : a # b
    BY <1>1, <1>3, IdleRemembers DEF AccountToSpare, AccountsOf
  <2>1. handler[q].user # 0
    BY OldIds DEF IInv, StepsRemember, Remembers
  <2>2. handler[q].user # h.user
    BY <2>1 DEF IInv, UsersAlone
  <2>3. \A a \in AccountsOf(handler[q].user) :
          a \in accounts' /\ a.user = handler[q].user
    BY <1>1, <2>2 DEF AccountsOf
  <2>4. PICK a \in AccountsOf(handler[q].user), b \in AccountsOf(handler[q].user) :
          a # b
    BY DEF IInv, AccountToSpare
  <2>5. /\ a \in {c \in accounts' : c.user = handler[q].user}
        /\ b \in {c \in accounts' : c.user = handler[q].user}
    BY <2>3, <2>4
  <2> QED BY <1>3, <2>4, <2>5 DEF AccountsOf
<1>9. KeepsAccount'
  <2> SUFFICES ASSUME NEW y \in users, y.id \notin disturbedUsers,
                      AccountsOf(y.id)' = {}
               PROVE  \E q \in Requests :
                        handler'[q].step = "saveAccount"
                          /\ handler'[q].kind = "signup" /\ handler'[q].user = y.id
    BY <1>1 DEF KeepsAccount
  <2>1. CASE y.id = h.user
    <3>1. PICK a \in AccountsOf(h.user), b \in AccountsOf(h.user) : a # b
      BY <1>1, <2>1 DEF IInv, AccountToSpare
    <3>2. a.identity.platform # b.identity.platform
      BY <2>1, <3>1 DEF IInv, OneBindingPerPlatform, AccountsOf
    <3>3. a \in accounts' \/ b \in accounts'
      BY <1>1, <3>1, <3>2 DEF AccountsOf
    <3> QED BY <2>1, <3>1, <3>3 DEF AccountsOf
  <2>2. CASE y.id # h.user
    <3>1. AccountsOf(y.id) = {}
      BY <1>1, <2>2 DEF AccountsOf
    <3>2. PICK q \in Requests :
            handler[q].step = "saveAccount" /\ handler[q].kind = "signup"
              /\ handler[q].user = y.id
      BY <3>1 DEF IInv, KeepsAccount
    <3> QED BY <1>1, <1>3, <3>2
  <2> QED BY <2>1, <2>2
<1>10. OneBindingPerPlatform'
  BY <1>1 DEF IInv, OneBindingPerPlatform
<1>11. OwnLogin'
  <2> SUFFICES ASSUME NEW a \in accounts', a.user \notin borrowers
               PROVE  UserOf(a.identity)' = a.user
    BY <1>1 DEF OwnLogin
  <2>1. a \in accounts /\ UserOf(a.identity) = a.user
    BY <1>1 DEF IInv, OwnLogin
  <2>2. a.user # 0
    BY <2>1, OldIds DEF IInv, RowsInv
  <2>3. \A b \in Registered(a.identity) : b \notin accounts' => b.user # a.user
    BY <1>1 DEF Registered
  <2> QED BY <1>1, <2>1, <2>2, <2>3, UserAfterDelete DEF IInv
<1> QED BY <1>4, <1>5, <1>6, <1>7, <1>8, <1>9, <1>10, <1>11 DEF IInv

\* A crash disturbs the user of a signup that has no account yet.
LEMMA CrashStep ==
  ASSUME IInv, Crash
  PROVE  IInv'
<1>1. /\ handler' = [r \in Requests |-> Idle]
      /\ UNCHANGED <<users, lastUser, accounts, lastAccount, tokens>>
      /\ \A u \in disturbedUsers : u \in disturbedUsers'
      /\ \A r \in Requests :
           handler[r].step = "saveAccount" /\ handler[r].kind = "signup" =>
             handler[r].user \in disturbedUsers'
      /\ UNCHANGED borrowers
  BY DEF Crash, tables
<1>2. RowsInv' /\ StepsRemember'
  BY <1>1, IdleLocals, IdleRemembers DEF IInv, RowsInv, StepsRemember
<1>3. UsersAlone' /\ IdentitiesAlone'
  BY <1>1, IdleRemembers DEF UsersAlone, IdentitiesAlone
<1>4. BindingFree' /\ AccountToSpare' /\ NotRegistered'
  BY <1>1, IdleRemembers DEF BindingFree, AccountToSpare, NotRegistered
<1>5. KeepsAccount' /\ OneBindingPerPlatform'
  BY <1>1 DEF IInv, KeepsAccount, OneBindingPerPlatform, AccountsOf
<1>6. OwnLogin'
  BY <1>1 DEF IInv, OwnLogin, UserOf, Registered
<1> QED BY <1>2, <1>3, <1>4, <1>5, <1>6 DEF IInv

LEMMA StutterStep == IInv /\ UNCHANGED vars => IInv'
BY DEF IInv, RowsInv, StepsRemember, UsersAlone, IdentitiesAlone, BindingFree,
   AccountToSpare, NotRegistered, KeepsAccount, OwnLogin, OneBindingPerPlatform,
   AccountsOf, Registered, UserOf, vars, tables, history

LEMMA ArriveStep ==
  ASSUME IInv,
         \/ \E r \in Requests, i \in Identities, name \in Usernames : Signup(r, i, name)
         \/ \E r \in Requests, i \in Identities : Login(r, i)
         \/ \E r \in Requests, u \in UserIds, i \in Identities : Bind(r, u, i)
         \/ \E r \in Requests, u \in UserIds, p \in Platforms : Unbind(r, u, p)
  PROVE  IInv'
<1>1. ASSUME NEW r \in Requests, NEW i \in Identities, NEW name \in Usernames,
             Signup(r, i, name)
      PROVE  IInv'
  <2> DEFINE h == [Idle EXCEPT !.step = "findAccount", !.kind = "signup",
                               !.identity = i, !.username = name]
  <2>1. h \in AnyLocals /\ h.step = "findAccount" /\ Remembers(h, users)
    BY DEF Idle, AnyLocals, Steps, Kinds, Remembers
  <2>2. Begin(r, h)
    BY <1>1 DEF Signup
  <2> HIDE DEF h
  <2> QED BY <2>1, <2>2, BeginStep
<1>2. ASSUME NEW r \in Requests, NEW i \in Identities, Login(r, i)
      PROVE  IInv'
  <2> DEFINE h == [Idle EXCEPT !.step = "findAccount", !.identity = i]
  <2>1. h \in AnyLocals /\ h.step = "findAccount" /\ Remembers(h, users)
    BY DEF Idle, AnyLocals, Steps, Kinds, Remembers
  <2>2. Begin(r, h)
    BY <1>2 DEF Login
  <2> HIDE DEF h
  <2> QED BY <2>1, <2>2, BeginStep
<1>3. ASSUME NEW r \in Requests, NEW u \in UserIds, NEW i \in Identities,
             Bind(r, u, i)
      PROVE  IInv'
  <2> DEFINE h == [Idle EXCEPT !.step = "findBinding", !.kind = "bind",
                               !.user = u, !.identity = i]
  <2>1. Known(u, users) /\ u \in Nat
    BY <1>3, OldIds DEF Bind, IInv, RowsInv
  <2>2. h \in AnyLocals /\ h.step = "findBinding" /\ Remembers(h, users)
    BY <2>1 DEF Idle, AnyLocals, Steps, Kinds, Remembers
  <2>3. Begin(r, h)
    BY <1>3 DEF Bind
  <2> HIDE DEF h
  <2> QED BY <2>2, <2>3, BeginStep
<1>4. ASSUME NEW r \in Requests, NEW u \in UserIds, NEW p \in Platforms,
             Unbind(r, u, p)
      PROVE  IInv'
  <2> DEFINE h == [Idle EXCEPT !.step = "count", !.kind = "unbind",
                               !.user = u, !.platform = p]
  <2>1. Known(u, users) /\ u \in Nat
    BY <1>4, OldIds DEF Unbind, IInv, RowsInv
  <2>2. h \in AnyLocals /\ h.step = "count" /\ Remembers(h, users)
    BY <2>1 DEF Idle, AnyLocals, Steps, Kinds, Remembers
  <2>3. Begin(r, h)
    BY <1>4 DEF Unbind
  <2> HIDE DEF h
  <2> QED BY <2>2, <2>3, BeginStep
<1> QED BY <1>1, <1>2, <1>3, <1>4

LEMMA NextIInv == IInv /\ [Next]_vars => IInv'
<1> SUFFICES ASSUME IInv, [Next]_vars PROVE IInv'
  OBVIOUS
<1>1. ASSUME NEW r \in Requests, Step(r) PROVE IInv'
  BY <1>1, FindAccountStep, ValidateUsernameStep, SaveUserStep, SaveAccountStep,
     FindBindingStep, CountStep, DeleteStep DEF Step
<1> QED BY <1>1, ArriveStep, CrashStep, StutterStep DEF Next

-----------------------------------------------------------------------------
(* The theorems. *)

\* The invariant that the theorems below rest on: keys and types of the rows, and
\* that what an undisturbed request found is true when it writes.
THEOREM InvariantHolds == Spec => []IInv
BY InitIInv, NextIInv, PTL DEF Spec

\* Whatever signups, logins, binds and unbinds overlap and wherever the process
\* dies: a user whose own requests did not overlap has an account, the count of
\* unbind being right still when it deletes, and one that logs this user in if it
\* never took an account that logs in another one.
THEOREM NobodyLockedOut == Spec => []UsersCanLogin
<1>1. IInv => UsersCanLogin
  BY DEF IInv, KeepsAccount, OwnLogin, UsersCanLogin, AccountsOf
<1> QED BY <1>1, InvariantHolds, PTL

\* Such a user has at most one account per platform, although the account table
\* has no unique index.
THEOREM OneBindingEach == Spec => []OneBindingPerPlatform
<1>1. IInv => OneBindingPerPlatform
  BY DEF IInv
<1> QED BY <1>1, InvariantHolds, PTL

\* A signup creates a user only for an identity that has none at that moment,
\* unless requests for the identity overlapped.
THEOREM SignupSkipped == Spec => RegisteredSkipsSignup
<1>1. IInv /\ [Next]_vars =>
        [\A r \in Requests :
           handler[r].step = "saveUser" /\ handler'[r].step = "saveAccount"
             /\ handler[r].identity \notin disturbedIdentities
             => Registered(handler[r].identity) = {}]_vars
  BY DEF IInv, NotRegistered
<1> QED BY <1>1, InvariantHolds, PTL DEF Spec, RegisteredSkipsSignup

\* The saves and deletions of others do not change who an identity belongs to.
LEMMA AccountsWritten ==
  ASSUME [Next]_vars
  PROVE  \/ \E r \in Requests : SaveAccount(r) \/ Delete(r)
         \/ UNCHANGED accounts
<1>1. ASSUME NEW r \in Requests, Step(r), ~SaveAccount(r), ~Delete(r)
      PROVE  UNCHANGED accounts
  BY <1>1 DEF Step, FindAccount, ValidateUsername, SaveUser, FindBinding, Count,
     tables
<1>2. ASSUME \/ \E r \in Requests, i \in Identities, name \in Usernames : Signup(r, i, name)
             \/ \E r \in Requests, i \in Identities : Login(r, i)
             \/ \E r \in Requests, u \in UserIds, i \in Identities : Bind(r, u, i)
             \/ \E r \in Requests, u \in UserIds, p \in Platforms : Unbind(r, u, p)
      PROVE  UNCHANGED accounts
  BY <1>2 DEF Signup, Login, Bind, Unbind, Begin, tables
<1>3. Crash \/ UNCHANGED vars => UNCHANGED accounts
  BY DEF Crash, vars, tables
<1> QED BY <1>1, <1>2, <1>3 DEF Next

LEMMA UserKept ==
  ASSUME IInv, [Next]_vars, NEW i \in Identities, UserOf(i) \notin {0, UserOf(i)'}
  PROVE  \E r \in Requests :
           handler[r].step = "delete" /\ handler'[r].step = "idle"
             /\ handler[r].user = UserOf(i) /\ handler[r].platform = i.platform
<1>1. RowsInv /\ RowsInv'
  BY NextIInv DEF IInv
<1>2. CASE UNCHANGED accounts
  BY <1>2 DEF UserOf, Registered
<1>3. ASSUME NEW r \in Requests, SaveAccount(r) PROVE FALSE
  <2> DEFINE n == [id |-> lastAccount + 1, user |-> handler[r].user,
                   identity |-> handler[r].identity]
  <2>1. accounts' = accounts \cup {n}
    BY <1>3 DEF SaveAccount
  <2>2. \A a \in accounts : a.id < n.id
    BY <1>1 DEF RowsInv, AnyAccount
  <2> HIDE DEF n
  <2> QED BY <1>1, <2>1, <2>2, UserAfterInsert
<1>4. ASSUME NEW r \in Requests, Delete(r)
      PROVE  /\ handler[r].step = "delete" /\ handler'[r].step = "idle"
             /\ handler[r].user = UserOf(i) /\ handler[r].platform = i.platform
  <2>1. /\ handler[r].step = "delete" /\ Return(r)
        /\ accounts' = {a \in accounts : ~(a.user = handler[r].user
                          /\ a.identity.platform = handler[r].platform)}
    BY <1>4 DEF Delete
  <2>2. handler'[r].step = "idle"
    BY <2>1, IdleRemembers DEF Return, IInv, RowsInv
  <2>3. PICK a \in Registered(i) : a \notin accounts' /\ a.user = UserOf(i)
    BY <1>1, <2>1, UserAfterDelete
  <2>4. handler[r].user = a.user /\ handler[r].platform = i.platform
    BY <2>1, <2>3 DEF Registered
  <2> QED BY <2>1, <2>2, <2>3, <2>4
<1> QED BY <1>2, <1>3, <1>4, AccountsWritten

\* Who logs in with an identity is the same user every time, until that user
\* unbinds the platform, whatever others sign up with or bind.
THEOREM SameUserLogsIn == Spec => LoginKeepsUser
<1>1. IInv /\ [Next]_vars =>
        [\A i \in Identities :
           UserOf(i) \notin {0, UserOf(i)'} =>
             \E r \in Requests :
               handler[r].step = "delete" /\ handler'[r].step = "idle"
                 /\ handler[r].user = UserOf(i)
                 /\ handler[r].platform = i.platform]_vars
  BY UserKept
<1> QED BY <1>1, InvariantHolds, PTL DEF Spec, LoginKeepsUser

=============================================================================
