----------------------- MODULE SessionsAndListing_proofs -----------------------
(***************************************************************************)
(* Who a visitor is, and which games that visitor is shown: proofs about     *)
(* Sessions and GamesListing.                                               *)
(*                                                                         *)
(* Sessions, for any users, accounts, tokens and number of requests under   *)
(* way: a logout ends the session, a token stays with the owner of the      *)
(* account it names, and a refresh renews the session it was sent by and    *)
(* never takes the profile back.                                            *)
(*                                                                         *)
(* GamesListing, for any games and any size of the pages: walks through the *)
(* pages are complete.                                                      *)
(***************************************************************************)
EXTENDS Sessions, GamesListing, FiniteSetTheorems, SequenceTheorems, TLAPS

\* Ids are not given twice, and the users of accounts have a row.
RowsInv ==
  /\ \A a \in accounts : a.id <= lastAccount /\ profile[a.user] # None
  /\ \A a, b \in accounts : a.id = b.id => a = b

\* What a token says of these tables was true once: its user is there, with this
\* profile or a later one, and its account was never another user's.
KnownIn(t, profiles, accs, last) ==
  t # None =>
    /\ profiles[t.user] # None
    /\ t.profile <= profiles[t.user]
    /\ t.account <= last
    /\ \A a \in accs : a.id = t.account => a.user = t.user

Known(t) == KnownIn(t, profile, accounts, lastAccount)

TokensKnown ==
  /\ Known(jar.access) /\ Known(jar.refresh)
  /\ \A r \in Requests : Known(handler[r].token)

\* What a request remembers at a step.
Remembers(h) ==
  /\ h.step = "idle" => h = Idle
  /\ h.step = "find" => h.identity # None /\ h.kind \in {"login", "signup", "callbackSignup"}
  /\ h.step = "find" /\ h.kind \in {"signup", "callbackSignup"} => h.user # None
  /\ h.step \in {"findUser", "findAccount"} => h.kind = "refresh" /\ h.token # None
  /\ h.step = "answer" /\ h.kind = "refresh" => h.sets = "login" /\ h.token # None
  /\ h.step = "answer" /\ h.kind = "logout" => h.sets = "clear"

StepsRemember == \A r \in Requests : Remembers(handler[r])

\* After a logout nothing is under way but logouts.
LoggedOut == ended => \A r \in Requests : handler[r].kind = "logout"

\* Two requests under way have crossed.
Overlap == \A q, r \in Busy : q # r => q \in crossed

\* The token of a request that crossed no other one is no older than the one the
\* browser holds, and a refresh has kept the user and account of the other.
NotOlder(h, access) ==
  h.step \in {"findAccount", "answer"} /\ h.token # None
    /\ access # None /\ access.user = h.token.user
    => access.profile <= h.token.profile

Renews(h, refresh) ==
  h.kind = "refresh" /\ refresh # None =>
    /\ h.token.user = refresh.user
    /\ h.token.account \in {0, refresh.account}

Alone ==
  \A r \in Busy \ crossed :
    NotOlder(handler[r], jar.access) /\ Renews(handler[r], jar.refresh)

IInv ==
  /\ TypeOK /\ RowsInv /\ TokensKnown /\ StepsRemember
  /\ LoggedOut /\ LogoutEnds /\ Overlap /\ Alone

-------------------------------------------------------------------------------
LEMMA IdleRemembers == Idle \in Locals /\ Remembers(Idle)
BY DEF Idle, Locals, Remembers

LEMMA IInvInit == Init => IInv
<1> SUFFICES ASSUME Init PROVE IInv
  OBVIOUS
<1>1. /\ jar.access = None /\ jar.refresh = None /\ jar.signup = None
      /\ jar \in [access : Tokens \cup {None}, refresh : Tokens \cup {None},
                  signup : Identities \cup {None}]
  BY DEF Init, Cookies
<1>2. TypeOK
  BY <1>1, IdleRemembers, SessionBounds DEF Init, TypeOK
<1>3. RowsInv /\ Busy = {}
  BY DEF Init, RowsInv, Busy
<1>4. TokensKnown /\ LoggedOut
  BY <1>1 DEF Init, TokensKnown, Known, KnownIn, Idle, LoggedOut
<1>5. StepsRemember /\ Overlap /\ Alone
  BY <1>3, IdleRemembers DEF Init, StepsRemember, Overlap, Alone
<1> QED
  BY <1>1, <1>2, <1>3, <1>4, <1>5 DEF IInv, LogoutEnds

\* A request under way goes on with h or ends, while the tables grow.
LEMMA Moves ==
  ASSUME IInv, NEW r \in Requests, r \in Busy, NEW h \in Locals,
         handler' = [handler EXCEPT ![r] = h],
         Remembers(h), h.kind = handler[r].kind \/ h = Idle,
         KnownIn(h.token, profile', accounts', lastAccount'),
         r \notin crossed /\ h # Idle =>
           NotOlder(h, jar.access) /\ Renews(h, jar.refresh),
         profile' \in [Users -> (0 .. MaxEdits) \cup {None}],
         accounts' \subseteq Rows, lastAccount' \in 0 .. MaxAccounts, RowsInv',
         \A t \in Tokens : Known(t) => KnownIn(t, profile', accounts', lastAccount'),
         UNCHANGED <<jar, history>>
  PROVE  IInv'
<1>a. /\ handler'[r] = h
      /\ \A q \in Requests : q # r => handler'[q] = handler[q]
      /\ handler' \in [Requests -> Locals]
      /\ UNCHANGED <<jar, ended, crossed>>
  BY DEF IInv, TypeOK, history
<1>b. \A t \in Tokens \cup {None} :
         Known(t) => KnownIn(t, profile', accounts', lastAccount')
  BY DEF KnownIn
<1>c. /\ \A q \in Requests : handler[q].token \in Tokens \cup {None}
      /\ jar.access \in Tokens \cup {None} /\ jar.refresh \in Tokens \cup {None}
  BY DEF IInv, TypeOK, Locals
<1>1. TypeOK'
  BY <1>a DEF IInv, TypeOK
<1>2. TokensKnown'
  <2>1. KnownIn(jar.access, profile', accounts', lastAccount')
        /\ KnownIn(jar.refresh, profile', accounts', lastAccount')
    BY <1>b, <1>c DEF IInv, TokensKnown
  <2>2. \A q \in Requests : KnownIn(handler'[q].token, profile', accounts', lastAccount')
    BY <1>a, <1>b, <1>c DEF IInv, TokensKnown
  <2> QED
    BY <1>a, <2>1, <2>2 DEF TokensKnown, Known
<1>3. StepsRemember'
  BY <1>a DEF IInv, StepsRemember
<1>4. LoggedOut' /\ LogoutEnds'
  BY <1>a DEF IInv, LoggedOut, LogoutEnds, Idle
<1>5. Busy' \subseteq Busy /\ (r \in Busy' => h # Idle)
  BY <1>a DEF Busy
<1>6. Overlap'
  BY <1>a, <1>5 DEF IInv, Overlap
<1>7. Alone'
  BY <1>a, <1>5 DEF IInv, Alone
<1> QED
  BY <1>1, <1>2, <1>3, <1>4, <1>6, <1>7 DEF IInv

\* The tables stay or grow by an account, with or without its user.
LEMMA SameTables ==
  ASSUME IInv, UNCHANGED database
  PROVE  /\ profile' \in [Users -> (0 .. MaxEdits) \cup {None}]
         /\ accounts' \subseteq Rows /\ lastAccount' \in 0 .. MaxAccounts /\ RowsInv'
         /\ \A t \in Tokens : Known(t) => KnownIn(t, profile', accounts', lastAccount')
BY DEF database, IInv, TypeOK, RowsInv, Known

LEMMA NewAccount ==
  ASSUME IInv, NEW u \in Users, NEW i \in Identities, lastAccount < MaxAccounts,
         lastAccount' = lastAccount + 1,
         accounts' = accounts \cup {[id |-> lastAccount + 1, user |-> u, identity |-> i]},
         \/ profile[u] # None /\ profile' = profile
         \/ profile[u] = None /\ profile' = [profile EXCEPT ![u] = 0]
  PROVE  /\ profile' \in [Users -> (0 .. MaxEdits) \cup {None}]
         /\ accounts' \subseteq Rows /\ lastAccount' \in 0 .. MaxAccounts /\ RowsInv'
         /\ \A t \in Tokens : Known(t) => KnownIn(t, profile', accounts', lastAccount')
<1> DEFINE new == [id |-> lastAccount + 1, user |-> u, identity |-> i]
<1>1. lastAccount \in Nat /\ MaxAccounts \in Nat /\ MaxEdits \in Nat /\ None \notin Nat
  BY SessionBounds, NoneIsFresh DEF IInv, TypeOK
<1>2. new \in Rows /\ new.id = lastAccount + 1 /\ new.user = u
  BY <1>1 DEF Rows
<1>3. profile' \in [Users -> (0 .. MaxEdits) \cup {None}]
      /\ accounts' \subseteq Rows /\ lastAccount' \in 0 .. MaxAccounts
  BY <1>1, <1>2 DEF IInv, TypeOK
<1>4. \A v \in Users : profile[v] # None => profile'[v] = profile[v]
  BY DEF IInv, TypeOK
<1>5. profile'[u] # None
  BY <1>1 DEF IInv, TypeOK
<1>6. RowsInv'
  <2>1. \A a \in accounts : a.id \in Nat /\ a.id <= lastAccount /\ a.user \in Users
    BY DEF IInv, TypeOK, RowsInv, Rows
  <2>2. \A a \in accounts' : a = new \/ a \in accounts
    OBVIOUS
  <2>3. \A a \in accounts' : a.id <= lastAccount' /\ profile'[a.user] # None
    BY <1>1, <1>2, <1>4, <1>5, <2>1, <2>2 DEF IInv, RowsInv
  <2>4. \A a, b \in accounts' : a.id = b.id => a = b
    BY <1>1, <1>2, <2>1, <2>2 DEF IInv, RowsInv
  <2> QED
    BY <2>3, <2>4 DEF RowsInv
<1>7. ASSUME NEW t \in Tokens, Known(t)
      PROVE  KnownIn(t, profile', accounts', lastAccount')
  <2>1. t.user \in Users /\ t.account \in Nat
    BY <1>1 DEF Tokens
  <2> QED
    BY <1>1, <1>2, <1>4, <1>7, <2>1 DEF Known, KnownIn
<1> QED
  BY <1>3, <1>6, <1>7

\* A request is answered, with the token of a user or without one.
LEMMA Answers ==
  ASSUME IInv, NEW r \in Requests, r \in Busy,
         NEW sets \in {"nothing", "login", "signedUp", "signup"},
         NEW t \in Tokens \cup {None}, AnswerWith(r, sets, t),
         handler[r].kind # "logout",
         handler[r].kind = "refresh" => sets = "login" /\ t # None,
         KnownIn(t, profile', accounts', lastAccount'),
         r \notin crossed =>
           /\ t # None /\ jar.access # None /\ jar.access.user = t.user
                => jar.access.profile <= t.profile
           /\ handler[r].kind = "refresh" /\ jar.refresh # None =>
                t.user = jar.refresh.user /\ t.account \in {0, jar.refresh.account},
         profile' \in [Users -> (0 .. MaxEdits) \cup {None}],
         accounts' \subseteq Rows, lastAccount' \in 0 .. MaxAccounts, RowsInv',
         \A x \in Tokens : Known(x) => KnownIn(x, profile', accounts', lastAccount'),
         UNCHANGED <<jar, history>>
  PROVE  IInv'
<1>1. PICK h \in Locals :
        /\ h.step = "answer" /\ h.kind = handler[r].kind
        /\ h.sets = sets /\ h.token = t
        /\ handler' = [handler EXCEPT ![r] = h]
  <2> DEFINE g == [handler[r] EXCEPT !.step = "answer", !.sets = sets, !.token = t]
  <2>1. handler[r] \in Locals
    BY DEF IInv, TypeOK
  <2>2. g \in Locals /\ g.step = "answer" /\ g.kind = handler[r].kind
        /\ g.sets = sets /\ g.token = t
    BY <2>1 DEF Locals
  <2>3. handler' = [handler EXCEPT ![r] = g]
    BY <2>1 DEF AnswerWith, IInv, TypeOK, Locals
  <2> QED
    BY <2>2, <2>3
<1>2. Remembers(h)
  BY <1>1 DEF Remembers
<1>3. r \notin crossed => NotOlder(h, jar.access) /\ Renews(h, jar.refresh)
  BY <1>1 DEF NotOlder, Renews
<1> QED
  BY <1>1, <1>2, <1>3, Moves

\* A token that is signed from the rows of now.
LEMMA SignedNow ==
  ASSUME IInv, NEW a \in accounts
  PROVE  LET t == Signed(a.user, a, TRUE)
         IN /\ t \in Tokens /\ Known(t)
            /\ jar.access # None /\ jar.access.user = t.user
                 => jar.access.profile <= t.profile
<1> DEFINE t == Signed(a.user, a, TRUE)
<1>1. a \in Rows /\ a.id <= lastAccount /\ profile[a.user] # None
      /\ lastAccount \in 0 .. MaxAccounts /\ MaxAccounts \in Nat /\ MaxEdits \in Nat
  BY SessionBounds DEF IInv, TypeOK, RowsInv
<1>2. a.id \in 1 .. MaxAccounts /\ a.user \in Users /\ profile[a.user] \in 0 .. MaxEdits
  BY <1>1 DEF Rows, IInv, TypeOK
<1>3. t \in Tokens /\ t.user = a.user /\ t.profile = profile[a.user] /\ t.account = a.id
  BY <1>1, <1>2 DEF Tokens, Signed
<1>4. Known(t)
  <2>1. \A b \in accounts : b.id = a.id => b.user = a.user
    BY DEF IInv, RowsInv
  <2>2. profile[a.user] <= profile[a.user]
    BY <1>1, <1>2
  <2> HIDE DEF t
  <2> QED
    BY <1>1, <1>3, <2>1, <2>2 DEF Known, KnownIn
<1>5. jar.access # None /\ jar.access.user = t.user => jar.access.profile <= t.profile
  BY <1>3 DEF IInv, TokensKnown, Known, KnownIn
<1> QED
  BY <1>3, <1>4, <1>5

LEMMA LoginKnownStep ==
  ASSUME IInv, NEW r \in Requests, r \in Busy,
         NEW sets \in {"nothing", "login", "signedUp"}, LoginKnown(r, sets),
         handler[r].kind \notin {"logout", "refresh"}
  PROVE  IInv'
<1>1. PICK a \in accounts : AnswerWith(r, sets, Signed(a.user, a, TRUE))
  BY DEF LoginKnown, Found
<1>2. PICK t \in Tokens :
        /\ t = Signed(a.user, a, TRUE) /\ Known(t)
        /\ jar.access # None /\ jar.access.user = t.user
             => jar.access.profile <= t.profile
  BY SignedNow
<1>3. UNCHANGED <<database, jar, history>>
  BY DEF LoginKnown
<1> QED
  BY <1>1, <1>2, <1>3, SameTables, Answers

LEMMA LoginStep ==
  ASSUME IInv, NEW r \in Requests, Login(r)
  PROVE  IInv'
<1>1. r \in Busy /\ handler[r].kind = "login"
  BY DEF Login, At, Busy, Idle
<1>2. CASE LoginKnown(r, "login")
  BY <1>1, <1>2, LoginKnownStep
<1>3. CASE AnswerWith(r, "signup", None) /\ UNCHANGED <<database, jar, history>>
  BY <1>1, <1>3, SameTables, Answers DEF KnownIn
<1> QED
  BY <1>2, <1>3 DEF Login

LEMMA SignupStep ==
  ASSUME IInv, NEW r \in Requests, Signup(r)
  PROVE  IInv'
<1> DEFINE h == handler[r]
           sets == SignupSets(h)
           row == [id |-> lastAccount + 1, user |-> h.user, identity |-> h.identity]
           t == [user |-> h.user, profile |-> 0, account |-> row.id, joined |-> TRUE]
<1>1. /\ r \in Busy /\ h.step = "find" /\ h.kind \in {"signup", "callbackSignup"}
      /\ h \in Locals /\ h.identity \in Identities /\ h.user \in Users
  BY DEF Signup, At, Busy, Idle, IInv, TypeOK, StepsRemember, Remembers, Locals
<1>2. sets \in {"nothing", "login", "signedUp"}
  BY <1>1 DEF SignupSets
<1>3. CASE LoginKnown(r, sets)
  BY <1>1, <1>2, <1>3, LoginKnownStep
<1>4. CASE AnswerWith(r, "nothing", None) /\ UNCHANGED <<database, jar, history>>
  BY <1>1, <1>4, SameTables, Answers DEF KnownIn
<1>5. CASE /\ profile[h.user] = None /\ lastAccount < MaxAccounts
           /\ lastAccount' = row.id
           /\ accounts' = accounts \cup {row}
           /\ profile' = [profile EXCEPT ![h.user] = 0]
           /\ AnswerWith(r, sets, t)
           /\ UNCHANGED <<jar, history>>
  <2>1. /\ profile' \in [Users -> (0 .. MaxEdits) \cup {None}]
        /\ accounts' \subseteq Rows /\ lastAccount' \in 0 .. MaxAccounts /\ RowsInv'
        /\ \A x \in Tokens : Known(x) => KnownIn(x, profile', accounts', lastAccount')
    BY <1>1, <1>5, NewAccount
  <2>2. lastAccount \in Nat /\ MaxAccounts \in Nat /\ MaxEdits \in Nat /\ None \notin Nat
    BY SessionBounds, NoneIsFresh DEF IInv, TypeOK
  <2>3. t \in Tokens
    BY <1>1, <1>5, <2>2 DEF Tokens
  <2>4. row \in accounts' /\ profile'[h.user] = 0
    BY <1>1, <1>5 DEF IInv, TypeOK
  <2>5. KnownIn(t, profile', accounts', lastAccount')
    <3>1. /\ t.user = h.user /\ t.profile = 0 /\ t.account = lastAccount + 1
          /\ row.id = lastAccount + 1 /\ row.user = h.user
      OBVIOUS
    <3>2. \A a \in accounts' : a.id = row.id => a = row
      BY <2>1, <2>4 DEF RowsInv
    <3> HIDE DEF t, row
    <3>3. \A a \in accounts' : a.id = t.account => a.user = t.user
      BY <3>1, <3>2
    <3>4. 0 # None /\ lastAccount + 1 <= lastAccount'
      BY <1>5, <2>2, <3>1
    <3> QED
      BY <2>4, <3>1, <3>3, <3>4 DEF KnownIn
  <2>6. jar.access # None => jar.access.user # t.user
    BY <1>5 DEF IInv, TokensKnown, Known, KnownIn
  <2> HIDE DEF t, row, sets
  <2> QED
    BY <1>1, <1>2, <1>5, <2>1, <2>3, <2>5, <2>6, Answers
<1> QED
  BY <1>3, <1>4, <1>5 DEF Signup

\* What the two steps of a refresh do to the token.
LEMMA TokenWith ==
  ASSUME NEW t \in Tokens, NEW p \in 0 .. MaxEdits, NEW n \in 0 .. MaxAccounts
  PROVE  /\ \E u \in Tokens :
              /\ u = [t EXCEPT !.profile = p]
              /\ u.user = t.user /\ u.account = t.account /\ u.profile = p
         /\ \E u \in Tokens :
              /\ u = [t EXCEPT !.account = n, !.joined = FALSE]
              /\ u.user = t.user /\ u.profile = t.profile /\ u.account = n
<1> DEFINE v == [t EXCEPT !.profile = p]
           w == [t EXCEPT !.account = n, !.joined = FALSE]
<1>1. v \in Tokens /\ v.user = t.user /\ v.account = t.account /\ v.profile = p
  BY DEF Tokens
<1>2. w \in Tokens /\ w.user = t.user /\ w.profile = t.profile /\ w.account = n
  BY DEF Tokens
<1> QED
  BY <1>1, <1>2

LEMMA RefreshUserStep ==
  ASSUME IInv, NEW r \in Requests, RefreshUser(r)
  PROVE  IInv'
<1> DEFINE t == handler[r].token
<1>1. /\ r \in Busy /\ handler[r] \in Locals
      /\ handler[r].step = "findUser" /\ handler[r].kind = "refresh" /\ t \in Tokens
  BY DEF RefreshUser, At, Busy, Idle, IInv, TypeOK, StepsRemember, Remembers, Locals
<1>2. profile[t.user] \in 0 .. MaxEdits /\ t.user \in Users /\ Known(t) /\ t # None
  <2>1. t # None
    BY <1>1 DEF RefreshUser, At, IInv, StepsRemember, Remembers
  <2> QED
    BY <1>1, <2>1 DEF IInv, TypeOK, TokensKnown, Known, KnownIn, Tokens
<1>3. PICK u \in Tokens :
        /\ u = [t EXCEPT !.profile = profile[t.user]]
        /\ u.user = t.user /\ u.account = t.account /\ u.profile = profile[t.user]
  <2>1. 0 \in 0 .. MaxAccounts
    BY SessionBounds
  <2> QED
    BY <1>1, <1>2, <2>1, TokenWith
<1>4. PICK h \in Locals :
        /\ h.step = "findAccount" /\ h.kind = "refresh" /\ h.token = u
        /\ handler' = [handler EXCEPT ![r] = h]
  <2> DEFINE g == [handler[r] EXCEPT !.step = "findAccount", !.token = u]
  <2>1. g \in Locals /\ g.step = "findAccount" /\ g.kind = "refresh" /\ g.token = u
    BY <1>1 DEF Locals
  <2>2. handler' = [handler EXCEPT ![r] = g]
    BY <1>1, <1>3 DEF RefreshUser, IInv, TypeOK, Locals
  <2> QED
    BY <2>1, <2>2
<1>5. Known(u)
  <2>1. profile[t.user] <= profile[t.user]
    BY <1>2, SessionBounds
  <2> QED
    BY <1>2, <1>3, <2>1 DEF Known, KnownIn
<1>6. NotOlder(h, jar.access)
  BY <1>3, <1>4 DEF NotOlder, IInv, TokensKnown, Known, KnownIn
<1>7. r \notin crossed => Renews(h, jar.refresh)
  BY <1>1, <1>3, <1>4 DEF Renews, IInv, Alone
<1>8. Remembers(h)
  <2>1. h.token # None
    BY <1>4, NoneIsFresh
  <2> QED
    BY <1>4, <2>1 DEF Remembers
<1>9. UNCHANGED <<database, jar, history>>
  BY DEF RefreshUser
<1> QED
  BY <1>1, <1>4, <1>5, <1>6, <1>7, <1>8, <1>9, SameTables, Moves

LEMMA RefreshAccountStep ==
  ASSUME IInv, NEW r \in Requests, RefreshAccount(r)
  PROVE  IInv'
<1> DEFINE t == handler[r].token
<1>1. /\ r \in Busy /\ handler[r] \in Locals /\ t \in Tokens /\ t # None
      /\ handler[r].step = "findAccount" /\ handler[r].kind = "refresh" /\ Known(t)
  BY DEF RefreshAccount, At, Busy, Idle, IInv, TypeOK, StepsRemember, Remembers,
         Locals, TokensKnown
<1>2. PICK n \in {0, t.account} :
        AnswerWith(r, "login", [t EXCEPT !.account = n, !.joined = FALSE])
  BY DEF RefreshAccount
<1>3. PICK u \in Tokens :
        /\ u = [t EXCEPT !.account = n, !.joined = FALSE]
        /\ u.user = t.user /\ u.profile = t.profile /\ u.account = n
  <2>1. n \in 0 .. MaxAccounts
    BY <1>1, SessionBounds DEF Tokens
  <2>2. 0 \in 0 .. MaxEdits
    BY SessionBounds
  <2> QED
    BY <1>1, <2>1, <2>2, TokenWith
<1>4. Known(u)
  <2>1. \A a \in accounts : a.id # 0
    BY SessionBounds DEF IInv, TypeOK, Rows
  <2>2. 0 <= lastAccount
    BY SessionBounds DEF IInv, TypeOK
  <2> QED
    BY <1>1, <1>3, <2>1, <2>2 DEF Known, KnownIn
<1>5. r \notin crossed =>
        /\ jar.access # None /\ jar.access.user = u.user => jar.access.profile <= u.profile
        /\ jar.refresh # None =>
             u.user = jar.refresh.user /\ u.account \in {0, jar.refresh.account}
  BY <1>1, <1>3 DEF IInv, Alone, NotOlder, Renews
<1>6. UNCHANGED <<database, jar, history>>
  BY DEF RefreshAccount
<1>7. u # None
  BY NoneIsFresh
<1> QED
  BY <1>1, <1>2, <1>3, <1>4, <1>5, <1>6, <1>7, SameTables, Answers

-------------------------------------------------------------------------------
(* The browser. *)

\* A request is sent.
LEMMA Sends ==
  ASSUME IInv, NEW r \in Requests, NEW h \in Locals, Send(r, h), h.step # "idle",
         Remembers(h), Known(h.token),
         NotOlder(h, jar.access), Renews(h, jar.refresh),
         ended' = FALSE \/ (ended' = ended /\ (ended => h.kind = "logout"))
  PROVE  IInv'
<1>a. /\ handler'[r] = h /\ handler[r] = Idle
      /\ \A q \in Requests : q # r => handler'[q] = handler[q]
      /\ handler' \in [Requests -> Locals]
      /\ UNCHANGED <<jar, profile, accounts, lastAccount>>
  BY DEF Send, Busy, database, IInv, TypeOK
<1>b. /\ Busy' = Busy \cup {r} /\ r \notin Busy /\ Busy \subseteq Requests
      /\ Busy = {} => crossed' = crossed \ {r}
      /\ Busy # {} => crossed' = crossed \cup Busy \cup {r}
  <2>1. h # Idle
    BY DEF Idle
  <2>2. Busy' = Busy \cup {r}
    BY <1>a, <2>1 DEF Busy
  <2> QED
    BY <2>2 DEF Send, Busy
<1>1. TypeOK'
  BY <1>a, <1>b DEF IInv, TypeOK
<1>2. RowsInv' /\ StepsRemember'
  BY <1>a DEF IInv, RowsInv, StepsRemember
<1>3. TokensKnown'
  BY <1>a DEF IInv, TokensKnown, Known
<1>4. LoggedOut' /\ LogoutEnds'
  BY <1>a DEF IInv, LoggedOut, LogoutEnds
<1>5. Overlap'
  BY <1>b DEF IInv, Overlap
<1>6. Alone'
  BY <1>a, <1>b DEF Alone
<1> QED
  BY <1>1, <1>2, <1>3, <1>4, <1>5, <1>6 DEF IInv

LEMMA SendSteps ==
  ASSUME IInv, NEW r \in Requests,
         \/ \E i \in Identities : SendLogin(r, i)
         \/ \E i \in Identities, u \in Users : SendSignup(r, i, u)
         \/ \E u \in Users : SendCallbackSignup(r, u)
         \/ SendRefresh(r) \/ SendLogout(r)
  PROVE  IInv'
<1>1. ASSUME NEW i \in Identities, SendLogin(r, i)
      PROVE  IInv'
  <2> DEFINE h == [Idle EXCEPT !.step = "find", !.kind = "login", !.identity = i]
  <2>1. /\ h \in Locals /\ h.step = "find" /\ h.kind = "login"
        /\ h.identity = i /\ h.token = None
    BY DEF Idle, Locals
  <2>2. i # None /\ Send(r, h) /\ ended' = FALSE
    BY <1>1, NoneIsFresh DEF SendLogin
  <2> HIDE DEF h
  <2> QED
    BY <2>1, <2>2, Sends DEF Remembers, Known, KnownIn, NotOlder, Renews
<1>2. ASSUME NEW i \in Identities, NEW u \in Users,
             NEW kind \in {"signup", "callbackSignup"},
             Send(r, [Idle EXCEPT !.step = "find", !.kind = kind,
                                  !.identity = i, !.user = u]),
             ended' = FALSE
      PROVE  IInv'
  <2> DEFINE h == [Idle EXCEPT !.step = "find", !.kind = kind,
                               !.identity = i, !.user = u]
  <2>1. /\ h \in Locals /\ h.step = "find" /\ h.kind = kind
        /\ h.identity = i /\ h.user = u /\ h.token = None
    BY DEF Idle, Locals
  <2>2. i # None /\ u # None /\ Send(r, h)
    BY <1>2, NoneIsFresh
  <2> HIDE DEF h
  <2> QED
    BY <1>2, <2>1, <2>2, Sends DEF Remembers, Known, KnownIn, NotOlder, Renews
<1>3. ASSUME NEW u \in Users, SendCallbackSignup(r, u)
      PROVE  IInv'
  <2>1. jar.signup \in Identities
    BY <1>3 DEF SendCallbackSignup, IInv, TypeOK
  <2> QED
    BY <1>2, <1>3, <2>1 DEF SendCallbackSignup
<1>4. CASE SendRefresh(r)
  <2> DEFINE h == [Idle EXCEPT !.step = "findUser", !.kind = "refresh",
                               !.token = jar.refresh]
  <2>1. jar.refresh # None /\ jar.refresh \in Tokens
    BY <1>4 DEF SendRefresh, IInv, TypeOK
  <2>2. /\ h \in Locals /\ h.step = "findUser" /\ h.kind = "refresh"
        /\ h.token = jar.refresh
    BY <2>1 DEF Idle, Locals
  <2>3. Send(r, h) /\ ended' = ended /\ ~ended
    BY <1>4, <2>1 DEF SendRefresh, IInv, LogoutEnds
  <2> HIDE DEF h
  <2>4. Remembers(h) /\ Known(h.token) /\ NotOlder(h, jar.access) /\ Renews(h, jar.refresh)
    BY <2>1, <2>2 DEF Remembers, NotOlder, Renews, IInv, TokensKnown
  <2> QED
    BY <2>2, <2>3, <2>4, Sends
<1>5. CASE SendLogout(r)
  <2> DEFINE h == [Idle EXCEPT !.step = "answer", !.sets = "clear"]
  <2>1. /\ h \in Locals /\ h.step = "answer" /\ h.kind = "logout"
        /\ h.sets = "clear" /\ h.token = None
    BY DEF Idle, Locals
  <2>2. Send(r, h) /\ ended' = ended
    BY <1>5 DEF SendLogout
  <2> HIDE DEF h
  <2> QED
    BY <2>1, <2>2, Sends DEF Remembers, Known, KnownIn, NotOlder, Renews
<1> QED
  BY <1>1, <1>2, <1>3, <1>4, <1>5 DEF SendSignup

\* What the answers do to the cookies.
LEMMA ReceiveJar ==
  ASSUME IInv, NEW r \in Requests, Receive(r)
  PROVE  /\ jar' \in [access : Tokens \cup {None}, refresh : Tokens \cup {None},
                      signup : Identities \cup {None}]
         /\ jar'.access \in {jar.access, handler[r].token, None}
         /\ jar'.refresh \in {jar.refresh, handler[r].token, None}
         /\ handler[r].sets = "clear" => jar'.access = None /\ jar'.refresh = None
<1> DEFINE h == handler[r]
<1>1. /\ h \in Locals
      /\ jar \in [access : Tokens \cup {None}, refresh : Tokens \cup {None},
                  signup : Identities \cup {None}]
  BY DEF IInv, TypeOK
<1>2. h.sets \in {"nothing", "login", "signedUp", "signup", "clear"}
      /\ h.token \in Tokens \cup {None} /\ h.identity \in Identities \cup {None}
  BY <1>1 DEF Locals
<1>3. jar' = CASE h.sets = "nothing"  -> jar
               [] h.sets = "login"    -> WriteJwtCookies(jar, h.token)
               [] h.sets = "signup"   -> WriteSignupCookie(jar, h.identity)
               [] h.sets = "signedUp" -> WriteJwtCookies(DeleteSignupCookie(jar), h.token)
               [] h.sets = "clear"    -> DeleteJwtCookies(jar)
  BY DEF Receive
<1> HIDE DEF h
<1>4. CASE h.sets = "nothing"
  BY <1>1, <1>3, <1>4 DEF h
<1>5. CASE h.sets = "login"
  <2>1. jar' = WriteJwtCookies(jar, h.token)
    BY <1>3, <1>5
  <2> QED
    BY <1>1, <1>2, <1>5, <2>1 DEF h, WriteJwtCookies
<1>6. CASE h.sets = "signup"
  <2>1. jar' = WriteSignupCookie(jar, h.identity)
    BY <1>3, <1>6
  <2> QED
    BY <1>1, <1>2, <1>6, <2>1 DEF h, WriteSignupCookie
<1>7. CASE h.sets = "signedUp"
  <2>1. jar' = WriteJwtCookies(DeleteSignupCookie(jar), h.token)
    BY <1>3, <1>7
  <2> QED
    BY <1>1, <1>2, <1>7, <2>1 DEF h, WriteJwtCookies, DeleteSignupCookie
<1>8. CASE h.sets = "clear"
  <2>1. jar' = DeleteJwtCookies(jar)
    BY <1>3, <1>8
  <2> QED
    BY <1>1, <1>2, <1>8, <2>1 DEF h, DeleteJwtCookies
<1> QED
  BY <1>2, <1>4, <1>5, <1>6, <1>7, <1>8 DEF h

\* An answer arrives: of the requests left, each has crossed this one.
LEMMA ReceiveStep ==
  ASSUME IInv, NEW r \in Requests, Receive(r)
  PROVE  IInv'
<1>a. /\ handler'[r] = Idle /\ r \in Busy
      /\ \A q \in Requests : q # r => handler'[q] = handler[q]
      /\ handler' \in [Requests -> Locals]
      /\ UNCHANGED <<profile, accounts, lastAccount, crossed>>
  BY IdleRemembers DEF Receive, At, Busy, Idle, database, IInv, TypeOK
<1>b. Busy' = Busy \ {r} /\ Busy \subseteq Requests
  BY <1>a DEF Busy
<1>c. ended' = (ended \/ (handler[r].kind = "logout" /\ r \notin crossed))
  BY DEF Receive
<1>1. TypeOK'
  BY <1>a, <1>c, ReceiveJar DEF IInv, TypeOK
<1>2. RowsInv' /\ StepsRemember'
  BY <1>a, IdleRemembers DEF IInv, RowsInv, StepsRemember
<1>3. TokensKnown'
  BY <1>a, ReceiveJar DEF IInv, TokensKnown, Known, KnownIn, Idle
<1>4. Overlap' /\ Alone'
  BY <1>a, <1>b DEF IInv, Overlap, Alone
<1>5. ASSUME ended'
      PROVE  /\ jar'.access = None /\ jar'.refresh = None
             /\ \A q \in Requests : handler'[q].kind = "logout"
  <2>1. handler[r].kind = "logout"
    BY <1>5, <1>c DEF IInv, LoggedOut
  <2>2. handler[r].sets = "clear"
    BY <2>1 DEF Receive, At, IInv, StepsRemember, Remembers
  <2>3. \A q \in Requests : q # r => handler[q].kind = "logout"
    <3>1. CASE ended
      BY <3>1 DEF IInv, LoggedOut
    <3>2. CASE r \notin crossed
      BY <3>2, <1>a DEF IInv, Overlap, Busy, Idle
    <3> QED
      BY <1>5, <1>c, <3>1, <3>2
  <2> QED
    BY <1>a, <2>2, <2>3, ReceiveJar DEF Idle
<1>6. LoggedOut' /\ LogoutEnds'
  BY <1>5 DEF LoggedOut, LogoutEnds
<1> QED
  BY <1>1, <1>2, <1>3, <1>4, <1>6 DEF IInv

LEMMA LoseStep ==
  ASSUME IInv, NEW r \in Requests, Lose(r)
  PROVE  IInv'
<1>1. r \in Busy /\ handler' = [handler EXCEPT ![r] = Idle]
      /\ UNCHANGED <<database, jar, history>>
  BY DEF Lose, At, Busy, Idle
<1>2. KnownIn(Idle.token, profile', accounts', lastAccount')
  BY DEF KnownIn, Idle
<1> QED
  BY <1>1, <1>2, IdleRemembers, SameTables, Moves

LEMMA ExpireStep ==
  ASSUME IInv, NEW c \in Cookies, Expire(c)
  PROVE  IInv'
<1>a. UNCHANGED <<profile, accounts, lastAccount, handler, ended, crossed>>
  BY DEF Expire, database, history
<1>b. /\ jar' \in [access : Tokens \cup {None}, refresh : Tokens \cup {None},
                   signup : Identities \cup {None}]
      /\ jar'.access \in {jar.access, None} /\ jar'.refresh \in {jar.refresh, None}
  <2>1. jar \in [access : Tokens \cup {None}, refresh : Tokens \cup {None},
                 signup : Identities \cup {None}]
        /\ jar' = [jar EXCEPT ![c] = None]
    BY DEF Expire, IInv, TypeOK
  <2>2. CASE c = "access"
    BY <2>1, <2>2
  <2>3. CASE c = "refresh"
    BY <2>1, <2>3
  <2>4. CASE c = "signup"
    BY <2>1, <2>4
  <2> QED
    BY <2>2, <2>3, <2>4 DEF Cookies
<1>1. TypeOK' /\ RowsInv' /\ StepsRemember' /\ LoggedOut' /\ Overlap'
  BY <1>a, <1>b DEF IInv, TypeOK, RowsInv, StepsRemember, LoggedOut, Overlap, Busy
<1>2. TokensKnown' /\ LogoutEnds'
  BY <1>a, <1>b DEF IInv, TokensKnown, Known, KnownIn, LogoutEnds
<1>3. Alone'
  BY <1>a, <1>b DEF IInv, Alone, NotOlder, Renews, Busy
<1> QED
  BY <1>1, <1>2, <1>3 DEF IInv

\* Requests that leave the browser alone.
LEMMA Elsewhere ==
  ASSUME IInv, UNCHANGED <<jar, handler, history>>,
         profile' \in [Users -> (0 .. MaxEdits) \cup {None}],
         accounts' \subseteq Rows, lastAccount' \in 0 .. MaxAccounts, RowsInv',
         \A t \in Tokens : Known(t) => KnownIn(t, profile', accounts', lastAccount')
  PROVE  IInv'
<1>a. UNCHANGED <<jar, handler, ended, crossed>>
  BY DEF history
<1>1. TypeOK'
  BY <1>a DEF IInv, TypeOK
<1>2. TokensKnown'
  <2>1. /\ \A r \in Requests : handler[r].token \in Tokens \cup {None}
        /\ jar.access \in Tokens \cup {None} /\ jar.refresh \in Tokens \cup {None}
    BY DEF IInv, TypeOK, Locals
  <2>2. \A t \in Tokens \cup {None} :
           Known(t) => KnownIn(t, profile', accounts', lastAccount')
    BY DEF KnownIn
  <2>3. KnownIn(jar.access, profile', accounts', lastAccount')
        /\ KnownIn(jar.refresh, profile', accounts', lastAccount')
    BY <2>1, <2>2 DEF IInv, TokensKnown
  <2>4. \A r \in Requests : KnownIn(handler[r].token, profile', accounts', lastAccount')
    BY <2>1, <2>2 DEF IInv, TokensKnown
  <2> QED
    BY <1>a, <2>3, <2>4 DEF TokensKnown, Known
<1>3. StepsRemember' /\ LoggedOut' /\ LogoutEnds' /\ Overlap'
  BY <1>a DEF IInv, StepsRemember, LoggedOut, LogoutEnds, Overlap, Busy
<1>4. Alone'
  BY <1>a DEF IInv, Alone, Busy
<1> QED
  BY <1>1, <1>2, <1>3, <1>4 DEF IInv

LEMMA ElsewhereSteps ==
  ASSUME IInv,
         \/ \E u \in Users : Edit(u)
         \/ \E u \in Users, i \in Identities : Bind(u, i)
         \/ \E a \in accounts : Unbind(a)
  PROVE  IInv'
<1>1. ASSUME NEW u \in Users, Edit(u)
      PROVE  IInv'
  <2>1. /\ profile[u] \in Nat /\ profile[u] + 1 \in 0 .. MaxEdits
        /\ profile' = [profile EXCEPT ![u] = profile[u] + 1]
        /\ UNCHANGED <<accounts, lastAccount>>
    BY <1>1, SessionBounds DEF Edit, IInv, TypeOK
  <2>2. profile' \in [Users -> (0 .. MaxEdits) \cup {None}]
    BY <2>1 DEF IInv, TypeOK
  <2>3. \A v \in Users : profile[v] # None =>
          profile'[v] # None /\ profile[v] \in Nat /\ profile'[v] \in Nat
          /\ profile[v] <= profile'[v]
    BY <2>1, SessionBounds, NoneIsFresh DEF IInv, TypeOK
  <2>4. RowsInv'
    <3>1. \A a \in accounts : a.user \in Users
      BY DEF IInv, TypeOK, Rows
    <3> QED
      BY <2>1, <2>3, <3>1 DEF IInv, RowsInv
  <2>5. ASSUME NEW t \in Tokens, Known(t)
        PROVE  KnownIn(t, profile', accounts', lastAccount')
    <3>1. t.user \in Users /\ t.profile \in Nat
      BY SessionBounds DEF Tokens
    <3> QED
      BY <2>1, <2>3, <2>5, <3>1 DEF Known, KnownIn
  <2>6. UNCHANGED <<jar, handler, history>>
    BY <1>1 DEF Edit
  <2> QED
    BY <2>1, <2>2, <2>4, <2>5, <2>6, Elsewhere DEF IInv, TypeOK
<1>2. ASSUME NEW u \in Users, NEW i \in Identities, Bind(u, i)
      PROVE  IInv'
  BY <1>2, NewAccount, Elsewhere DEF Bind
<1>3. ASSUME NEW a \in accounts, Unbind(a)
      PROVE  IInv'
  <2>1. UNCHANGED <<profile, lastAccount, jar, handler, history>>
        /\ accounts' \subseteq accounts
    BY <1>3 DEF Unbind
  <2>2. RowsInv'
    BY <2>1 DEF IInv, RowsInv
  <2>3. \A t \in Tokens : Known(t) => KnownIn(t, profile', accounts', lastAccount')
    BY <2>1 DEF Known, KnownIn
  <2> QED
    BY <2>1, <2>2, <2>3, Elsewhere DEF IInv, TypeOK
<1> QED
  BY <1>1, <1>2, <1>3

LEMMA IInvNext == IInv /\ [Next]_vars => IInv'
<1> SUFFICES ASSUME IInv, [Next]_vars PROVE IInv'
  OBVIOUS
<1>1. CASE UNCHANGED vars
  <2>1. UNCHANGED <<database, jar, handler, history>>
    BY <1>1 DEF vars
  <2> QED
    BY <2>1, SameTables, Elsewhere
<1>2. ASSUME NEW r \in Requests,
             \/ \E i \in Identities : SendLogin(r, i)
             \/ \E i \in Identities, u \in Users : SendSignup(r, i, u)
             \/ \E u \in Users : SendCallbackSignup(r, u)
             \/ SendRefresh(r) \/ SendLogout(r)
      PROVE  IInv'
  BY <1>2, SendSteps
<1>3. ASSUME NEW r \in Requests, Login(r) \/ Signup(r)
      PROVE  IInv'
  BY <1>3, LoginStep, SignupStep
<1>4. ASSUME NEW r \in Requests, RefreshUser(r) \/ RefreshAccount(r)
      PROVE  IInv'
  BY <1>4, RefreshUserStep, RefreshAccountStep
<1>5. ASSUME NEW r \in Requests, Receive(r) \/ Lose(r)
      PROVE  IInv'
  BY <1>5, ReceiveStep, LoseStep
<1>6. ASSUME NEW c \in Cookies, Expire(c)
      PROVE  IInv'
  BY <1>6, ExpireStep
<1> QED
  BY <1>1, <1>2, <1>3, <1>4, <1>5, <1>6, ElsewhereSteps DEF Next

\* The inductive invariant holds, and with it the types.
THEOREM InvariantHolds == Spec => []IInv
BY IInvInit, IInvNext, PTL DEF Spec

-------------------------------------------------------------------------------
\* After the answer to a logout that crossed nothing the browser is signed out
\* until a login is asked for, whatever is sent meanwhile.
THEOREM SignedOut == Spec => []LogoutEnds
<1>1. IInv => LogoutEnds
  BY DEF IInv
<1> QED
  BY <1>1, InvariantHolds, PTL

\* No token names an account of somebody else, however it was copied from token
\* to token while accounts came and went.
THEOREM OwnersNamed == Spec => []TokenNamesOwner
<1>1. IInv => TokenNamesOwner
  BY DEF IInv, TokensKnown, Known, KnownIn, TokenNamesOwner
<1> QED
  BY <1>1, InvariantHolds, PTL

\* A step that changes the session does so with the answer of a request, or by
\* expiry.
LEMMA JarSteps ==
  ASSUME IInv, [Next]_vars, jar' # jar
  PROVE  \/ \E r \in Requests : Receive(r)
         \/ /\ handler' = handler
            /\ jar'.access \in {jar.access, None} /\ jar'.refresh \in {jar.refresh, None}
<1>1. CASE \E r \in Requests : Receive(r)
  BY <1>1
<1>2. ASSUME NEW c \in Cookies, Expire(c)
      PROVE  /\ handler' = handler
             /\ jar'.access \in {jar.access, None}
             /\ jar'.refresh \in {jar.refresh, None}
  BY <1>2 DEF Expire, IInv, TypeOK, Cookies
<1>3. ASSUME NEW r \in Requests,
             \/ \E i \in Identities : SendLogin(r, i)
             \/ \E i \in Identities, u \in Users : SendSignup(r, i, u)
             \/ \E u \in Users : SendCallbackSignup(r, u)
             \/ SendRefresh(r) \/ SendLogout(r)
             \/ Login(r) \/ Signup(r)
             \/ RefreshUser(r) \/ RefreshAccount(r) \/ Lose(r)
      PROVE  FALSE
  BY <1>3 DEF SendLogin, SendSignup, SendCallbackSignup, SendRefresh, SendLogout, Send,
              Login, Signup, LoginKnown, RefreshUser, RefreshAccount, Lose
<1>4. ~ \E u \in Users : Edit(u) \/ \E i \in Identities : Bind(u, i)
  BY DEF Edit, Bind
<1>5. ~ \E a \in accounts : Unbind(a)
  BY DEF Unbind
<1>6. ~ UNCHANGED vars
  BY DEF vars
<1> QED
  BY <1>1, <1>2, <1>3, <1>4, <1>5, <1>6 DEF Next

\* A refresh that crossed nothing renews the session that it was sent by.
THEOREM RefreshRenews == Spec => RefreshKeepsSession
<1>1. ASSUME IInv, [Next]_vars, NEW r \in Requests,
             At(r, "answer"), handler[r].kind = "refresh", jar' # jar,
             handler'[r] = Idle, jar.refresh # None, r \notin crossed
      PROVE  /\ jar'.refresh.user = jar.refresh.user
             /\ jar'.refresh.account \in {0, jar.refresh.account}
  <2>1. Receive(r)
    <3>1. handler[r] # Idle
      BY <1>1 DEF At, Idle
    <3>2. PICK q \in Requests : Receive(q)
      BY <1>1, <3>1, JarSteps
    <3>3. q # r => handler'[r] = handler[r]
      BY <3>2 DEF Receive, IInv, TypeOK
    <3> QED
      BY <1>1, <3>1, <3>2, <3>3
  <2>2. handler[r].sets = "login" /\ handler[r].token # None
    BY <1>1 DEF At, IInv, StepsRemember, Remembers
  <2>3. jar'.refresh = handler[r].token
    <3>1. jar' = WriteJwtCookies(jar, handler[r].token)
      BY <2>1, <2>2 DEF Receive
    <3> QED
      BY <1>1, <3>1 DEF WriteJwtCookies, IInv, TypeOK
  <2>4. Renews(handler[r], jar.refresh)
    BY <1>1 DEF IInv, Alone, Busy, At, Idle
  <2> QED
    BY <1>1, <2>3, <2>4 DEF Renews
<1>2. IInv /\ [Next]_vars =>
        [\A r \in Requests :
           At(r, "answer") /\ handler[r].kind = "refresh" /\ jar' # jar
             /\ handler'[r] = Idle /\ jar.refresh # None /\ r \notin crossed
             => /\ jar'.refresh.user = jar.refresh.user
                /\ jar'.refresh.account \in {0, jar.refresh.account}]_vars
  BY <1>1
<1> QED
  BY <1>2, InvariantHolds, PTL DEF Spec, RefreshKeepsSession

\* The profile in the browser's token never gets older while its user stays
\* signed in, unless answers crossed.
THEOREM ProfileNotOlder == Spec => ProfileForward
<1>1. ASSUME IInv, [Next]_vars, jar.access # None, jar'.access # None,
             jar'.access.user = jar.access.user
      PROVE  \/ jar'.access.profile >= jar.access.profile
             \/ \E r \in crossed : handler[r].step = "answer" /\ handler'[r] = Idle
  <2>1. jar.access \in Tokens /\ jar.access.profile \in Nat
    BY <1>1, SessionBounds DEF IInv, TypeOK, Tokens
  <2>2. CASE jar'.access = jar.access
    BY <2>1, <2>2
  <2>3. CASE jar'.access # jar.access
    <3>1. PICK r \in Requests : Receive(r)
      BY <1>1, <2>3, JarSteps
    <3>2. handler[r].step = "answer" /\ handler'[r] = Idle /\ r \in Busy
      <4>1. handler[r].step = "answer" /\ handler' = [handler EXCEPT ![r] = Idle]
        BY <3>1 DEF Receive, At
      <4>2. handler[r] # Idle
        BY <4>1 DEF Idle
      <4> QED
        BY <1>1, <4>1, <4>2 DEF Busy, IInv, TypeOK
    <3>3. jar'.access = handler[r].token
      BY <1>1, <2>3, <3>1, ReceiveJar
    <3>4. handler[r].token \in Tokens /\ handler[r].token.profile \in Nat
      BY <1>1, <3>3, SessionBounds DEF IInv, TypeOK, Locals, Tokens
    <3>5. r \notin crossed => jar.access.profile <= handler[r].token.profile
      BY <1>1, <3>2, <3>3 DEF IInv, Alone, NotOlder
    <3> QED
      BY <2>1, <3>2, <3>3, <3>4, <3>5
  <2> QED
    BY <2>2, <2>3
<1>2. IInv /\ [Next]_vars =>
        [jar.access # None /\ jar'.access # None
           /\ jar'.access.user = jar.access.user
           => \/ jar'.access.profile >= jar.access.profile
              \/ \E r \in crossed : handler[r].step = "answer" /\ handler'[r] = Idle]_vars
  BY <1>1
<1> QED
  BY <1>2, InvariantHolds, PTL DEF Spec, ProfileForward

-----------------------------------------------------------------------------
(* GamesListing. *)

\* The order of a query is a strict total order of the games.
Ordered(q, games) ==
  /\ IsFiniteSet(games)
  /\ \A g \in games : ~Before(q, g, g)
  /\ \A g, h \in games : g = h \/ Before(q, g, h) \/ Before(q, h, g)
  /\ \A f, g, h \in games : Before(q, f, g) /\ Before(q, g, h) => Before(q, f, h)

\* A game that comes before another has a lower rank.
LEMMA RankGrows ==
  ASSUME NEW q, NEW games, Ordered(q, games), NEW g \in games, NEW h \in games,
         Before(q, g, h)
  PROVE  /\ Rank(q, games, g) \in Nat
         /\ Rank(q, games, h) \in Nat
         /\ Rank(q, games, g) < Rank(q, games, h)
<1> DEFINE G == {x \in games : Before(q, x, g)}
           H == {x \in games : Before(q, x, h)}
<1>1. IsFiniteSet(G) /\ IsFiniteSet(H)
  <2>1. IsFiniteSet(games)
    BY DEF Ordered
  <2>2. G \in SUBSET games /\ H \in SUBSET games
    OBVIOUS
  <2> QED
    BY <2>1, <2>2, FS_Subset
<1>2. Cardinality(G) \in Nat /\ Cardinality(H) \in Nat
  BY <1>1, FS_CardinalityType
<1>3. g \notin G
  BY DEF Ordered
<1>4. IsFiniteSet(G \cup {g}) /\ Cardinality(G \cup {g}) = Cardinality(G) + 1
  <2> HIDE DEF G
  <2> QED
    BY <1>1, <1>3, FS_AddElement
<1>5. G \cup {g} \in SUBSET H
  BY DEF Ordered
<1>6. Cardinality(G \cup {g}) <= Cardinality(H)
  <2> HIDE DEF G, H
  <2> QED
    BY <1>1, <1>5, FS_Subset
<1>7. Rank(q, games, g) = Cardinality(G) /\ Rank(q, games, h) = Cardinality(H)
  BY DEF Rank
<1> HIDE DEF G, H
<1> QED
  BY <1>2, <1>4, <1>6, <1>7

\* Ranks are less than the number of games.
LEMMA RankBound ==
  ASSUME NEW q, NEW games, Ordered(q, games), NEW g \in games
  PROVE  /\ Cardinality(games) \in Nat
         /\ Rank(q, games, g) \in 0 .. Cardinality(games) - 1
<1> DEFINE G == {x \in games : Before(q, x, g)}
<1>1. IsFiniteSet(games)
  BY DEF Ordered
<1>2. Cardinality(games) \in Nat
  BY <1>1, FS_CardinalityType
<1>3. /\ IsFiniteSet(games \ {g})
      /\ Cardinality(games \ {g}) = Cardinality(games) - 1
  BY <1>1, FS_RemoveElement
<1>4. G \in SUBSET (games \ {g})
  BY DEF Ordered
<1>5. Rank(q, games, g) = Cardinality(G)
  BY DEF Rank
<1> HIDE DEF G
<1>6. IsFiniteSet(G) /\ Cardinality(G) <= Cardinality(games \ {g})
  BY <1>3, <1>4, FS_Subset
<1>7. Cardinality(G) \in Nat
  BY <1>6, FS_CardinalityType
<1> QED
  BY <1>2, <1>3, <1>5, <1>6, <1>7

\* Ranks decide the order.
LEMMA RankDecides ==
  ASSUME NEW q, NEW games, Ordered(q, games), NEW g \in games, NEW h \in games
  PROVE  /\ Before(q, g, h) <=> Rank(q, games, g) < Rank(q, games, h)
         /\ g = h <=> Rank(q, games, g) = Rank(q, games, h)
<1>1. Rank(q, games, g) \in Nat /\ Rank(q, games, h) \in Nat
  BY RankBound
<1>2. Before(q, g, h) => Rank(q, games, g) < Rank(q, games, h)
  BY RankGrows
<1>3. Before(q, h, g) => Rank(q, games, h) < Rank(q, games, g)
  BY RankGrows
<1>4. g = h \/ Before(q, g, h) \/ Before(q, h, g)
  BY DEF Ordered
<1> QED
  BY <1>1, <1>2, <1>3, <1>4

\* Every rank below the number of games is that of a game.
LEMMA RankTaken ==
  ASSUME NEW q, NEW games, Ordered(q, games),
         NEW i \in 0 .. Cardinality(games) - 1
  PROVE  \E g \in games : Rank(q, games, g) = i
<1> DEFINE n == Cardinality(games)
           rank == [g \in games |-> Rank(q, games, g)]
<1>1. IsFiniteSet(games) /\ n \in Nat
  <2>1. IsFiniteSet(games)
    BY DEF Ordered
  <2> QED
    BY <2>1, FS_CardinalityType
<1>2. IsFiniteSet(0 .. n - 1) /\ Cardinality(0 .. n - 1) = n
  <2>1. n - 1 \in Int
    BY <1>1
  <2> HIDE DEF n
  <2>2. /\ IsFiniteSet(0 .. n - 1)
        /\ Cardinality(0 .. n - 1) = IF 0 > n - 1 THEN 0 ELSE n - 1 - 0 + 1
    BY <2>1, FS_Interval
  <2>3. n - 1 - 0 + 1 = n /\ (0 > n - 1 => n = 0)
    BY <1>1 DEF n
  <2> QED
    BY <2>2, <2>3
<1>3. rank \in Injection(games, 0 .. n - 1)
  <2>1. \A g \in games : Rank(q, games, g) \in 0 .. n - 1
    BY RankBound
  <2>2. \A g, h \in games : Rank(q, games, g) = Rank(q, games, h) => g = h
    BY RankDecides
  <2> QED
    BY <2>1, <2>2 DEF Injection, IsInjective
<1>4. rank \in Surjection(games, 0 .. n - 1)
  BY <1>1, <1>2, <1>3, FS_Injection
<1> QED
  BY <1>4 DEF Surjection

\* Sorted puts the game of rank i at i + 1.
LEMMA SortedByRank ==
  ASSUME NEW q, NEW games, Ordered(q, games)
  PROVE  LET s == Sorted(q, games) IN
           /\ Cardinality(games) \in Nat
           /\ s \in [1 .. Cardinality(games) -> games]
           /\ \A i \in 1 .. Cardinality(games) : Rank(q, games, s[i]) = i - 1
           /\ \A g \in games : s[Rank(q, games, g) + 1] = g
<1> DEFINE s == Sorted(q, games)
           n == Cardinality(games)
<1>1. n \in Nat
  BY FS_CardinalityType DEF Ordered
<1>2. ASSUME NEW i \in 1 .. n
      PROVE  /\ s[i] \in games
             /\ Rank(q, games, s[i]) = i - 1
  <2>1. i - 1 \in 0 .. n - 1
    BY <1>1
  <2>2. \E g \in games : Rank(q, games, g) = i - 1
    BY <2>1, RankTaken
  <2>3. s[i] = CHOOSE g \in games : Rank(q, games, g) = i - 1
    BY DEF Sorted
  <2> HIDE DEF s
  <2> QED
    BY <2>2, <2>3
<1>3. s \in [1 .. n -> games]
  <2>1. s = [i \in 1 .. n |-> s[i]]
    BY DEF Sorted
  <2> HIDE DEF s
  <2> QED
    BY <1>2, <2>1
<1>4. ASSUME NEW g \in games
      PROVE  s[Rank(q, games, g) + 1] = g
  <2>1. Rank(q, games, g) \in 0 .. n - 1
    BY RankBound
  <2> DEFINE k == Rank(q, games, g) + 1
  <2>2. k \in 1 .. n /\ k - 1 = Rank(q, games, g)
    BY <1>1, <2>1
  <2> HIDE DEF s, n, k
  <2>3. s[k] \in games /\ Rank(q, games, s[k]) = Rank(q, games, g)
    BY <1>2, <2>2
  <2>4. s[k] = g
    BY <2>3, RankDecides
  <2> QED
    BY <2>4 DEF k
<1> HIDE DEF s, n
<1>5. QED
  BY <1>1, <1>2, <1>3, <1>4 DEF s, n

\* A page shows the games whose ranks lie between its bounds, in their order.
LEMMA PageShows ==
  ASSUME NEW q, NEW p \in Nat, Ordered(q, Listed(q))
  PROVE  LET page == Page(q, p + 1)
             games == Listed(q)
         IN /\ page.data \in Seq(games)
            /\ page.more \in BOOLEAN
            /\ ~page.more => Cardinality(games) <= (p + 1) * Limit
            /\ \A i \in 1 .. Len(page.data) :
                 /\ Rank(q, games, page.data[i]) = p * Limit + i - 1
                 /\ Rank(q, games, page.data[i]) < (p + 1) * Limit
            /\ \A g \in games :
                 p * Limit <= Rank(q, games, g) /\ Rank(q, games, g) < (p + 1) * Limit =>
                   /\ Rank(q, games, g) - p * Limit + 1 \in 1 .. Len(page.data)
                   /\ page.data[Rank(q, games, g) - p * Limit + 1] = g
<1> DEFINE games == Listed(q)
           all == Sorted(q, games)
           n == Cardinality(games)
           end == (p + 1) * Limit
           start == p * Limit
           last == IF end < n THEN end ELSE n
           data == SubSeq(all, start + 1, last)
<1>1. /\ n \in Nat
      /\ all \in [1 .. n -> games]
      /\ \A i \in 1 .. n : Rank(q, games, all[i]) = i - 1
      /\ \A g \in games : all[Rank(q, games, g) + 1] = g
  BY SortedByRank
<1>2. start \in Nat /\ end \in Nat /\ end = start + Limit /\ (p + 1 - 1) * Limit = start
  BY PageSize
<1>3. Len(all) = n
  BY <1>1
<1>4. Page(q, p + 1) = [data |-> data, more |-> end < n]
  <2>1. ASSUME NEW k
        PROVE  Page(q, k) = [data |-> SubSeq(all, (k - 1) * Limit + 1,
                                IF k * Limit < Len(all) THEN k * Limit ELSE Len(all)),
                             more |-> k * Limit < Len(all)]
    BY DEF Page
  <2> DEFINE k == p + 1
  <2>2. (k - 1) * Limit = start /\ k * Limit = end
    BY <1>2
  <2> HIDE DEF all, n, games, start, end, k
  <2>3. Page(q, k) = [data |-> data, more |-> end < n]
    BY <1>3, <2>1, <2>2
  <2> QED
    BY <2>3 DEF k
<1>5. \A g \in games : Rank(q, games, g) \in 0 .. n - 1
  BY RankBound
<1> HIDE DEF games, all, n, end, start
<1>6. last \in Int /\ last <= end /\ last <= n /\ start + 1 \in Int
  BY <1>1, <1>2
<1>7. \A i \in start + 1 .. last : all[i] \in games
  BY <1>1, <1>2, <1>6
<1>8. /\ data \in Seq(games)
      /\ Len(data) = IF start + 1 <= last THEN last - (start + 1) + 1 ELSE 0
      /\ \A i \in 1 .. last - (start + 1) + 1 : data[i] = all[start + 1 + i - 1]
  <2> HIDE DEF last
  <2> QED
    BY <1>6, <1>7, SubSeqProperties
<1>9. ASSUME NEW i \in 1 .. Len(data)
      PROVE  Rank(q, games, data[i]) = start + i - 1 /\ Rank(q, games, data[i]) < end
  <2>1. data[i] = all[start + i] /\ start + i \in 1 .. n /\ start + i <= end
    <3> HIDE DEF data, last
    <3>1. start + 1 <= last
      BY <1>8
    <3>2. Len(data) = last - start
      BY <1>2, <1>6, <1>8, <3>1
    <3>3. i \in 1 .. last - (start + 1) + 1 /\ start + 1 + i - 1 = start + i
      BY <1>2, <1>6, <3>2
    <3>4. data[i] = all[start + 1 + i - 1]
      BY <1>8, <3>3
    <3> QED
      BY <1>1, <1>2, <1>6, <3>2, <3>3, <3>4
  <2> HIDE DEF data
  <2> QED
    BY <1>1, <1>2, <2>1
<1>10. ASSUME NEW g \in games, start <= Rank(q, games, g), Rank(q, games, g) < end
       PROVE  /\ Rank(q, games, g) - start + 1 \in 1 .. Len(data)
              /\ data[Rank(q, games, g) - start + 1] = g
  <2> DEFINE k == Rank(q, games, g)
  <2>1. k \in 0 .. n - 1 /\ all[k + 1] = g
    BY <1>1, <1>5
  <2> HIDE DEF k
  <2>2. start <= k /\ k < end
    BY <1>10 DEF k
  <2>3. k + 1 <= last
    BY <1>1, <1>2, <2>1, <2>2
  <2> HIDE DEF data, last
  <2>4. k - start + 1 \in 1 .. Len(data) /\ data[k - start + 1] = all[k + 1]
    BY <1>2, <1>6, <1>8, <2>1, <2>2, <2>3
  <2> QED
    BY <2>1, <2>4 DEF k
<1> HIDE DEF data, last
<1>11. Page(q, p + 1).data = data /\ Page(q, p + 1).more = (end < n)
  BY <1>4
<1>12. ~(end < n) => n <= end
  BY <1>1, <1>2
<1> DEFINE page == Page(q, p + 1)
<1> HIDE DEF page
<1>13. page.data \in Seq(games)
  BY <1>8, <1>11 DEF page
<1>14. ~page.more => n <= end
  BY <1>11, <1>12 DEF page
<1>15. \A i \in 1 .. Len(page.data) :
         /\ Rank(q, games, page.data[i]) = start + i - 1
         /\ Rank(q, games, page.data[i]) < end
  BY <1>9, <1>11 DEF page
<1>16. \A g \in games :
         start <= Rank(q, games, g) /\ Rank(q, games, g) < end =>
           /\ Rank(q, games, g) - start + 1 \in 1 .. Len(page.data)
           /\ page.data[Rank(q, games, g) - start + 1] = g
  BY <1>10, <1>11 DEF page
<1>17. page.more \in BOOLEAN
  <2>1. (end < n) \in BOOLEAN
    BY <1>1, <1>2
  <2>2. page.more = (end < n)
    BY <1>11 DEF page
  <2> DEFINE b == (end < n)
  <2>3. b \in BOOLEAN /\ page.more = b
    BY <2>1, <2>2
  <2> HIDE DEF b
  <2> QED
    BY <2>3
<1> QED
  BY <1>13, <1>14, <1>15, <1>16, <1>17 DEF games, n, end, start, page

\* What a client at page p was shown: each game that was listed all the time once
\* the pages reach its rank, and none of them too late.
Walked(q, kept, p, shown) ==
  /\ \A i \in DOMAIN shown : shown[i] \in Listed(q)
  /\ \A g \in kept : Rank(q, Listed(q), g) < p * Limit => g \in Range(shown)
  /\ \A j \in DOMAIN shown : \A g \in kept :
       Before(q, g, shown[j]) => \E i \in 1 .. j - 1 : shown[i] = g
  /\ q.order = "ASC" =>
       /\ \A j \in DOMAIN shown : Rank(q, Listed(q), shown[j]) < p * Limit
       /\ \A i, j \in DOMAIN shown : i < j => Before(q, shown[i], shown[j])

\* What was shown, and the next page behind it, is again as it should be; behind
\* the last page nothing is missing.
LEMMA PageWalked ==
  ASSUME NEW q, NEW p \in Nat, NEW shown \in Seq(Listed(q)), NEW kept,
         Ordered(q, Listed(q)), kept \subseteq Listed(q),
         Walked(q, kept, p, shown)
  PROVE  LET page == Page(q, p + 1) IN
           /\ shown \o page.data \in Seq(Listed(q))
           /\ Walked(q, kept, p + 1, shown \o page.data)
           /\ ~page.more => kept \subseteq Range(shown \o page.data)
<1> DEFINE games == Listed(q)
           data == Page(q, p + 1).data
           more == Page(q, p + 1).more
           both == shown \o data
           R(g) == Rank(q, games, g)
           start == p * Limit
           end == (p + 1) * Limit
<1>1. /\ data \in Seq(games)
      /\ ~more => Cardinality(games) <= end
      /\ \A i \in 1 .. Len(data) : R(data[i]) = start + i - 1 /\ R(data[i]) < end
      /\ \A g \in games : start <= R(g) /\ R(g) < end =>
           R(g) - start + 1 \in 1 .. Len(data) /\ data[R(g) - start + 1] = g
  BY PageShows
<1>2. start \in Nat /\ end \in Nat /\ end = start + Limit /\ start < end
  BY PageSize
<1>3. /\ Cardinality(games) \in Nat
      /\ \A g \in games : R(g) \in 0 .. Cardinality(games) - 1
  <2>1. Cardinality(games) \in Nat
    BY FS_CardinalityType DEF Ordered
  <2> QED
    BY <2>1, RankBound
<1>4. \A g, h \in games : Before(q, g, h) <=> R(g) < R(h)
  BY RankDecides
<1>5. /\ \A i \in DOMAIN shown : shown[i] \in games
      /\ \A g \in kept : R(g) < start => g \in Range(shown)
      /\ \A j \in DOMAIN shown : \A g \in kept :
           Before(q, g, shown[j]) => \E i \in 1 .. j - 1 : shown[i] = g
      /\ q.order = "ASC" =>
           /\ \A j \in DOMAIN shown : R(shown[j]) < start
           /\ \A i, j \in DOMAIN shown : i < j => Before(q, shown[i], shown[j])
  BY DEF Walked
<1>6. kept \subseteq games /\ shown \in Seq(games)
  OBVIOUS
<1> HIDE DEF games, data, more, R, start, end
<1>7. /\ both \in Seq(games) /\ Len(both) = Len(shown) + Len(data)
      /\ Len(shown) \in Nat /\ Len(data) \in Nat
      /\ DOMAIN both = 1 .. Len(shown) + Len(data) /\ DOMAIN shown = 1 .. Len(shown)
      /\ \A i \in 1 .. Len(shown) : both[i] = shown[i]
      /\ \A i \in 1 .. Len(data) : both[Len(shown) + i] = data[i]
      /\ \A i \in DOMAIN both : i <= Len(shown) \/ i - Len(shown) \in 1 .. Len(data)
  BY <1>1, <1>6, ConcatProperties, LenProperties
<1>8. \A i \in 1 .. Len(data) : data[i] \in games
  BY <1>1
<1> HIDE DEF both
<1>9. ASSUME NEW g \in kept, R(g) < end
      PROVE  g \in Range(both)
  <2>1. CASE R(g) < start
    <3>1. PICK i \in DOMAIN shown : shown[i] = g
      BY <1>5, <2>1 DEF Range
    <3> QED
      BY <1>7, <3>1 DEF Range
  <2>2. CASE ~(R(g) < start)
    <3>1. R(g) - start + 1 \in 1 .. Len(data) /\ data[R(g) - start + 1] = g
      BY <1>1, <1>2, <1>3, <1>6, <1>9, <2>2
    <3>2. both[Len(shown) + (R(g) - start + 1)] = g
      BY <1>7, <3>1
    <3>3. Len(shown) + (R(g) - start + 1) \in DOMAIN both
      BY <1>7, <3>1
    <3> QED
      BY <3>2, <3>3 DEF Range
  <2> QED
    BY <2>1, <2>2
<1>10. ASSUME NEW j \in DOMAIN both, NEW g \in kept, Before(q, g, both[j])
       PROVE  \E i \in 1 .. j - 1 : both[i] = g
  <2>1. CASE j <= Len(shown)
    <3>1. j \in DOMAIN shown /\ both[j] = shown[j]
      BY <1>7, <2>1
    <3>2. PICK i \in 1 .. j - 1 : shown[i] = g
      BY <1>5, <1>10, <3>1
    <3>3. both[i] = g
      BY <1>7, <2>1, <3>2
    <3> QED
      BY <3>3
  <2>2. CASE ~(j <= Len(shown))
    <3> DEFINE k == j - Len(shown)
    <3>1. k \in 1 .. Len(data) /\ j = Len(shown) + k /\ both[j] = data[k]
      BY <1>7, <2>2
    <3> HIDE DEF k
    <3>2. R(g) < R(data[k]) /\ R(data[k]) = start + k - 1 /\ R(data[k]) < end
      BY <1>1, <1>4, <1>6, <1>8, <1>10, <3>1
    <3>3. R(g) \in Nat
      BY <1>3, <1>6
    <3>4. CASE R(g) < start
      <4>1. PICK i \in DOMAIN shown : shown[i] = g
        BY <1>5, <3>4 DEF Range
      <4>2. both[i] = g /\ i \in 1 .. j - 1
        BY <1>7, <3>1, <4>1
      <4> QED
        BY <4>2
    <3>5. CASE ~(R(g) < start)
      <4> DEFINE l == R(g) - start + 1
      <4>1. l \in 1 .. Len(data) /\ data[l] = g
        <5>1. start \in Nat /\ end \in Nat /\ k \in Nat
          BY <1>2, <1>7, <3>1
        <5> DEFINE rg == R(g)
                   rk == R(data[k])
        <5>2. rg \in Nat /\ rg < rk /\ rk = start + k - 1 /\ rk < end /\ ~(rg < start)
          BY <3>2, <3>3, <3>5
        <5> HIDE DEF rg, rk
        <5>3. rg < end /\ start <= rg
          BY <5>1, <5>2
        <5>4. R(g) < end /\ start <= R(g)
          BY <5>3 DEF rg
        <5> QED
          BY <1>1, <1>6, <5>4
      <4>2. l < k /\ l \in Nat
        BY <1>2, <3>1, <3>2, <3>3, <3>5
      <4> HIDE DEF l
      <4>3. both[Len(shown) + l] = g /\ Len(shown) + l \in 1 .. j - 1
        BY <1>7, <3>1, <4>1, <4>2
      <4> QED
        BY <4>3
    <3> QED
      BY <3>4, <3>5
  <2> QED
    BY <2>1, <2>2
<1>11. \A i \in DOMAIN both : both[i] \in games
  BY <1>7
<1>12. ASSUME q.order = "ASC"
       PROVE  /\ \A j \in DOMAIN both : R(both[j]) < end
              /\ \A i, j \in DOMAIN both : i < j => Before(q, both[i], both[j])
  <2>1. ASSUME NEW i \in DOMAIN both
        PROVE  \/ /\ i \in DOMAIN shown
                  /\ both[i] = shown[i]
                  /\ R(both[i]) < start
               \/ /\ i - Len(shown) \in 1 .. Len(data)
                  /\ both[i] = data[i - Len(shown)]
                  /\ R(both[i]) = start + (i - Len(shown)) - 1
                  /\ R(both[i]) < end
    BY <1>1, <1>5, <1>7, <1>12
  <2>2. \A i \in DOMAIN both : R(both[i]) \in Nat
    BY <1>3, <1>11
  <2>3. \A j \in DOMAIN both : R(both[j]) < end
    BY <1>2, <2>1, <2>2
  <2>4. ASSUME NEW i \in DOMAIN both, NEW j \in DOMAIN both, i < j
        PROVE  Before(q, both[i], both[j])
    <3>1. CASE j <= Len(shown)
      <4>1. i \in DOMAIN shown /\ j \in DOMAIN shown /\ both[i] = shown[i] /\ both[j] = shown[j]
        BY <1>7, <2>4, <3>1
      <4> QED
        BY <1>5, <1>12, <2>4, <4>1
    <3>2. CASE ~(j <= Len(shown))
      <4>1. R(both[j]) = start + (j - Len(shown)) - 1 /\ j - Len(shown) \in 1 .. Len(data)
        BY <1>7, <2>1, <3>2
      <4>2. R(both[i]) < R(both[j])
        <5> DEFINE ri == R(both[i])
                   rj == R(both[j])
        <5>1. /\ ri \in Nat /\ start \in Nat /\ Len(shown) \in Nat
              /\ Len(data) \in Nat /\ i \in Nat /\ j \in Nat
          BY <1>2, <1>7, <2>2
        <5>2. rj = start + (j - Len(shown)) - 1
          BY <4>1
        <5> HIDE DEF ri, rj
        <5>3. CASE R(both[i]) < start
          <6>1. ri < start
            BY <5>3 DEF ri
          <6>2. j - Len(shown) >= 1
            BY <4>1, <5>1
          <6>3. ri < rj
            BY <5>1, <5>2, <6>1, <6>2
          <6> QED
            BY <6>3 DEF ri, rj
        <5>4. CASE R(both[i]) = start + (i - Len(shown)) - 1
          <6>1. ri = start + (i - Len(shown)) - 1
            BY <5>4 DEF ri
          <6>2. ri < rj
            BY <2>4, <5>1, <5>2, <6>1
          <6> QED
            BY <6>2 DEF ri, rj
        <5> QED
          BY <2>1, <5>3, <5>4
      <4> QED
        BY <1>4, <1>11, <4>2
    <3> QED
      BY <3>1, <3>2
  <2> QED
    BY <2>3, <2>4
<1>13. ~more => kept \subseteq Range(both)
  <2> SUFFICES ASSUME ~more, NEW g \in kept PROVE g \in Range(both)
    OBVIOUS
  <2>1. R(g) < end
    BY <1>1, <1>2, <1>3, <1>6
  <2> QED
    BY <1>9, <2>1
<1> QED
  BY <1>7, <1>9, <1>10, <1>11, <1>12, <1>13 DEF Walked, games, data, more, both, R, end

-----------------------------------------------------------------------------
\* Ids and times are given out in order, and no two games have one of them.
RowsInOrder ==
  /\ \A g \in Exists : g <= lastId /\ rows[g].updatedAt <= clock
  /\ \A g, h \in Exists : rows[g].updatedAt = rows[h].updatedAt => g = h

\* What the links keep of the query.
LinksKeep ==
  /\ walk.query.viewer = walk.asked.viewer
  /\ walk.query.username = walk.asked.username
  /\ Len(walk.asked.tags) <= 1 => walk.query = walk.asked

\* What holds of a walk through a list that was not disturbed.  The bound names
\* stand for values, which a step leaves alone.
WalkKept ==
  /\ walk.next => walk.page > 0
  /\ \A q \in {walk.asked}, kept \in {steady}, p \in {walk.page}, shown \in {walk.shown} :
       p > 0 /\ ~disturbed /\ Len(q.tags) <= 1 =>
         /\ kept \subseteq Listed(q)
         /\ Walked(q, kept, p, shown)
         /\ ~walk.next => kept \subseteq Range(shown)

\* The inductive invariant.
ListingInv == ListingTypeOK /\ RowsInOrder /\ LinksKeep /\ WalkKept

\* What is listed exists.
LEMMA RowsTyped ==
  ASSUME ListingTypeOK, NEW g \in Exists
  PROVE  /\ g \in Nat \ {0}
         /\ rows[g] \in [username : Usernames, accessType : Access,
                        tags : SUBSET Tags, updatedAt : 1 .. MaxTime]
         /\ rows[g].updatedAt \in Nat
BY GamesInOrder, PageSize DEF ListingTypeOK, Exists

\* Ids and times are different, so every query orders what it lists.
LEMMA ListedOrdered ==
  ASSUME ListingTypeOK, RowsInOrder, NEW q
  PROVE  Ordered(q, Listed(q))
<1>1. IsFiniteSet(Exists)
  <2>1. Exists \in SUBSET Nat /\ \A g \in Exists : g <= lastId
    BY RowsTyped DEF RowsInOrder
  <2>2. lastId \in Nat
    BY GamesInOrder DEF ListingTypeOK
  <2> QED
    BY <2>1, <2>2, FS_BoundedSetOfNaturals
<1>2. Listed(q) \in SUBSET Exists
  BY DEF Listed
<1>3. IsFiniteSet(Listed(q))
  BY <1>1, <1>2, FS_Subset
<1>4. /\ \A g \in Listed(q) : Key(q, g) \in Int
      /\ \A g, h \in Listed(q) : Key(q, g) = Key(q, h) => g = h
  BY <1>2, RowsTyped DEF RowsInOrder, Key
<1> QED
  BY <1>3, <1>4 DEF Ordered, Before

-----------------------------------------------------------------------------
(* The client. *)

\* A page shows games.
LEMMA PageTyped ==
  ASSUME NEW q, NEW p \in Nat, Ordered(q, Listed(q))
  PROVE  Page(q, p + 1).data \in Seq(Games) /\ Page(q, p + 1).more \in BOOLEAN
<1>1. Listed(q) \subseteq Games
  BY DEF Listed, Exists
<1>2. Page(q, p + 1).data \in Seq(Listed(q)) /\ Page(q, p + 1).more \in BOOLEAN
  BY PageShows
<1> QED
  BY <1>1, <1>2, SeqMonotonic

\* The query behind a link is one, for the same viewer and username, and with at
\* most one tag it is what was asked.
LEMMA LinksTyped ==
  ASSUME NEW q \in Queries
  PROVE  /\ AppendParams(q) \in Queries
         /\ AppendParams(q).viewer = q.viewer
         /\ AppendParams(q).username = q.username
         /\ Len(q.tags) <= 1 => AppendParams(q) = q
<1> DEFINE T == UNION {[1 .. n -> Tags \cup {Joined}] : n \in 0 .. 2}
           t == IF Len(q.tags) <= 1 THEN q.tags ELSE <<Joined>>
<1>1. <<Joined>> \in [1 .. 1 -> Tags \cup {Joined}]
  OBVIOUS
<1>2. <<Joined>> \in T
  BY <1>1
<1>3. Queries = [viewer : Usernames \cup {Absent}, username : Usernames \cup {Absent}, tags : T,
                 sortBy : {"updatedAt", "id"}, order : {"ASC", "DESC"}]
  BY DEF Queries
<1>4. AppendParams(q) = [q EXCEPT !.tags = t]
  BY DEF AppendParams
<1> HIDE DEF T
<1>5. q.tags \in T /\ t \in T
  BY <1>2, <1>3
<1> HIDE DEF t
<1>6. AppendParams(q) \in Queries
  BY <1>3, <1>4, <1>5
<1>7. AppendParams(q).viewer = q.viewer /\ AppendParams(q).username = q.username
  BY <1>3, <1>4
<1>8. Len(q.tags) <= 1 => AppendParams(q) = q
  BY <1>3, <1>4 DEF t
<1> QED
  BY <1>6, <1>7, <1>8

\* While no row changes, nothing that depends on them does.
LEMMA SameRows ==
  ASSUME rows' = rows, NEW q
  PROVE  /\ Listed(q)' = Listed(q)
         /\ \A kept, p, shown : Walked(q, kept, p, shown)' <=> Walked(q, kept, p, shown)
<1>1. Listed(q)' = Listed(q)
  BY DEF Listed, Exists
<1>2. \A g, h : Before(q, g, h)' <=> Before(q, g, h)
  BY DEF Before, Key
<1>3. ASSUME NEW g
      PROVE  Rank(q, Listed(q), g)' = Rank(q, Listed(q), g)
  <2> DEFINE B == {h \in Listed(q) : Before(q, h, g)}
             C == {h \in Listed(q)' : Before(q, h, g)'}
  <2>1. B = C
    BY <1>1, <1>2
  <2>2. Rank(q, Listed(q), g) = Cardinality(B)
    BY DEF Rank
  <2>3. Rank(q, Listed(q), g)' = Cardinality(C)
    BY DEF Rank
  <2> QED
    BY <2>1, <2>2, <2>3
<1>4. ASSUME NEW kept, NEW p, NEW shown
      PROVE  Walked(q, kept, p, shown)' <=> Walked(q, kept, p, shown)
  BY <1>1, <1>2, <1>3 DEF Walked
<1> QED
  BY <1>1, <1>4

\* A page behind p extends what was shown.
LEMMA FetchKeeps ==
  ASSUME ListingTypeOK, RowsInOrder, NEW asked \in Queries, NEW q \in Queries, NEW p \in Nat,
         NEW shown \in Seq(Games), Fetch(asked, q, p + 1, shown),
         UNCHANGED <<rows, lastId, clock>>,
         steady' \subseteq Games, disturbed' \in BOOLEAN,
         q.viewer = asked.viewer, q.username = asked.username,
         Len(asked.tags) <= 1 => q = asked,
         ~disturbed' /\ Len(asked.tags) <= 1 =>
           /\ steady' \subseteq Listed(q)
           /\ \A kept \in {steady'} : Walked(q, kept, p, shown)
  PROVE  ListingInv'
<1>1. Ordered(q, Listed(q))
  BY ListedOrdered
<1>2. PICK data \in Seq(Games), more \in BOOLEAN :
        data = Page(q, p + 1).data /\ more = Page(q, p + 1).more
  BY <1>1, PageTyped
<1>3. walk' = [asked |-> asked, query |-> AppendParams(q), page |-> p + 1,
               next |-> more, shown |-> shown \o data]
  BY <1>2 DEF Fetch
<1>4. shown \o data \in Seq(Games)
  BY ConcatProperties
<1>5. /\ walk'.asked = asked /\ walk'.query = AppendParams(q) /\ walk'.page = p + 1
      /\ walk'.next = more /\ walk'.shown = shown \o data
  BY <1>3
<1>6. /\ AppendParams(q) \in Queries
      /\ AppendParams(q).viewer = q.viewer
      /\ AppendParams(q).username = q.username
      /\ Len(q.tags) <= 1 => AppendParams(q) = q
  BY LinksTyped
<1>7. ListingTypeOK'
  <2>1. walk' \in [asked : Queries, query : Queries, page : Nat, next : BOOLEAN,
                    shown : Seq(Games)]
    BY <1>3, <1>4, <1>6
  <2> QED
    BY <2>1 DEF ListingTypeOK
<1>8. RowsInOrder'
  BY DEF RowsInOrder, Exists
<1>9. LinksKeep'
  BY <1>5, <1>6 DEF LinksKeep
<1>10. WalkKept'
  <2>1. walk'.page > 0
    BY <1>5
  <2>2. PICK kept : kept = steady'
    OBVIOUS
  <2>3. ASSUME ~disturbed', Len(asked.tags) <= 1
        PROVE  /\ kept \subseteq Listed(asked)'
               /\ Walked(asked, kept, p + 1, shown \o data)'
               /\ ~more => kept \subseteq Range(shown \o data)
    <3>1. /\ q = asked
          /\ kept \subseteq Listed(q)
          /\ Walked(q, kept, p, shown)
      BY <2>2, <2>3
    <3>2. shown \in Seq(Listed(q))
      <4>1. shown \in [1 .. Len(shown) -> Games] /\ Len(shown) \in Nat
        BY LenProperties
      <4>2. \A i \in DOMAIN shown : shown[i] \in Listed(q)
        BY <3>1 DEF Walked
      <4> QED
        BY <4>1, <4>2
    <3>3. /\ Walked(q, kept, p + 1, shown \o data)
          /\ ~more => kept \subseteq Range(shown \o data)
      BY <1>1, <1>2, <3>1, <3>2, PageWalked
    <3>4. /\ Listed(q)' = Listed(q)
          /\ Walked(q, kept, p + 1, shown \o data)' <=> Walked(q, kept, p + 1, shown \o data)
      BY SameRows
    <3> QED
      BY <3>1, <3>3, <3>4
  <2> QED
    BY <1>5, <2>1, <2>2, <2>3 DEF WalkKept
<1> QED
  BY <1>7, <1>8, <1>9, <1>10 DEF ListingInv

\* Nothing is shown yet.
LEMMA NothingWalked ==
  ASSUME NEW q, NEW kept, kept \subseteq Listed(q), Ordered(q, Listed(q))
  PROVE  Walked(q, kept, 0, <<>>)
<1>1. \A g \in kept : ~(Rank(q, Listed(q), g) < 0 * Limit)
  BY RankBound, PageSize
<1> QED
  BY <1>1 DEF Walked

\* FirstPage keeps the invariant.
LEMMA FirstPageStep ==
  ASSUME ListingInv, NEW q \in Queries, FirstPage(q)
  PROVE  ListingInv'
<1>1. ListingTypeOK /\ RowsInOrder
  BY DEF ListingInv
<1>2. Ordered(q, Listed(q))
  BY <1>1, ListedOrdered
<1>3. Fetch(q, q, 0 + 1, <<>>)
  BY DEF FirstPage
<1>4. UNCHANGED <<rows, lastId, clock>> /\ steady' = Listed(q) /\ disturbed' = FALSE
  BY DEF FirstPage
<1>5. steady' \subseteq Games
  BY <1>4 DEF Listed, Exists
<1>6. Walked(q, Listed(q), 0, <<>>)
  BY <1>2, NothingWalked
<1>7. <<>> \in Seq(Games)
  OBVIOUS
<1> QED
  BY <1>1, <1>3, <1>4, <1>5, <1>6, <1>7, FetchKeeps

\* NextPage keeps it: links keep the query.
LEMMA NextPageStep ==
  ASSUME ListingInv, NextPage
  PROVE  ListingInv'
<1>1. PICK asked \in Queries, q \in Queries, p \in Nat, shown \in Seq(Games), kept \in {steady} :
        /\ asked = walk.asked /\ q = walk.query /\ p = walk.page
        /\ shown = walk.shown /\ kept = steady
  BY DEF ListingInv, ListingTypeOK
<1>2. /\ Fetch(asked, q, p + 1, shown) /\ walk.next
      /\ UNCHANGED <<rows, lastId, clock, steady, disturbed>>
  BY <1>1 DEF NextPage
<1>3. /\ q.viewer = asked.viewer /\ q.username = asked.username
      /\ Len(asked.tags) <= 1 => q = asked
  BY <1>1 DEF ListingInv, LinksKeep
<1>4. ~disturbed' /\ Len(asked.tags) <= 1 =>
        kept \subseteq Listed(q) /\ Walked(q, kept, p, shown)
  BY <1>1, <1>2, <1>3 DEF ListingInv, WalkKept
<1>5. ListingTypeOK /\ RowsInOrder
  BY DEF ListingInv
<1>6. steady' = kept /\ steady' \subseteq Games /\ disturbed' \in BOOLEAN
  BY <1>1, <1>2, <1>5 DEF ListingTypeOK
<1> QED
  BY <1>2, <1>3, <1>4, <1>5, <1>6, FetchKeeps

\* What clients ask is a query.
LEMMA QueryTyped ==
  ASSUME NEW v \in Usernames \cup {Absent}, NEW u \in Usernames \cup {Absent},
         NEW tags \in UNION {[1 .. n -> Tags] : n \in 0 .. 2},
         NEW sortBy \in {"updatedAt", "id"}, NEW order \in {"ASC", "DESC"}
  PROVE  [viewer |-> v, username |-> u, tags |-> tags,
          sortBy |-> sortBy, order |-> order] \in Queries
<1>1. PICK n \in 0 .. 2 : tags \in [1 .. n -> Tags]
  OBVIOUS
<1>2. tags \in [1 .. n -> Tags \cup {Joined}]
  BY <1>1
<1>3. tags \in UNION {[1 .. m -> Tags \cup {Joined}] : m \in 0 .. 2}
  BY <1>2
<1> QED
  BY <1>3 DEF Queries

\* Leave keeps the invariant.
LEMMA LeaveStep ==
  ASSUME ListingInv, Leave
  PROVE  ListingInv'
<1>1. NoQuery \in Queries
  <2>1. <<>> \in [1 .. 0 -> Tags \cup {Joined}]
    OBVIOUS
  <2>2. <<>> \in UNION {[1 .. n -> Tags \cup {Joined}] : n \in 0 .. 2}
    BY <2>1
  <2> QED
    BY <2>2 DEF NoQuery, Queries
<1>2. /\ walk' = NoWalk /\ steady' = {} /\ disturbed' = FALSE
      /\ UNCHANGED <<rows, lastId, clock>>
  BY DEF Leave
<1>3. ListingTypeOK'
  <2>1. <<>> \in Seq(Games)
    OBVIOUS
  <2>2. walk' \in [asked : Queries, query : Queries, page : Nat, next : BOOLEAN,
                    shown : Seq(Games)]
    BY <1>1, <1>2, <2>1 DEF NoWalk
  <2> QED
    BY <1>2, <2>2 DEF ListingInv, ListingTypeOK
<1>4. RowsInOrder'
  BY <1>2 DEF ListingInv, RowsInOrder, Exists
<1>5. LinksKeep' /\ WalkKept'
  BY <1>2 DEF LinksKeep, WalkKept, NoWalk
<1> QED
  BY <1>3, <1>4, <1>5 DEF ListingInv

-----------------------------------------------------------------------------
(* Other requests. *)

\* Games that come and stay behind the others, or come before them all, leave
\* what was shown as it should be.
LEMMA WalkSurvives ==
  ASSUME NEW q, NEW kept, NEW p \in Nat, NEW shown,
         Ordered(q, Listed(q)), Ordered(q, Listed(q))',
         kept \subseteq Listed(q), Listed(q) \subseteq Listed(q)',
         \A g, h \in Listed(q) : Before(q, g, h)' <=> Before(q, g, h),
         q.order = "ASC" =>
           \A g \in Listed(q)', h \in Listed(q) : Before(q, g, h)' => g \in Listed(q),
         Walked(q, kept, p, shown)
  PROVE  Walked(q, kept, p, shown)'
<1> DEFINE rank(g) == Rank(q, Listed(q), g)
           rankNext(g) == Rank(q, Listed(q), g)'
           end == p * Limit
<1>1. ASSUME NEW h \in Listed(q)
      PROVE  /\ rank(h) \in Nat /\ rankNext(h) \in Nat /\ rank(h) <= rankNext(h)
             /\ q.order = "ASC" => rankNext(h) = rank(h)
  <2> DEFINE B == {g \in Listed(q) : Before(q, g, h)}
             C == {g \in Listed(q)' : Before(q, g, h)'}
  <2>1. B \in SUBSET C /\ C \in SUBSET Listed(q)'
    OBVIOUS
  <2>2. q.order = "ASC" => C = B
    OBVIOUS
  <2>3. rank(h) = Cardinality(B) /\ rankNext(h) = Cardinality(C)
    BY DEF Rank
  <2>4. IsFiniteSet(Listed(q)')
    BY DEF Ordered
  <2> HIDE DEF B, C, rank, rankNext
  <2>5. IsFiniteSet(C)
    BY <2>1, <2>4, FS_Subset
  <2>6. IsFiniteSet(B) /\ Cardinality(B) <= Cardinality(C)
    BY <2>1, <2>5, FS_Subset
  <2>7. Cardinality(B) \in Nat /\ Cardinality(C) \in Nat
    BY <2>5, <2>6, FS_CardinalityType
  <2> QED
    BY <2>2, <2>3, <2>6, <2>7
<1>2. end \in Nat
  BY PageSize
<1>3. /\ \A i \in DOMAIN shown : shown[i] \in Listed(q)
      /\ \A g \in kept : rank(g) < end => g \in Range(shown)
      /\ \A j \in DOMAIN shown : \A g \in kept :
           Before(q, g, shown[j]) => \E i \in 1 .. j - 1 : shown[i] = g
      /\ q.order = "ASC" =>
           /\ \A j \in DOMAIN shown : rank(shown[j]) < end
           /\ \A i, j \in DOMAIN shown : i < j => Before(q, shown[i], shown[j])
  BY DEF Walked
<1> HIDE DEF rank, rankNext, end
<1>4. \A i \in DOMAIN shown : shown[i] \in Listed(q)'
  BY <1>3
<1>5. \A g \in kept : rankNext(g) < end => g \in Range(shown)
  BY <1>1, <1>2, <1>3
<1>6. \A j \in DOMAIN shown : \A g \in kept :
        Before(q, g, shown[j])' => \E i \in 1 .. j - 1 : shown[i] = g
  BY <1>3
<1>7. q.order = "ASC" =>
        /\ \A j \in DOMAIN shown : rankNext(shown[j]) < end
        /\ \A i, j \in DOMAIN shown : i < j => Before(q, shown[i], shown[j])'
  BY <1>1, <1>3
<1> QED
  BY <1>4, <1>5, <1>6, <1>7 DEF Walked, rankNext, end

\* What Change needs to keep the invariant.
LEMMA ChangeKeeps ==
  ASSUME ListingInv, NEW g \in Games, NEW row, Change(g, row),
         row = Absent \/ row \in [username : Usernames, accessType : Access,
                               tags : SUBSET Tags, updatedAt : 1 .. MaxTime],
         lastId' \in Games \cup {0}, clock' \in 0 .. MaxTime, RowsInOrder',
         ASSUME NEW q \in Queries, q = walk.asked, walk.page > 0, ~disturbed',
                Ordered(q, Listed(q)), Ordered(q, Listed(q))'
         PROVE  /\ Listed(q) \subseteq Listed(q)'
                /\ \A h, i \in Listed(q) : Before(q, h, i)' <=> Before(q, h, i)
                /\ q.order = "ASC" =>
                     \A h \in Listed(q)', i \in Listed(q) :
                       Before(q, h, i)' => h \in Listed(q)
  PROVE  ListingInv'
<1>1. /\ walk' = walk /\ rows' = [rows EXCEPT ![g] = row]
      /\ steady' = steady \/ (g \notin Listed(walk.asked)' /\ steady' = steady \ {g})
      /\ disturbed' \in BOOLEAN
      /\ ~disturbed' => ~disturbed
  BY DEF Change, ListingInv, ListingTypeOK
<1>2. ListingTypeOK /\ RowsInOrder
  BY DEF ListingInv
<1>3. ListingTypeOK'
  <2>1. rows' \in [Games -> [username : Usernames, accessType : Access,
                           tags : SUBSET Tags, updatedAt : 1 .. MaxTime] \cup {Absent}]
    BY <1>1, <1>2 DEF ListingTypeOK
  <2>2. steady' \subseteq Games
    BY <1>1, <1>2 DEF ListingTypeOK
  <2> QED
    BY <1>1, <1>2, <2>1, <2>2 DEF ListingTypeOK
<1>4. LinksKeep'
  BY <1>1 DEF ListingInv, LinksKeep
<1>5. WalkKept'
  <2>1. PICK q \in Queries, p \in Nat, shown \in Seq(Games), kept \in {steady} :
          q = walk.asked /\ p = walk.page /\ shown = walk.shown /\ kept = steady
    BY <1>2 DEF ListingTypeOK
  <2>2. ASSUME p > 0, ~disturbed', Len(q.tags) <= 1
        PROVE  /\ steady' = kept
               /\ kept \subseteq Listed(q)'
               /\ Walked(q, kept, p, shown)'
               /\ ~walk.next => kept \subseteq Range(shown)
    <3>1. /\ kept \subseteq Listed(q)
          /\ Walked(q, kept, p, shown)
          /\ ~walk.next => kept \subseteq Range(shown)
      BY <1>1, <2>1, <2>2 DEF ListingInv, WalkKept
    <3>2. Ordered(q, Listed(q)) /\ Ordered(q, Listed(q))'
      BY <1>2, <1>3, ListedOrdered, PTL
    <3>3. /\ Listed(q) \subseteq Listed(q)'
          /\ \A h, i \in Listed(q) : Before(q, h, i)' <=> Before(q, h, i)
          /\ q.order = "ASC" =>
               \A h \in Listed(q)', i \in Listed(q) :
                 Before(q, h, i)' => h \in Listed(q)
      BY <2>1, <2>2, <3>2
    <3>4. Walked(q, kept, p, shown)'
      BY <3>1, <3>2, <3>3, WalkSurvives
    <3>5. steady' = kept
      <4>1. g \notin Listed(q)' => g \notin kept
        BY <3>1, <3>3
      <4>2. Listed(q)' = Listed(walk.asked)'
        BY <1>1, <2>1 DEF Listed, Exists, Accessible, ByUsername, ByTags
      <4>3. CASE g \notin Listed(q)' /\ steady' = steady \ {g}
        <5>1. g \notin kept /\ steady' = kept \ {g}
          BY <2>1, <4>1, <4>3
        <5> QED
          BY <5>1
      <4> QED
        BY <1>1, <2>1, <4>2, <4>3
    <3> QED
      BY <3>1, <3>3, <3>4, <3>5
  <2>3. walk.next' => walk.page' > 0
    BY <1>1 DEF ListingInv, WalkKept
  <2>4. walk'.asked = q /\ walk'.page = p /\ walk'.shown = shown /\ walk'.next = walk.next
    BY <1>1, <2>1
  <2> QED
    BY <2>2, <2>3, <2>4 DEF WalkKept
<1> QED
  BY <1>3, <1>4, <1>5 DEF ListingInv

\* Create keeps it: a new game comes last in ascending order, first in descending.
LEMMA CreateStep ==
  ASSUME ListingInv, NEW g \in Games, NEW u \in Usernames, NEW access \in Access,
         NEW tags \in SUBSET Tags, Create(g, u, access, tags)
  PROVE  ListingInv'
<1> DEFINE row == Row(u, access, tags)
<1>1. /\ clock < MaxTime /\ g > lastId /\ lastId' = g /\ clock' = clock + 1
      /\ Change(g, row)
  BY DEF Create
<1>2. ListingTypeOK /\ RowsInOrder
  BY DEF ListingInv
<1>3. clock \in Nat /\ lastId \in Nat /\ MaxTime \in Nat
  BY <1>2, GamesInOrder, PageSize DEF ListingTypeOK
<1>4. /\ row \in [username : Usernames, accessType : Access,
                  tags : SUBSET Tags, updatedAt : 1 .. MaxTime]
      /\ row.updatedAt = clock + 1
  <2>1. clock + 1 \in 1 .. MaxTime
    BY <1>1, <1>3
  <2> QED
    BY <2>1 DEF Row
<1> HIDE DEF row
<1>5. rows' = [rows EXCEPT ![g] = row] /\ walk' = walk
  BY <1>1 DEF Change
<1>6. rows'[g] = row /\ \A h \in Games : h # g => rows'[h] = rows[h]
  BY <1>2, <1>5 DEF ListingTypeOK
<1>7. g \notin Exists
  BY <1>1, <1>2, <1>3, RowsTyped DEF RowsInOrder
<1>8. /\ Exists' \subseteq Exists \cup {g}
      /\ \A h \in Exists : h \in Exists' /\ rows'[h] = rows[h] /\ h # g
  BY <1>6, <1>7 DEF Exists
<1>9. \A h \in Exists :
        /\ h \in Nat /\ h <= lastId
        /\ rows[h].updatedAt \in Nat /\ rows[h].updatedAt <= clock
  BY <1>2, RowsTyped DEF RowsInOrder
<1>10. g \in Nat
  BY GamesInOrder
<1>11. RowsInOrder'
  <2>1. \A h \in Exists' : h <= lastId' /\ rows'[h].updatedAt <= clock'
    BY <1>1, <1>3, <1>4, <1>6, <1>8, <1>9, <1>10
  <2>2. \A h, i \in Exists' : rows'[h].updatedAt = rows'[i].updatedAt => h = i
    <3> SUFFICES ASSUME NEW h \in Exists', NEW i \in Exists',
                        rows'[h].updatedAt = rows'[i].updatedAt
                 PROVE  h = i
      OBVIOUS
    <3>1. CASE h \in Exists /\ i \in Exists
      BY <1>2, <1>8, <3>1 DEF RowsInOrder
    <3>2. CASE h \in Exists /\ i = g
      BY <1>3, <1>4, <1>6, <1>8, <1>9, <3>2
    <3>3. CASE h = g /\ i \in Exists
      BY <1>3, <1>4, <1>6, <1>8, <1>9, <3>3
    <3> QED
      BY <1>8, <3>1, <3>2, <3>3
  <2> QED
    BY <2>1, <2>2 DEF RowsInOrder
<1>12. ASSUME NEW q \in Queries
       PROVE  /\ Listed(q) \subseteq Listed(q)'
              /\ \A h, i \in Listed(q) : Before(q, h, i)' <=> Before(q, h, i)
              /\ q.order = "ASC" =>
                   \A h \in Listed(q)', i \in Listed(q) :
                     Before(q, h, i)' => h \in Listed(q)
  <2>1. /\ Listed(q) \subseteq Exists
        /\ Listed(q) \subseteq Listed(q)'
        /\ \A h \in Listed(q)' : h \in Listed(q) \/ h = g
    BY <1>8 DEF Listed
  <2>2. \A h \in Exists : Key(q, h)' = Key(q, h)
    BY <1>8 DEF Key
  <2>3. \A i \in Exists : Key(q, i) < Key(q, g)' /\ Key(q, i) \in Nat /\ Key(q, g)' \in Nat
    BY <1>1, <1>3, <1>4, <1>6, <1>9, <1>10 DEF Key
  <2>4. \A h, i \in Listed(q) : Before(q, h, i)' <=> Before(q, h, i)
    BY <2>1, <2>2 DEF Before
  <2>5. ASSUME q.order = "ASC", NEW h \in Listed(q)', NEW i \in Listed(q), Before(q, h, i)'
        PROVE  h \in Listed(q)
    <3>1. Key(q, h)' < Key(q, i)'
      BY <2>5 DEF Before
    <3> QED
      BY <2>1, <2>2, <2>3, <3>1
  <2> QED
    BY <2>1, <2>4, <2>5
<1>13. lastId' \in Games \cup {0} /\ clock' \in 0 .. MaxTime
  BY <1>1, <1>3
<1> QED
  BY <1>1, <1>4, <1>11, <1>12, <1>13, ChangeKeeps

\* A save or a deletion that leaves a walk undisturbed changes nothing it can see.
LEMMA ExistingKeeps ==
  ASSUME ListingInv, NEW g \in Exists, NEW row, Change(g, row),
         NEW q \in Queries, q = walk.asked, walk.page > 0, ~disturbed'
  PROVE  /\ Listed(q)' = Listed(q)
         /\ \A h, i \in Listed(q) : Before(q, h, i)' <=> Before(q, h, i)
<1>1. /\ walk' = walk /\ rows' = [rows EXCEPT ![g] = row]
      /\ g \in Listed(walk.asked) <=> g \in Listed(walk.asked)'
      /\ walk.asked.sortBy # "updatedAt"
  BY DEF Change
<1>2. Listed(walk.asked)' = Listed(q)'
  BY <1>1 DEF Listed, Exists, Accessible, ByUsername, ByTags
<1>3. q.sortBy = "id"
  BY <1>1 DEF Queries
<1>4. \A h \in Games : h # g => rows'[h] = rows[h]
  BY <1>1 DEF ListingInv, ListingTypeOK
<1>5. \A h \in Games : h # g => (h \in Listed(q)' <=> h \in Listed(q))
  BY <1>4 DEF Listed, Exists
<1>6. g \in Listed(q)' <=> g \in Listed(q)
  BY <1>1, <1>2
<1>7. Listed(q) \subseteq Games /\ Listed(q)' \subseteq Games
  BY DEF Listed, Exists
<1>8. \A h, i : Before(q, h, i)' <=> Before(q, h, i)
  BY <1>3 DEF Before, Key
<1> QED
  BY <1>5, <1>6, <1>7, <1>8

\* Save keeps the invariant.
LEMMA SaveStep ==
  ASSUME ListingInv, NEW g \in Games, NEW access \in Access, NEW tags \in SUBSET Tags,
         Save(g, access, tags)
  PROVE  ListingInv'
<1> DEFINE row == Row(rows[g].username, access, tags)
<1>1. /\ g \in Exists /\ clock < MaxTime /\ clock' = clock + 1 /\ lastId' = lastId
      /\ Change(g, row)
  BY DEF Save
<1>2. ListingTypeOK /\ RowsInOrder
  BY DEF ListingInv
<1>3. clock \in Nat /\ lastId \in Nat /\ MaxTime \in Nat
  BY <1>2, GamesInOrder, PageSize DEF ListingTypeOK
<1>4. /\ row \in [username : Usernames, accessType : Access,
                  tags : SUBSET Tags, updatedAt : 1 .. MaxTime]
      /\ row.updatedAt = clock + 1
  <2>1. clock + 1 \in 1 .. MaxTime
    BY <1>1, <1>3
  <2>2. rows[g].username \in Usernames
    BY <1>1, <1>2, RowsTyped
  <2> QED
    BY <2>1, <2>2 DEF Row
<1> HIDE DEF row
<1>5. rows' = [rows EXCEPT ![g] = row]
  BY <1>1 DEF Change
<1>6. rows'[g] = row /\ \A h \in Games : h # g => rows'[h] = rows[h]
  BY <1>2, <1>5 DEF ListingTypeOK
<1>7. Exists' \subseteq Exists
  BY <1>1, <1>6 DEF Exists
<1>8. \A h \in Exists :
        /\ h \in Games /\ h \in Nat /\ h <= lastId
        /\ rows[h].updatedAt \in Nat /\ rows[h].updatedAt <= clock
  BY <1>2, RowsTyped DEF RowsInOrder, Exists
<1>9. RowsInOrder'
  <2>1. \A h \in Exists' : h <= lastId' /\ rows'[h].updatedAt <= clock'
    BY <1>1, <1>3, <1>4, <1>6, <1>7, <1>8
  <2>2. \A h, i \in Exists' : rows'[h].updatedAt = rows'[i].updatedAt => h = i
    <3> SUFFICES ASSUME NEW h \in Exists', NEW i \in Exists',
                        rows'[h].updatedAt = rows'[i].updatedAt
                 PROVE  h = i
      OBVIOUS
    <3>1. CASE h # g /\ i # g
      BY <1>2, <1>6, <1>7, <1>8, <3>1 DEF RowsInOrder
    <3>2. CASE h = g /\ i # g
      BY <1>3, <1>4, <1>6, <1>7, <1>8, <3>2
    <3>3. CASE h # g /\ i = g
      BY <1>3, <1>4, <1>6, <1>7, <1>8, <3>3
    <3> QED
      BY <3>1, <3>2, <3>3
  <2> QED
    BY <2>1, <2>2 DEF RowsInOrder
<1>10. lastId' \in Games \cup {0} /\ clock' \in 0 .. MaxTime
  BY <1>1, <1>2, <1>3 DEF ListingTypeOK
<1>11. ASSUME NEW q \in Queries, q = walk.asked, walk.page > 0, ~disturbed'
       PROVE  /\ Listed(q) \subseteq Listed(q)'
              /\ \A h, i \in Listed(q) : Before(q, h, i)' <=> Before(q, h, i)
              /\ q.order = "ASC" =>
                   \A h \in Listed(q)', i \in Listed(q) :
                     Before(q, h, i)' => h \in Listed(q)
  <2>1. /\ Listed(q)' = Listed(q)
        /\ \A h, i \in Listed(q) : Before(q, h, i)' <=> Before(q, h, i)
    BY <1>1, <1>11, ExistingKeeps
  <2> QED
    BY <2>1
<1> QED
  BY <1>1, <1>4, <1>9, <1>10, <1>11, ChangeKeeps

\* Delete keeps the invariant.
LEMMA DeleteStep ==
  ASSUME ListingInv, NEW g \in Games, Delete(g)
  PROVE  ListingInv'
<1>1. g \in Exists /\ Change(g, Absent) /\ clock' = clock /\ lastId' = lastId
  BY DEF Delete
<1>2. ListingTypeOK /\ RowsInOrder
  BY DEF ListingInv
<1>3. rows' = [rows EXCEPT ![g] = Absent]
  BY <1>1 DEF Change
<1>4. \A h \in Exists' : h \in Exists /\ rows'[h] = rows[h]
  BY <1>2, <1>3 DEF ListingTypeOK, Exists
<1>5. RowsInOrder'
  BY <1>1, <1>2, <1>4 DEF RowsInOrder
<1>6. lastId' \in Games \cup {0} /\ clock' \in 0 .. MaxTime
  BY <1>1, <1>2 DEF ListingTypeOK
<1>7. ASSUME NEW q \in Queries, q = walk.asked, walk.page > 0, ~disturbed'
      PROVE  /\ Listed(q) \subseteq Listed(q)'
             /\ \A h, i \in Listed(q) : Before(q, h, i)' <=> Before(q, h, i)
             /\ q.order = "ASC" =>
                  \A h \in Listed(q)', i \in Listed(q) :
                    Before(q, h, i)' => h \in Listed(q)
  <2>1. /\ Listed(q)' = Listed(q)
        /\ \A h, i \in Listed(q) : Before(q, h, i)' <=> Before(q, h, i)
    BY <1>1, <1>7, ExistingKeeps
  <2> QED
    BY <2>1
<1> QED
  BY <1>1, <1>5, <1>6, <1>7, ChangeKeeps

-----------------------------------------------------------------------------
\* It holds at first.
LEMMA ListingInitHolds == ListingInit => ListingInv
<1> SUFFICES ASSUME ListingInit PROVE ListingInv
  OBVIOUS
<1>1. <<>> \in Seq(Games)
  OBVIOUS
<1>2. NoQuery \in Queries
  <2>1. <<>> \in [1 .. 0 -> Tags \cup {Joined}]
    OBVIOUS
  <2>2. <<>> \in UNION {[1 .. n -> Tags \cup {Joined}] : n \in 0 .. 2}
    BY <2>1
  <2> QED
    BY <2>2 DEF NoQuery, Queries
<1>3. walk \in [asked : Queries, query : Queries, page : Nat, next : BOOLEAN,
               shown : Seq(Games)]
  BY <1>1, <1>2 DEF ListingInit, NoWalk
<1>4. ListingTypeOK
  <2>1. rows \in [Games -> [username : Usernames, accessType : Access,
                          tags : SUBSET Tags, updatedAt : 1 .. MaxTime] \cup {Absent}]
    BY DEF ListingInit
  <2>2. lastId = 0 /\ clock \in 0 .. MaxTime /\ steady = {} /\ disturbed = FALSE
    BY PageSize DEF ListingInit
  <2> QED
    BY <1>3, <2>1, <2>2 DEF ListingTypeOK
<1>5. RowsInOrder
  BY DEF ListingInit, RowsInOrder, Exists
<1>6. LinksKeep /\ WalkKept
  BY DEF ListingInit, LinksKeep, WalkKept, NoWalk
<1> QED
  BY <1>4, <1>5, <1>6 DEF ListingInv

\* Every step keeps it.
LEMMA ListingStepKeeps == ListingInv /\ [ListingNext]_listing => ListingInv'
<1> SUFFICES ASSUME ListingInv, [ListingNext]_listing PROVE ListingInv'
  OBVIOUS
<1>1. ASSUME NEW v \in Usernames \cup {Absent}, NEW u \in Usernames \cup {Absent},
             NEW tags \in UNION {[1 .. n -> Tags] : n \in 0 .. 2},
             NEW sortBy \in {"updatedAt", "id"}, NEW order \in {"ASC", "DESC"},
             FirstPage([viewer |-> v, username |-> u, tags |-> tags,
                        sortBy |-> sortBy, order |-> order])
      PROVE  ListingInv'
  BY <1>1, QueryTyped, FirstPageStep
<1>2. CASE NextPage
  BY <1>2, NextPageStep
<1>3. CASE Leave
  BY <1>3, LeaveStep
<1>4. ASSUME NEW g \in Games, NEW u \in Usernames, NEW access \in Access,
             NEW tags \in SUBSET Tags, Create(g, u, access, tags)
      PROVE  ListingInv'
  BY <1>4, CreateStep
<1>5. ASSUME NEW g \in Games, NEW access \in Access, NEW tags \in SUBSET Tags,
             Save(g, access, tags)
      PROVE  ListingInv'
  BY <1>5, SaveStep
<1>6. ASSUME NEW g \in Games, Delete(g)
      PROVE  ListingInv'
  BY <1>6, DeleteStep
<1>7. CASE UNCHANGED listing
  <2>1. ListingTypeOK' /\ RowsInOrder' /\ LinksKeep'
    BY <1>7 DEF ListingInv, listing, ListingTypeOK, RowsInOrder, LinksKeep, Exists
  <2>2. WalkKept'
    <3>1. PICK q, kept, p, shown :
            q = walk.asked /\ kept = steady /\ p = walk.page /\ shown = walk.shown
      OBVIOUS
    <3>2. /\ Listed(q)' = Listed(q)
          /\ Walked(q, kept, p, shown)' <=> Walked(q, kept, p, shown)
      BY <1>7, SameRows DEF listing
    <3> QED
      BY <1>7, <3>1, <3>2 DEF ListingInv, WalkKept, listing
  <2> QED
    BY <2>1, <2>2 DEF ListingInv
<1> QED
  BY <1>1, <1>2, <1>3, <1>4, <1>5, <1>6, <1>7 DEF ListingNext

\* Types, the order of ids and times, what links keep, and what was shown hold
\* throughout.
THEOREM ListingInvariantHolds == ListingSpec => []ListingInv
BY ListingInitHolds, ListingStepKeeps, PTL DEF ListingSpec

\* A walk that nothing it shows was taken from or moved in ends with every game
\* that was listed all the time, none of them late, whatever was created meanwhile.
THEOREM WalksComplete == ListingSpec => []WalkComplete
<1>1. ListingInv => WalkComplete
  <2> SUFFICES ASSUME ListingInv, walk.page > 0, ~walk.next, ~disturbed,
                      Len(walk.asked.tags) <= 1
               PROVE  WalkComplete
    BY DEF WalkComplete
  <2>1. /\ Walked(walk.asked, steady, walk.page, walk.shown)
        /\ steady \subseteq Range(walk.shown)
    BY DEF ListingInv, WalkKept
  <2> QED
    BY <2>1 DEF Walked, WalkComplete
<1> QED
  BY <1>1, ListingInvariantHolds, PTL

==============================================================================
