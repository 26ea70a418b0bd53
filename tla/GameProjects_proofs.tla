------------------------- MODULE GameProjects_proofs -------------------------
(***************************************************************************)
(* Proofs about GameProjects, for any names, archives, number of requests   *)
(* and uploads: what is archived was saved, and a game whose requests do not *)
(* overlap is served, from one upload, with the files its engine needs.      *)
(***************************************************************************)
EXTENDS GameProjects, TLAPS, FiniteSetTheorems

-----------------------------------------------------------------------------
(* The inductive invariant. *)

Uploading == {"create", "update", "charset"}

\* What a request knows at a step, when s was sent and S was saved.
Knows(h, s, S) ==
  /\ h.name \in Names
  /\ h.version \in 0 .. Len(s)
  /\ h.step = "idle" => h.kind = "delete"
  /\ h.step \in {"idle", "remove"} /\ h.kind = "delete" => h.id # 0
  /\ h.step \in {"find", "validate"} => h.id = 0
  /\ h.step \in {"validate", "archive"} => h.kind = "create"
  /\ h.step = "read" => h.kind = "charset"
  /\ h.step = "nullFile" => h.kind = "deleteFiles"
  /\ h.kind \in {"create", "update"} => h.version # 0 /\ h.file \in FileNames
  /\ h.step \in {"worldMt", "overview", "copy", "index", "removeTemp", "save"} =>
       h.kind \in Uploading
  /\ h.step \notin {"find", "read"} /\ h.kind \in Uploading => h.version # 0
  /\ h.step # "find" => h.engine \in Engines
  /\ h.step \in {"remove", "worldMt", "overview", "copy", "index", "removeTemp"}
       /\ h.kind \in Uploading => h.engine # "downloadable"
  /\ h.step \in {"remove", "worldMt", "overview", "copy", "index"}
       /\ h.kind \in Uploading => Accepts(h.engine, s[h.version])
  /\ h.step = "index" => h.engine = "rm2k3e"
  /\ h.step = "read" => h.file \in FileNames
  /\ h.step = "archive" => h.version \in S
  /\ h.answered => h.step = "remove" /\ h.kind \in {"delete", "deleteFiles"}
  /\ h.step = "remove" /\ h.kind = "deleteFiles" => h.answered

RequestsKnow ==
  \A r \in Requests : handler[r] = Idle \/ Knows(handler[r], sent, saved)

ArchivesSent ==
  \A n \in Names, f \in FileNames : downloads[n][f] <= Len(sent)

\* The directory of upload v that a game of an engine is taken from.
Origin(e, v, s) == <<v, EntryPath(e, s[v])>>

\* A folder with that directory of one upload that was accepted.
GoodFolder(e, F, s) ==
  \E v \in DOMAIN s :
    /\ Accepts(e, s[v]) /\ EntryPath(e, s[v]) \in Directories
    /\ F = {Origin(e, v, s)}

\* A game with a file has such a folder.
Served(row, n, fo, s) ==
  row # None /\ row.file # None /\ row.engine # "downloadable" =>
    GoodFolder(row.engine, fo[row.engine][n], s)

\* No temporary folder is left but that of an engine.
TempOnly(e, n, te) == \A d \in Engines \ {e} : te[d][n] = {}

TempEmpty(n, te) == \A d \in Engines : te[d][n] = {}

\* The row that a request found is still there; there is none yet to create.
RowFits(h, row) ==
  IF h.kind = "create" \/ h.answered THEN row = None
  ELSE row # None /\ row.id = h.id /\ row.engine = h.engine

Directory(v, s) ==
  {<<v, d>> : d \in {s[v][i].at : i \in DOMAIN s[v]} \cap Directories}

\* How far the request for an undisturbed game is.
Phase(h, row, te, fo, s) ==
  /\ h.step \in {"validate", "find", "read", "nullFile", "archive"} =>
       TempEmpty(h.name, te) /\ Served(row, h.name, fo, s)
  /\ h.step \in {"remove", "worldMt", "overview", "copy", "index", "removeTemp", "save"}
       /\ h.kind \in Uploading => RowFits(h, row)
  /\ h.step \in {"read", "nullFile"} => RowFits(h, row)
  /\ h.step \in {"remove", "worldMt", "overview", "copy"} /\ h.kind \in Uploading =>
       /\ te[h.engine][h.name] = Directory(h.version, s)
       /\ TempOnly(h.engine, h.name, te)
  /\ h.step \in {"worldMt", "overview", "copy"} => fo[h.engine][h.name] = {}
  /\ h.step \in {"index", "removeTemp"} =>
       /\ te[h.engine][h.name] # {} /\ TempOnly(h.engine, h.name, te)
       /\ GoodFolder(h.engine, fo[h.engine][h.name], s)
  /\ h.step = "save" =>
       /\ TempEmpty(h.name, te)
       /\ h.engine # "downloadable" => GoodFolder(h.engine, fo[h.engine][h.name], s)
  /\ h.step \in {"idle", "remove"} /\ h.kind \in {"delete", "deleteFiles"} =>
       TempEmpty(h.name, te)
  /\ h.step \in {"idle", "remove"} /\ h.kind = "delete" => RowFits(h, row)
  /\ h.step = "remove" /\ h.kind = "deleteFiles" /\ row # None => row.file = None

\* A folder has nothing, or one directory of one upload.
OneUpload(F) == F = {} \/ \E x : F = {x}

\* Undisturbed means that at most one request is under way for the game.
GameFits(n) ==
  /\ \A q, r \in Requests : Name(q) = n /\ Name(r) = n => q = r
  /\ \A r \in Requests : Name(r) = n => Phase(handler[r], rows[n], temp, folder, sent)
  /\ Settled(n) => TempEmpty(n, temp) /\ Served(rows[n], n, folder, sent)
  /\ \A e \in Engines : OneUpload(folder[e][n])

IInv ==
  /\ TypeOK /\ RequestsKnow /\ ArchivesSent /\ ArchivedWasSaved
  /\ \A n \in Names \ disturbed : GameFits(n)

LEMMA IdleLocals == Idle \in Locals
BY UploadBound DEF Idle, Locals

LEMMA InitIInv == Init => IInv
<1> SUFFICES ASSUME Init PROVE IInv
  OBVIOUS
<1>1. TypeOK
  BY IdleLocals, UploadBound DEF Init, TypeOK, Content
<1>2. RequestsKnow /\ ArchivesSent /\ ArchivedWasSaved
  BY DEF Init, RequestsKnow, ArchivesSent, ArchivedWasSaved
<1>3. ASSUME NEW n \in Names PROVE GameFits(n)
  <2>1. \A r \in Requests : Name(r) # n
    BY NoneIsFresh DEF Init, Name, Idle
  <2> QED BY <2>1 DEF Init, GameFits, TempEmpty, Served, OneUpload
<1> QED BY <1>1, <1>2, <1>3 DEF IInv

-----------------------------------------------------------------------------
(* Archives. *)

\* A set of numbers up to some number has a greatest one.
LEMMA MaxExists ==
  ASSUME NEW k \in Nat, NEW S \in SUBSET (1 .. k), S # {}
  PROVE  Max(S) \in S
<1> DEFINE T == {k - x : x \in S}
<1>1. T \subseteq Nat /\ T # {}
  <2>1. \A x \in S : x \in 1 .. k
    OBVIOUS
  <2>2. \A x \in S : k - x \in Nat
    BY <2>1
  <2>3. PICK x : x \in S
    OBVIOUS
  <2>4. k - x \in T
    BY <2>3
  <2> QED BY <2>2, <2>4
<1>2. PICK m \in T : \A n \in T : ~ (<<n, m>> \in OpToRel(<, Nat))
  BY <1>1, WFMin, NatLessThanWellFounded
<1>3. \A n \in T : ~ (n < m)
  BY <1>1, <1>2 DEF OpToRel
<1>4. PICK x \in S : k - x = m
  OBVIOUS
<1>5. ASSUME NEW y \in S PROVE x >= y
  <2>1. k - y \in T /\ x \in 1 .. k /\ y \in 1 .. k
    OBVIOUS
  <2> HIDE DEF T
  <2>2. ~ (k - y < k - x)
    BY <1>3, <1>4, <2>1
  <2> QED
    BY <2>1, <2>2
<1> QED
  BY <1>5 DEF Max

LEMMA ArchiveEntries ==
  ASSUME NEW a \in Archives
  PROVE  /\ Len(a) \in Nat /\ DOMAIN a = 1 .. Len(a)
         /\ \A i \in DOMAIN a :
              /\ a[i].at \in Directories \cup {Apple} /\ a[i].name \in Files
              /\ a[i] = [at |-> a[i].at, name |-> a[i].name]
<1> DEFINE E == [at : Directories \cup {Apple}, name : Files]
<1>1. a \in Seq(E)
  BY KnownArchives
<1>2. ASSUME NEW x \in E 
      PROVE  /\ x.at \in Directories \cup {Apple} /\ x.name \in Files
             /\ x = [at |-> x.at, name |-> x.name]
  OBVIOUS
<1> HIDE DEF E
<1>3. \A i \in DOMAIN a : a[i] \in E
  BY <1>1
<1> QED BY <1>1, <1>2, <1>3

\* An archive that an engine accepts has the game in one of its directories.
LEMMA EntryThere ==
  ASSUME NEW e \in Engines, e # "downloadable", NEW a \in Archives, Accepts(e, a)
  PROVE  \E i \in Found(e, a) : EntryPath(e, a) = a[i].at
<1>1. Required(e) # {}
  BY KnownEngines DEF Required
<1>2. Len(a) \in Nat /\ DOMAIN a = 1 .. Len(a)
  BY ArchiveEntries
<1>3. Found(e, a) # {}
  BY <1>1 DEF Accepts
<1>4. Len(a) \in Nat /\ Found(e, a) \in SUBSET (1 .. Len(a))
  BY <1>2 DEF Found
<1>5. Max(Found(e, a)) \in Found(e, a)
  BY <1>3, <1>4, MaxExists
<1> QED
  BY <1>5 DEF EntryPath

\* Of what it unpacks, that directory is copied, unless it is macOS's own.
LEMMA EntryUnpacked ==
  ASSUME NEW s \in Seq(Archives), NEW v \in DOMAIN s,
         NEW e \in Engines, e # "downloadable", Accepts(e, s[v])
  PROVE  {x \in Directory(v, s) : x[2] = EntryPath(e, s[v])} =
           IF EntryPath(e, s[v]) \in Directories THEN {Origin(e, v, s)} ELSE {}
<1>1. s[v] \in Archives
  OBVIOUS
<1>2. PICK i \in Found(e, s[v]) : EntryPath(e, s[v]) = s[v][i].at
  BY <1>1, EntryThere
<1>3. i \in DOMAIN s[v]
  BY DEF Found
<1> DEFINE p == EntryPath(e, s[v])
<1>4. p \in {s[v][j].at : j \in DOMAIN s[v]}
  BY <1>2, <1>3
<1> HIDE DEF p
<1>5. \A x \in Directory(v, s) : x = <<v, x[2]>> /\ x[2] \in Directories
  BY DEF Directory
<1>6. p \in Directories => <<v, p>> \in Directory(v, s)
  BY <1>4 DEF Directory
<1>7. {x \in Directory(v, s) : x[2] = p} = IF p \in Directories THEN {<<v, p>>} ELSE {}
  <2>1. CASE p \in Directories
    BY <1>5, <1>6, <2>1
  <2>2. CASE p \notin Directories
    BY <1>5, <2>2
  <2> QED BY <2>1, <2>2
<1> QED
  BY <1>7 DEF p, Origin

\* An archive that was sent stays what it is.
LEMMA GoodLater ==
  ASSUME NEW s \in Seq(Archives), NEW a \in Archives, NEW e, NEW F, GoodFolder(e, F, s)
  PROVE  GoodFolder(e, F, Append(s, a))
<1>1. PICK v \in DOMAIN s :
        /\ Accepts(e, s[v]) /\ EntryPath(e, s[v]) \in Directories
        /\ F = {Origin(e, v, s)}
  BY DEF GoodFolder
<1>2. v \in DOMAIN Append(s, a) /\ Append(s, a)[v] = s[v]
  OBVIOUS
<1> QED BY <1>1, <1>2 DEF GoodFolder, Origin

LEMMA DirectoryLater ==
  ASSUME NEW s \in Seq(Archives), NEW a \in Archives, NEW v \in 1 .. Len(s)
  PROVE  Directory(v, Append(s, a)) = Directory(v, s) /\ Append(s, a)[v] = s[v]
<1>1. Append(s, a)[v] = s[v]
  OBVIOUS
<1> QED BY <1>1 DEF Directory

\* What the engine needs is there, if it was together.
LEMMA GoodServes ==
  ASSUME TypeOK, NEW e \in Engines, NEW F, GoodFolder(e, F, sent), e # "downloadable"
  PROVE  /\ F # {}
         /\ \A x \in F : Together(e, sent[x[1]]) => Required(e) \subseteq FilesAt(x)
<1>1. PICK v \in DOMAIN sent :
        /\ Accepts(e, sent[v]) /\ EntryPath(e, sent[v]) \in Directories
        /\ F = {<<v, EntryPath(e, sent[v])>>}
  BY DEF GoodFolder, Origin
<1> DEFINE a == sent[v]
<1>2. a \in Archives /\ v # 0
  <2>1. sent \in Seq(Archives)
    BY DEF TypeOK
  <2>2. v \in 1 .. Len(sent) /\ Len(sent) \in Nat
    BY <2>1
  <2>3. a \in Archives
    BY <2>1, <2>2
  <2> HIDE DEF a
  <2> QED BY <2>2, <2>3
<1>3. ASSUME Together(e, a), NEW f \in Required(e)
      PROVE  f \in FilesAt(<<v, EntryPath(e, a)>>)
  <2>1. PICK d \in Directories : \A i \in Found(e, a) : a[i].at = d
    BY <1>3 DEF Together
  <2>2. PICK i \in Found(e, a) : a[i].name = f
    BY <1>1, <1>3 DEF Accepts
  <2>3. EntryPath(e, a) = d
    BY <1>1, <1>2, <2>1, EntryThere
  <2>4. i \in DOMAIN a
    BY DEF Found
  <2>5. a[i] = [at |-> d, name |-> f] /\ f \in Files
    <3> HIDE DEF a
    <3>1. a[i].name \in Files /\ a[i] = [at |-> a[i].at, name |-> a[i].name]
      BY <1>2, <2>4, ArchiveEntries
    <3>2. a[i].at = d /\ a[i].name = f
      BY <2>1, <2>2
    <3> QED BY <3>1, <3>2
  <2> QED
    BY <1>2, <2>3, <2>4, <2>5 DEF FilesAt
<1> HIDE DEF a
<1> QED
  BY <1>1, <1>3 DEF a

-----------------------------------------------------------------------------
(* What a step must show. *)

\* Folders of other games do not matter.
SameFor(n, te, te2) == \A e \in Engines : te2[e][n] = te[e][n]

LEMMA ServedSame ==
  ASSUME NEW row \in Row \cup {None}, NEW n, NEW s, NEW fo, NEW fo2,
         SameFor(n, fo, fo2), Served(row, n, fo, s)
  PROVE  Served(row, n, fo2, s)
<1> SUFFICES ASSUME row # None, row.file # None, row.engine # "downloadable"
             PROVE  GoodFolder(row.engine, fo2[row.engine][n], s)
  BY DEF Served
<1>1. row.engine \in Engines
  BY DEF Row
<1> QED BY <1>1 DEF SameFor, Served

LEMMA EmptySame ==
  ASSUME NEW n, NEW te, NEW te2, SameFor(n, te, te2), TempEmpty(n, te)
  PROVE  TempEmpty(n, te2)
BY DEF SameFor, TempEmpty

LEMMA PhaseSame ==
  ASSUME NEW h, NEW row \in Row \cup {None}, NEW s, NEW S, Knows(h, s, S),
         NEW te, NEW te2, NEW fo, NEW fo2,
         SameFor(h.name, te, te2), SameFor(h.name, fo, fo2), Phase(h, row, te, fo, s)
  PROVE  Phase(h, row, te2, fo2, s)
<1>1. TempEmpty(h.name, te) => TempEmpty(h.name, te2)
  BY EmptySame
<1>2. Served(row, h.name, fo, s) => Served(row, h.name, fo2, s)
  BY ServedSame
<1>3. h.step # "find" =>
        /\ te2[h.engine][h.name] = te[h.engine][h.name]
        /\ fo2[h.engine][h.name] = fo[h.engine][h.name]
  BY DEF Knows, SameFor
<1>4. TempOnly(h.engine, h.name, te) => TempOnly(h.engine, h.name, te2)
  BY DEF TempOnly, SameFor
<1> QED
  BY <1>1, <1>2, <1>3, <1>4 DEF Phase

\* What a request goes on with fits what it leaves.
GoesOn(r, h) ==
  \/ /\ h = Idle
     /\ Name(r) \notin disturbed' =>
          /\ TempEmpty(Name(r), temp')
          /\ Served(rows'[Name(r)], Name(r), folder', sent)
  \/ /\ h \in Locals /\ h.name = Name(r) /\ Knows(h, sent, saved')
     /\ Name(r) \notin disturbed' => Phase(h, rows'[Name(r)], temp', folder', sent)

\* Other games are left alone.
OthersLeft(n) ==
  \A m \in Names \ {n} :
    rows'[m] = rows[m] /\ SameFor(m, temp, temp') /\ SameFor(m, folder, folder')

LEMMA RequestStep ==
  ASSUME IInv, NEW r \in Requests, Knows(handler[r], sent, saved), NEW h,
         handler' = [handler EXCEPT ![r] = h], GoesOn(r, h), OthersLeft(Name(r)),
         TypeOK', UNCHANGED sent, saved \subseteq saved', disturbed \subseteq disturbed',
         ArchivesSent', ArchivedWasSaved',
         Name(r) \notin disturbed' => \A e \in Engines : OneUpload(folder'[e][Name(r)])
  PROVE  IInv'
<1>1. handler \in [Requests -> Locals] /\ Name(r) \in Names
  BY DEF IInv, TypeOK, Knows, Name
<1>2. \A q \in Requests : handler'[q] = IF q = r THEN h ELSE handler[q]
  BY <1>1
<1>3. RequestsKnow'
  <2>1. ASSUME NEW q \in Requests, q # r
        PROVE  handler[q] = Idle \/ Knows(handler[q], sent, saved')
    BY DEF IInv, RequestsKnow, Knows
  <2>2. h = Idle \/ Knows(h, sent, saved')
    BY DEF GoesOn
  <2> QED BY <1>2, <2>1, <2>2 DEF RequestsKnow
<1>4. ASSUME NEW n \in Names \ disturbed' PROVE GameFits(n)'
  <2>1. n \in Names \ disturbed
    OBVIOUS
  <2>2. /\ \A q, p \in Requests : Name(q) = n /\ Name(p) = n => q = p
        /\ \A q \in Requests : Name(q) = n => Phase(handler[q], rows[n], temp, folder, sent)
        /\ Settled(n) => TempEmpty(n, temp) /\ Served(rows[n], n, folder, sent)
        /\ \A e \in Engines : OneUpload(folder[e][n])
    BY <2>1 DEF IInv, GameFits
  <2>3. CASE n # Name(r)
    <3>1. rows'[n] = rows[n] /\ SameFor(n, temp, temp') /\ SameFor(n, folder, folder')
      BY <2>3 DEF OthersLeft
    <3>2. rows[n] \in Row \cup {None}
      BY DEF IInv, TypeOK
    <3>3. h.name # n
      BY <2>3, NoneIsFresh DEF GoesOn, Idle
    <3>4. \A q \in Requests : handler'[q].name = n => q # r /\ handler'[q] = handler[q]
      BY <1>2, <3>3
    <3>5. \A q, p \in Requests : handler'[q].name = n /\ handler'[p].name = n => q = p
      BY <2>2, <3>4 DEF Name
    <3>6. ASSUME NEW q \in Requests, handler'[q].name = n
          PROVE  Phase(handler'[q], rows'[n], temp', folder', sent')
      <4>1. handler'[q] = handler[q] /\ handler[q].name = n
        BY <3>4, <3>6
      <4>2. Knows(handler[q], sent, saved)
        BY <4>1, NoneIsFresh DEF IInv, RequestsKnow, Idle
      <4>3. Phase(handler[q], rows[n], temp, folder, sent)
        BY <2>2, <4>1 DEF Name
      <4>4. Phase(handler[q], rows[n], temp', folder', sent)
        BY <3>1, <3>2, <4>1, <4>2, <4>3, PhaseSame
      <4> QED BY <3>1, <4>1, <4>4
    <3>7. ASSUME \A q \in Requests : handler'[q].name # n
          PROVE  TempEmpty(n, temp') /\ Served(rows'[n], n, folder', sent')
      <4>1. Settled(n)
        BY <1>2, <2>3, <3>7 DEF Settled, Name
      <4> QED BY <2>2, <3>1, <3>2, <4>1, ServedSame, EmptySame
    <3>8. \A e \in Engines : OneUpload(folder'[e][n])
      BY <2>2, <3>1 DEF SameFor
    <3> QED BY <3>5, <3>6, <3>7, <3>8 DEF GameFits, Name, Settled
  <2>4. CASE n = Name(r)
    <3>1. \A q \in Requests : handler'[q].name = n => q = r
      BY <1>2, <2>2, <2>4 DEF Name
    <3>2. ASSUME NEW q \in Requests, handler'[q].name = n
          PROVE  Phase(handler'[q], rows'[n], temp', folder', sent')
      <4>1. q = r /\ handler'[q] = h
        BY <1>2, <3>1, <3>2
      <4> QED BY <2>4, <3>2, <4>1, NoneIsFresh DEF GoesOn, Idle
    <3>3. ASSUME \A q \in Requests : handler'[q].name # n
          PROVE  TempEmpty(n, temp') /\ Served(rows'[n], n, folder', sent')
      <4>1. h.name # n
        BY <1>2, <3>3
      <4> QED BY <2>4, <4>1 DEF GoesOn
    <3>4. \A e \in Engines : OneUpload(folder'[e][n])
      BY <2>4
    <3> QED BY <3>1, <3>2, <3>3, <3>4 DEF GameFits, Name, Settled
  <2> QED BY <2>3, <2>4
<1> QED
  BY <1>3, <1>4 DEF IInv

\* A step of a request that is under way and touches nothing shared.
LEMMA AloneStep ==
  ASSUME IInv, NEW r \in Requests, Knows(handler[r], sent, saved), NEW h,
         handler' = [handler EXCEPT ![r] = h], h \in Locals, GoesOn(r, h),
         UNCHANGED <<rows, downloads, temp, folder, played, sent, saved, disturbed>>
  PROVE  IInv'
<1>1. TypeOK' /\ ArchivesSent' /\ ArchivedWasSaved'
  BY DEF IInv, TypeOK, ArchivesSent, ArchivedWasSaved
<1>2. OthersLeft(Name(r))
  BY DEF OthersLeft, SameFor
<1>3. Name(r) \notin disturbed' => \A e \in Engines : OneUpload(folder'[e][Name(r)])
  BY DEF IInv, GameFits, Knows, Name
<1> QED
  BY <1>1, <1>2, <1>3, RequestStep

-----------------------------------------------------------------------------
(* A request begins, perhaps with an archive. *)

MayAppend(s, t) == t = s \/ \E a \in Archives : t = Append(s, a)

LEMMA SentLater ==
  ASSUME NEW s \in Seq(Archives), NEW t, MayAppend(s, t)
  PROVE  /\ t \in Seq(Archives) /\ Len(s) \in Nat /\ Len(t) \in Nat /\ Len(s) <= Len(t)
         /\ \A e, F : GoodFolder(e, F, s) => GoodFolder(e, F, t)
         /\ \A v \in 1 .. Len(s) : Directory(v, t) = Directory(v, s) /\ t[v] = s[v]
<1>1. CASE t = s
  BY <1>1
<1>2. CASE \E a \in Archives : t = Append(s, a)
  <2>1. PICK a \in Archives : t = Append(s, a)
    BY <1>2
  <2> QED BY <2>1, GoodLater, DirectoryLater
<1> QED BY <1>1, <1>2 DEF MayAppend

LEMMA ServedLater ==
  ASSUME NEW s \in Seq(Archives), NEW t, MayAppend(s, t), NEW row, NEW n, NEW fo,
         Served(row, n, fo, s)
  PROVE  Served(row, n, fo, t)
BY SentLater DEF Served

LEMMA PhaseLater ==
  ASSUME NEW s \in Seq(Archives), NEW t, MayAppend(s, t), NEW row, NEW te, NEW fo,
         NEW h, NEW S, Knows(h, s, S), Phase(h, row, te, fo, s)
  PROVE  Phase(h, row, te, fo, t)
<1>1. /\ Len(s) \in Nat
      /\ \A e, F : GoodFolder(e, F, s) => GoodFolder(e, F, t)
      /\ \A v \in 1 .. Len(s) : Directory(v, t) = Directory(v, s) /\ t[v] = s[v]
  BY SentLater
<1>2. Served(row, h.name, fo, s) => Served(row, h.name, fo, t)
  BY ServedLater
<1>3. h.step \in {"remove", "worldMt", "overview", "copy"} /\ h.kind \in Uploading =>
        h.version \in 1 .. Len(s)
  BY <1>1 DEF Knows
<1> QED
  BY <1>1, <1>2, <1>3 DEF Phase

LEMMA BeginStep ==
  ASSUME IInv, NEW r \in Requests, NEW h, Begin(r, h), MayAppend(sent, sent'),
         Len(sent') <= MaxUploads, h \in Locals, Knows(h, sent', saved),
         h.step \in {"validate", "find"}
  PROVE  IInv'
<1>1. /\ handler \in [Requests -> Locals] /\ handler[r] = Idle
      /\ handler' = [handler EXCEPT ![r] = h]
      /\ disturbed' = disturbed \cup
           {n \in {h.name} : \E q \in Requests : Name(q) = n}
      /\ UNCHANGED <<rows, downloads, temp, folder, played, saved>>
      /\ sent \in Seq(Archives) /\ h.name \in Names
  BY DEF IInv, TypeOK, Begin, Knows, Name
<1>2. sent' \in Seq(Archives) /\ Len(sent) \in Nat /\ Len(sent') \in Nat /\ Len(sent) <= Len(sent')
  BY <1>1, SentLater
<1>3. \A q \in Requests : handler'[q] = IF q = r THEN h ELSE handler[q]
  BY <1>1
<1>4. TypeOK' /\ ArchivedWasSaved'
  BY <1>1, <1>2 DEF IInv, TypeOK, ArchivedWasSaved
<1>5. ArchivesSent'
  <2>1. ASSUME NEW n \in Names, NEW f \in FileNames PROVE downloads'[n][f] <= Len(sent')
    <3>1. downloads[n][f] \in Nat /\ downloads[n][f] <= Len(sent) /\ downloads' = downloads
      BY <1>1, UploadBound DEF IInv, ArchivesSent, TypeOK
    <3> QED BY <1>2, <3>1
  <2> QED BY <2>1 DEF ArchivesSent
<1>6. RequestsKnow'
  <2>1. ASSUME NEW q \in Requests, Knows(handler[q], sent, saved)
        PROVE  Knows(handler[q], sent', saved')
    <3>1. handler[q].version \in 0 .. Len(sent')
      BY <1>2, <2>1 DEF Knows
    <3>2. handler[q].version # 0 => sent'[handler[q].version] = sent[handler[q].version]
      <4>1. handler[q].version # 0 => handler[q].version \in 1 .. Len(sent)
        BY <1>2, <2>1 DEF Knows
      <4> QED BY <1>1, <4>1, SentLater
    <3> QED BY <1>1, <2>1, <3>1, <3>2 DEF Knows
  <2> QED BY <1>1, <1>3, <2>1 DEF IInv, RequestsKnow
<1>7. ASSUME NEW n \in Names \ disturbed' PROVE GameFits(n)'
  <2>1. n \in Names \ disturbed
    BY <1>1
  <2>2. /\ \A q, p \in Requests : Name(q) = n /\ Name(p) = n => q = p
        /\ \A q \in Requests : Name(q) = n => Phase(handler[q], rows[n], temp, folder, sent)
        /\ Settled(n) => TempEmpty(n, temp) /\ Served(rows[n], n, folder, sent)
        /\ \A e \in Engines : OneUpload(folder[e][n])
    BY <2>1 DEF IInv, GameFits
  <2>3. n = h.name => \A q \in Requests : Name(q) # n
    BY <1>1
  <2>4. handler[r].name # n
    BY <1>1, NoneIsFresh DEF Idle
  <2>5. \A q, p \in Requests : handler'[q].name = n /\ handler'[p].name = n => q = p
    BY <1>3, <2>2, <2>3 DEF Name
  <2>6. ASSUME NEW q \in Requests, handler'[q].name = n
        PROVE  Phase(handler'[q], rows'[n], temp', folder', sent')
    <3>1. CASE q = r
      <4>1. handler'[q] = h /\ h.name = n
        BY <1>3, <2>6, <3>1
      <4>2. TempEmpty(n, temp) /\ Served(rows[n], n, folder, sent)
        BY <2>2, <2>3, <4>1 DEF Settled
      <4>3. Served(rows[n], n, folder, sent')
        BY <1>1, <4>2, ServedLater
      <4> QED BY <1>1, <4>1, <4>2, <4>3 DEF Phase
    <3>2. CASE q # r
      <4>1. handler'[q] = handler[q] /\ handler[q].name = n
        BY <1>3, <2>6, <3>2
      <4>2. Knows(handler[q], sent, saved)
        BY <4>1, NoneIsFresh DEF IInv, RequestsKnow, Idle
      <4>3. Phase(handler[q], rows[n], temp, folder, sent)
        BY <2>2, <4>1 DEF Name
      <4>4. Phase(handler[q], rows[n], temp, folder, sent')
        BY <1>1, <4>2, <4>3, PhaseLater
      <4> QED BY <1>1, <4>1, <4>4
    <3> QED BY <3>1, <3>2
  <2>7. ASSUME \A q \in Requests : handler'[q].name # n
        PROVE  TempEmpty(n, temp') /\ Served(rows'[n], n, folder', sent')
    <3>1. Settled(n)
      BY <1>3, <2>4, <2>7 DEF Settled, Name
    <3>2. Served(rows[n], n, folder, sent')
      BY <1>1, <2>2, <3>1, ServedLater
    <3> QED BY <1>1, <2>2, <3>1, <3>2
  <2> QED BY <1>1, <2>2, <2>5, <2>6, <2>7 DEF GameFits, Name, Settled
<1> QED
  BY <1>4, <1>5, <1>6, <1>7 DEF IInv

LEMMA SendsAppends ==
  ASSUME IInv, NEW archive \in Archives, Sends(archive)
  PROVE  /\ MayAppend(sent, sent') /\ Len(sent') <= MaxUploads
         /\ Len(sent') = Len(sent) + 1 /\ Len(sent) \in Nat
<1>1. sent \in Seq(Archives) /\ Len(sent) \in Nat
  BY DEF IInv, TypeOK
<1> QED
  BY <1>1, UploadBound DEF Sends, MayAppend

LEMMA CreateStep ==
  ASSUME IInv, NEW r \in Requests, NEW n \in Names, NEW e \in Engines,
         NEW f \in FileNames, NEW archive \in Archives, Create(r, n, e, f, archive)
  PROVE  IInv'
<1> DEFINE h == [Idle EXCEPT !.step = "validate", !.name = n, !.engine = e,
                             !.file = f, !.version = Len(sent) + 1]
<1>1. Begin(r, h) /\ Sends(archive)
  BY DEF Create
<1>2. /\ MayAppend(sent, sent') /\ Len(sent') <= MaxUploads
      /\ Len(sent') = Len(sent) + 1 /\ Len(sent) \in Nat
  BY <1>1, SendsAppends
<1>3. /\ h.step = "validate" /\ h.kind = "create" /\ h.name = n /\ h.engine = e
      /\ h.file = f /\ h.version = Len(sent') /\ h.id = 0 /\ ~h.answered
      /\ h \in Locals
  <2>1. PICK v \in 0 .. MaxUploads : v = Len(sent) + 1 /\ v = Len(sent')
    BY <1>2, UploadBound
  <2> QED BY <2>1, IdleLocals DEF Idle, Locals
<1> HIDE DEF h
<1>4. h \in Locals
  BY <1>3
<1>5. Knows(h, sent', saved)
  BY <1>2, <1>3 DEF Knows, Uploading
<1> QED
  BY <1>1, <1>2, <1>3, <1>4, <1>5, BeginStep

LEMMA UpdateStep ==
  ASSUME IInv, NEW r \in Requests, NEW n \in Names, NEW f \in FileNames,
         NEW archive \in Archives, Update(r, n, f, archive)
  PROVE  IInv'
<1> DEFINE h == [Idle EXCEPT !.step = "find", !.kind = "update", !.name = n,
                             !.file = f, !.version = Len(sent) + 1]
<1>1. Begin(r, h) /\ Sends(archive)
  BY DEF Update
<1>2. /\ MayAppend(sent, sent') /\ Len(sent') <= MaxUploads
      /\ Len(sent') = Len(sent) + 1 /\ Len(sent) \in Nat
  BY <1>1, SendsAppends
<1>3. /\ h.step = "find" /\ h.kind = "update" /\ h.name = n /\ h.engine = None
      /\ h.file = f /\ h.version = Len(sent') /\ h.id = 0 /\ ~h.answered
      /\ h \in Locals
  <2>1. PICK v \in 0 .. MaxUploads : v = Len(sent) + 1 /\ v = Len(sent')
    BY <1>2, UploadBound
  <2> QED BY <2>1, IdleLocals DEF Idle, Locals
<1> HIDE DEF h
<1>4. h \in Locals
  BY <1>3
<1>5. Knows(h, sent', saved)
  BY <1>2, <1>3 DEF Knows, Uploading
<1> QED
  BY <1>1, <1>2, <1>3, <1>4, <1>5, BeginStep

LEMMA ChangeStep ==
  ASSUME IInv, NEW r \in Requests, NEW n \in Names,
         NEW kind \in {"charset", "delete", "deleteFiles"}, Change(r, n, kind)
  PROVE  IInv'
<1> DEFINE h == [Idle EXCEPT !.step = "find", !.kind = kind, !.name = n]
<1>1. Begin(r, h) /\ sent' = sent
  BY DEF Change
<1>2. MayAppend(sent, sent') /\ Len(sent') <= MaxUploads /\ Len(sent') \in Nat
  BY <1>1 DEF MayAppend, IInv, TypeOK
<1>3. /\ h.step = "find" /\ h.kind = kind /\ h.name = n /\ h.engine = None
      /\ h.file = None /\ h.version = 0 /\ h.id = 0 /\ ~h.answered
      /\ h \in Locals
  BY UploadBound, IdleLocals DEF Idle, Locals
<1> HIDE DEF h
<1>4. h \in Locals
  BY <1>3
<1>5. Knows(h, sent', saved)
  BY <1>2, <1>3 DEF Knows, Uploading
<1> QED
  BY <1>1, <1>2, <1>3, <1>4, <1>5, BeginStep

-----------------------------------------------------------------------------
(* An archive is unpacked. *)

\* T with X in one place.
IsChanged(T, U, e, n, X) ==
  /\ U \in [Engines -> [Names -> Content]]
  /\ U[e][n] = X
  /\ \A d \in Engines : d # e => U[d][n] = T[d][n]
  /\ \A d \in Engines, m \in Names : m # n => U[d][m] = T[d][m]

LEMMA Changed ==
  ASSUME NEW T \in [Engines -> [Names -> Content]], NEW e \in Engines, NEW n \in Names,
         NEW X \in Content, NEW U, U = [T EXCEPT ![e][n] = X]
  PROVE  IsChanged(T, U, e, n, X)
<1>1. U \in [Engines -> [Names -> Content]] /\ U[e][n] = X
  BY Zenon
<1>2. \A d \in Engines, m \in Names : d # e \/ m # n => U[d][m] = T[d][m]
  OBVIOUS
<1> QED
  BY <1>1, <1>2 DEF IsChanged

LEMMA UnpackedIs ==
  ASSUME TypeOK, NEW v \in 1 .. Len(sent)
  PROVE  Unpacked(v) = Directory(v, sent) /\ Unpacked(v) \in Content
<1>1. v \in 0 .. MaxUploads
  BY UploadBound DEF TypeOK
<1>2. Unpacked(v) = Directory(v, sent)
  BY DEF Unpacked, Directory
<1>3. Directory(v, sent) \subseteq (0 .. MaxUploads) \X Directories
  BY <1>1 DEF Directory
<1> QED
  BY <1>2, <1>3 DEF Content

\* What a request needs to know before it looks into an archive.
MayUnpack(r, e, h) ==
  /\ h \in Locals /\ e \in Engines /\ h.engine = e /\ h.name = Name(r)
  /\ h.kind \in Uploading /\ ~h.answered /\ h.version \in 1 .. Len(sent)
  /\ h.kind \in {"create", "update"} => h.file \in FileNames
  /\ Name(r) \notin disturbed =>
       /\ TempEmpty(Name(r), temp) /\ Served(rows[Name(r)], Name(r), folder, sent)
       /\ RowFits(h, rows[Name(r)])

LEMMA RefusedGoesOn ==
  ASSUME NEW r,
         Name(r) \notin disturbed =>
           TempEmpty(Name(r), temp) /\ Served(rows[Name(r)], Name(r), folder, sent),
         UNCHANGED <<rows, temp, folder, disturbed>>
  PROVE  GoesOn(r, Idle)
BY DEF GoesOn

LEMMA UnpackStep ==
  ASSUME IInv, NEW r \in Requests, Knows(handler[r], sent, saved),
         NEW e, NEW h, MayUnpack(r, e, h), Unpack(r, e, h),
         UNCHANGED <<rows, downloads, folder, played, sent, history>>
  PROVE  IInv'
<1> DEFINE n == Name(r)
           g(step) == [h EXCEPT !.step = step]
<1>1. /\ h \in Locals /\ e \in Engines /\ h.engine = e /\ h.name = n
      /\ h.kind \in Uploading /\ ~h.answered /\ h.version \in 1 .. Len(sent)
      /\ h.kind \in {"create", "update"} => h.file \in FileNames
  BY DEF MayUnpack
<1>2. n \in Names /\ TypeOK
  BY DEF Knows, Name, IInv
<1>3. ASSUME NEW step \in {"save", "remove"}
      PROVE  /\ g(step) \in Locals /\ g(step).step = step /\ g(step).kind = h.kind
             /\ g(step).name = n /\ g(step).engine = e /\ g(step).file = h.file
             /\ g(step).version = h.version /\ g(step).id = h.id /\ ~g(step).answered
  BY <1>1 DEF Locals
<1>4. ASSUME NEW step \in {"save", "remove"},
             step = "remove" => e # "downloadable" /\ Accepts(e, sent[h.version])
      PROVE  Knows(g(step), sent, saved)
  <2> HIDE DEF g
  <2>1. Len(sent) \in Nat /\ h.version \in 0 .. Len(sent) /\ h.version # 0
    BY <1>1, <1>2 DEF TypeOK
  <2> QED BY <1>1, <1>2, <1>3, <1>4, <2>1 DEF Knows, Uploading
<1>5. ASSUME NEW step \in {"save", "remove"}, n \notin disturbed
      PROVE  RowFits(g(step), rows[n])
  <2> HIDE DEF g
  <2> QED BY <1>3, <1>5 DEF MayUnpack, RowFits
<1>6. CASE /\ e = "downloadable" /\ handler' = [handler EXCEPT ![r] = g("save")]
           /\ UNCHANGED temp
  <2> HIDE DEF g
  <2>1. n \notin disturbed => Phase(g("save"), rows[n], temp, folder, sent)
    <3> SUFFICES ASSUME n \notin disturbed PROVE Phase(g("save"), rows[n], temp, folder, sent)
      OBVIOUS
    <3>1. RowFits(g("save"), rows[n]) /\ TempEmpty(n, temp)
      BY <1>5 DEF MayUnpack
    <3> QED BY <1>3, <1>6, <3>1 DEF Phase
  <2>2. GoesOn(r, g("save"))
    BY <1>3, <1>4, <1>6, <2>1 DEF GoesOn, history
  <2> QED BY <1>3, <1>6, <2>2, AloneStep DEF history
<1>7. CASE Return(r) /\ UNCHANGED temp
  <2>1. GoesOn(r, Idle)
    BY <1>7, RefusedGoesOn DEF MayUnpack, history
  <2> QED BY <1>7, <2>1, IdleLocals, AloneStep DEF Return, history
<1>8. CASE /\ e # "downloadable" /\ Accepts(e, sent[h.version])
           /\ handler' = [handler EXCEPT ![r] = g("remove")]
           /\ temp' = [temp EXCEPT ![e][h.name] = @ \cup Unpacked(h.version)]
  <2> DEFINE X == temp[e][n] \cup Unpacked(h.version)
  <2>1. temp \in [Engines -> [Names -> Content]] /\ X \in Content
    BY <1>1, <1>2, UnpackedIs DEF TypeOK, Content
  <2>2. temp' = [temp EXCEPT ![e][n] = X]
    BY <1>1, <1>8
  <2>3. Unpacked(h.version) = Directory(h.version, sent)
    BY <1>1, <1>2, UnpackedIs
  <2> HIDE DEF X, g
  <2>4. /\ temp' \in [Engines -> [Names -> Content]]
        /\ temp'[e][n] = X
        /\ \A d \in Engines : d # e => temp'[d][n] = temp[d][n]
        /\ \A d \in Engines, m \in Names : m # n => temp'[d][m] = temp[d][m]
    <3> e \in Engines /\ n \in Names
      BY <1>1, <1>2
    <3> HIDE DEF n
    <3>1. IsChanged(temp, temp', e, n, X)
      BY <2>1, <2>2, Changed
    <3> QED BY <3>1 DEF IsChanged
  <2>5. n \notin disturbed => Phase(g("remove"), rows[n], temp', folder, sent)
    <3> SUFFICES ASSUME n \notin disturbed PROVE Phase(g("remove"), rows[n], temp', folder, sent)
      OBVIOUS
    <3>1. RowFits(g("remove"), rows[n]) /\ TempEmpty(n, temp)
      BY <1>5 DEF MayUnpack
    <3>2. temp'[e][n] = Directory(h.version, sent) /\ TempOnly(e, n, temp')
      BY <1>1, <2>3, <2>4, <3>1 DEF TempEmpty, TempOnly, X
    <3>3. g("remove").step = "remove" /\ g("remove").kind \in Uploading
      BY <1>1, <1>3
    <3> QED BY <1>1, <1>3, <3>1, <3>2, <3>3 DEF Phase, Uploading
  <2>6. GoesOn(r, g("remove"))
    BY <1>3, <1>4, <1>8, <2>5 DEF GoesOn, history
  <2>7. handler \in [Requests -> Locals] /\ handler' \in [Requests -> Locals]
    BY <1>2, <1>3, <1>8 DEF TypeOK
  <2>8. TypeOK' /\ ArchivesSent' /\ ArchivedWasSaved'
    BY <2>4, <2>7 DEF IInv, TypeOK, ArchivesSent, ArchivedWasSaved, history
  <2>9. OthersLeft(n)
    BY <2>4 DEF OthersLeft, SameFor
  <2>10. n \notin disturbed' => \A d \in Engines : OneUpload(folder'[d][n])
    BY <1>2 DEF IInv, GameFits, history
  <2> QED BY <1>8, <2>6, <2>8, <2>9, <2>10, RequestStep DEF history
<1> QED
  BY <1>6, <1>7, <1>8 DEF Unpack

\* What the request for an undisturbed game knows of it.
LEMMA PhaseHolds ==
  ASSUME IInv, NEW r \in Requests, Knows(handler[r], sent, saved)
  PROVE  /\ Name(r) \in Names /\ rows[Name(r)] \in Row \cup {None}
         /\ handler[r] \in Locals /\ sent \in Seq(Archives) /\ Len(sent) \in Nat
         /\ Name(r) \notin disturbed =>
              Phase(handler[r], rows[Name(r)], temp, folder, sent)
BY DEF IInv, TypeOK, GameFits, Knows, Name

\* A request that is not idle is one that knows.
LEMMA BusyKnows ==
  ASSUME IInv, NEW r \in Requests, handler[r] # Idle
  PROVE  Knows(handler[r], sent, saved)
BY DEF IInv, RequestsKnow

LEMMA StepKnows ==
  ASSUME IInv, NEW r \in Requests, handler[r].step # "idle"
  PROVE  Knows(handler[r], sent, saved)
BY BusyKnows DEF Idle

LEMMA ValidateNameStep ==
  ASSUME IInv, NEW r \in Requests, ValidateName(r)
  PROVE  IInv'
<1> DEFINE n == Name(r)
<1>1. /\ At(r, "validate")
      /\ UNCHANGED <<rows, downloads, folder, played, sent, history>>
      /\ Knows(handler[r], sent, saved)
  BY StepKnows DEF ValidateName, At
<1>2. /\ n \in Names /\ handler[r] \in Locals /\ Len(sent) \in Nat
      /\ n \notin disturbed => Phase(handler[r], rows[n], temp, folder, sent)
  BY <1>1, PhaseHolds
<1>3. n \notin disturbed => TempEmpty(n, temp) /\ Served(rows[n], n, folder, sent)
  BY <1>1, <1>2 DEF At, Phase, Name
<1>4. CASE Refused(r)
  <2>1. GoesOn(r, Idle)
    BY <1>1, <1>3, <1>4, RefusedGoesOn DEF Refused, history
  <2> QED BY <1>1, <1>4, <2>1, IdleLocals, AloneStep DEF Refused, Return, history
<1>5. CASE /\ ~Taken(n)
           /\ \E c \in {"GAMES", "OTHERS"} :
                LET e == FixKind(c, Engine(r))
                IN Unpack(r, e, [handler[r] EXCEPT !.engine = e])
  <2>1. PICK c \in {"GAMES", "OTHERS"} :
          Unpack(r, FixKind(c, Engine(r)), [handler[r] EXCEPT !.engine = FixKind(c, Engine(r))])
    BY <1>5
  <2> DEFINE e == FixKind(c, Engine(r))
             h == [handler[r] EXCEPT !.engine = e]
  <2>2. e \in Engines
    BY <1>1, KnownEngines DEF FixKind, Engine, Knows, At
  <2> HIDE DEF e
  <2>3. /\ h \in Locals /\ h.engine = e /\ h.name = n /\ h.kind = handler[r].kind
        /\ h.answered = handler[r].answered /\ h.version = handler[r].version
        /\ h.file = handler[r].file
    BY <1>2, <2>2 DEF Locals, Name
  <2> HIDE DEF h
  <2>4. /\ h.kind = "create" /\ ~h.answered /\ h.version \in 1 .. Len(sent)
        /\ h.file \in FileNames
    BY <1>1, <1>2, <2>3 DEF Knows, At
  <2>5. RowFits(h, rows[n])
    BY <1>5, <2>4 DEF RowFits, Taken
  <2>6. MayUnpack(r, e, h)
    BY <1>3, <2>2, <2>3, <2>4, <2>5 DEF MayUnpack, Uploading
  <2>7. Unpack(r, e, h)
    BY <2>1 DEF e, h
  <2> HIDE DEF n
  <2> QED BY <1>1, <2>6, <2>7, UnpackStep
<1> QED BY <1>4, <1>5 DEF ValidateName, n

LEMMA FindStep ==
  ASSUME IInv, NEW r \in Requests, Find(r)
  PROVE  IInv'
<1> DEFINE n == Name(r)
           h == [handler[r] EXCEPT !.id = rows[n].id, !.engine = rows[n].engine]
<1>1. /\ At(r, "find") /\ UNCHANGED <<rows, downloads, folder, played, sent, history>>
      /\ Knows(handler[r], sent, saved)
  BY StepKnows DEF Find, At
<1>2. /\ n \in Names /\ rows[n] \in Row \cup {None} /\ handler[r] \in Locals
      /\ Len(sent) \in Nat
      /\ n \notin disturbed => Phase(handler[r], rows[n], temp, folder, sent)
  BY <1>1, PhaseHolds
<1>3. n \notin disturbed => TempEmpty(n, temp) /\ Served(rows[n], n, folder, sent)
  BY <1>1, <1>2 DEF At, Phase, Name
<1>4. /\ h.kind = handler[r].kind /\ h.answered = handler[r].answered
      /\ h.version = handler[r].version /\ h.file = handler[r].file /\ h.name = n
      /\ h.engine = rows[n].engine /\ h.id = rows[n].id /\ ~h.answered
  BY <1>1, <1>2 DEF Locals, Name, Knows, At
<1>5. rows[n] # None => /\ h \in Locals /\ h.engine \in Engines /\ h.id \in Upload
                        /\ rows[n].file \in FileNames \cup {None} /\ h.id # 0
  <2> SUFFICES ASSUME rows[n] # None
               PROVE  /\ h \in Locals /\ h.engine \in Engines /\ h.id \in Upload
                      /\ rows[n].file \in FileNames \cup {None} /\ h.id # 0
    OBVIOUS
  <2>1. PICK x \in Row : x = rows[n]
    BY <1>2
  <2>2. x.id \in 0 .. MaxUploads /\ x.engine \in Engines /\ x.id \in Upload /\ x.id # 0
        /\ x.file \in FileNames \cup {None}
    BY UploadBound DEF Row, Upload
  <2>3. [handler[r] EXCEPT !.id = x.id, !.engine = x.engine] \in Locals
    BY <1>2, <2>2 DEF Locals
  <2> QED BY <1>4, <2>1, <2>2, <2>3
<1> HIDE DEF h
<1>6. CASE Refused(r)
  <2>1. GoesOn(r, Idle)
    BY <1>1, <1>3, <1>6, RefusedGoesOn DEF Refused, history
  <2> QED BY <1>1, <1>6, <2>1, IdleLocals, AloneStep DEF Refused, Return, history
<1>7. CASE Taken(n) /\ h.kind = "update" /\ Unpack(r, h.engine, h)
  <2>1. h.version \in 1 .. Len(sent) /\ h.file \in FileNames
    BY <1>1, <1>2, <1>4, <1>7 DEF Knows
  <2>2. RowFits(h, rows[n])
    BY <1>4, <1>7 DEF RowFits, Taken
  <2>3. MayUnpack(r, h.engine, h)
    BY <1>3, <1>4, <1>5, <1>7, <2>1, <2>2 DEF MayUnpack, Uploading, Taken
  <2> QED BY <1>1, <1>7, <2>3, UnpackStep
<1>8. CASE /\ Taken(n) /\ h.kind = "charset" /\ rows[n].file # None
           /\ handler' = [handler EXCEPT ![r] =
                [h EXCEPT !.step = "read", !.file = rows[n].file]]
           /\ UNCHANGED temp
  <2> DEFINE g == [h EXCEPT !.step = "read", !.file = rows[n].file]
  <2>1. /\ g \in Locals /\ g.step = "read" /\ g.file = rows[n].file /\ g.name = n
        /\ g.kind = "charset" /\ g.engine = h.engine /\ g.id = h.id /\ ~g.answered
        /\ g.version = handler[r].version
    BY <1>4, <1>5, <1>8 DEF Locals, Taken
  <2> HIDE DEF g
  <2>2. Knows(g, sent, saved)
    BY <1>1, <1>2, <1>5, <1>8, <2>1 DEF Knows, Uploading, Taken
  <2>3. n \notin disturbed => Phase(g, rows[n], temp, folder, sent)
    <3>1. RowFits(g, rows[n])
      BY <1>4, <1>8, <2>1 DEF RowFits, Taken
    <3> QED BY <1>3, <2>1, <3>1 DEF Phase
  <2>4. GoesOn(r, g)
    BY <1>1, <1>8, <2>1, <2>2, <2>3 DEF GoesOn, history
  <2> QED BY <1>1, <1>8, <2>1, <2>4, AloneStep DEF g, history
<1>9. CASE /\ Taken(n) /\ h.kind = "delete"
           /\ handler' = [handler EXCEPT ![r] = [h EXCEPT !.step = "remove"]]
           /\ UNCHANGED temp
  <2> DEFINE g == [h EXCEPT !.step = "remove"]
  <2>1. /\ g \in Locals /\ g.step = "remove" /\ g.file = h.file /\ g.name = n
        /\ g.kind = "delete" /\ g.engine = h.engine /\ g.id = h.id /\ ~g.answered
        /\ g.version = handler[r].version
    BY <1>4, <1>5, <1>9 DEF Locals, Taken
  <2> HIDE DEF g
  <2>2. Knows(g, sent, saved)
    BY <1>1, <1>2, <1>5, <1>9, <2>1 DEF Knows, Uploading, Taken
  <2>3. n \notin disturbed => Phase(g, rows[n], temp, folder, sent)
    <3>1. RowFits(g, rows[n])
      BY <1>4, <1>9, <2>1 DEF RowFits, Taken
    <3> QED BY <1>3, <2>1, <3>1 DEF Phase, Uploading
  <2>4. GoesOn(r, g)
    BY <1>1, <1>9, <2>1, <2>2, <2>3 DEF GoesOn, history
  <2> QED BY <1>1, <1>9, <2>1, <2>4, AloneStep DEF g, history
<1>10. CASE /\ Taken(n) /\ h.kind = "deleteFiles"
            /\ handler' = [handler EXCEPT ![r] = [h EXCEPT !.step = "nullFile"]]
            /\ UNCHANGED temp
  <2> DEFINE g == [h EXCEPT !.step = "nullFile"]
  <2>1. /\ g \in Locals /\ g.step = "nullFile" /\ g.file = h.file /\ g.name = n
        /\ g.kind = "deleteFiles" /\ g.engine = h.engine /\ g.id = h.id /\ ~g.answered
        /\ g.version = handler[r].version
    BY <1>4, <1>5, <1>10 DEF Locals, Taken
  <2> HIDE DEF g
  <2>2. Knows(g, sent, saved)
    BY <1>1, <1>2, <1>5, <1>10, <2>1 DEF Knows, Uploading, Taken
  <2>3. n \notin disturbed => Phase(g, rows[n], temp, folder, sent)
    <3>1. RowFits(g, rows[n])
      BY <1>4, <1>10, <2>1 DEF RowFits, Taken
    <3> QED BY <1>3, <2>1, <3>1 DEF Phase, Uploading
  <2>4. GoesOn(r, g)
    BY <1>1, <1>10, <2>1, <2>2, <2>3 DEF GoesOn, history
  <2> QED BY <1>1, <1>10, <2>1, <2>4, AloneStep DEF g, history
<1> QED
  BY <1>6, <1>7, <1>8, <1>9, <1>10 DEF Find, h, n

LEMMA ReadArchiveStep ==
  ASSUME IInv, NEW r \in Requests, ReadArchive(r)
  PROVE  IInv'
<1> DEFINE n == Name(r)
           v == downloads[n][handler[r].file]
           h == [handler[r] EXCEPT !.version = v]
<1>1. /\ At(r, "read") /\ UNCHANGED <<rows, downloads, folder, played, sent, history>>
      /\ Knows(handler[r], sent, saved)
  BY StepKnows DEF ReadArchive, At
<1>2. /\ n \in Names /\ rows[n] \in Row \cup {None} /\ handler[r] \in Locals
      /\ Len(sent) \in Nat
      /\ n \notin disturbed => Phase(handler[r], rows[n], temp, folder, sent)
  BY <1>1, PhaseHolds
<1>3. n \notin disturbed =>
        /\ TempEmpty(n, temp) /\ Served(rows[n], n, folder, sent)
        /\ RowFits(handler[r], rows[n])
  BY <1>1, <1>2 DEF At, Phase, Name
<1>4. v \in 0 .. MaxUploads /\ v \in 0 .. Len(sent)
  <2>1. handler[r].file \in FileNames
    BY <1>1 DEF Knows, At
  <2>2. v \in 0 .. MaxUploads
    BY <1>2, <2>1 DEF IInv, TypeOK
  <2>3. v <= Len(sent)
    BY <1>2, <2>1 DEF IInv, ArchivesSent
  <2> HIDE DEF v
  <2> QED BY <1>2, <2>2, <2>3, UploadBound
<1> HIDE DEF v
<1>5. /\ h \in Locals /\ h.kind = handler[r].kind /\ h.answered = handler[r].answered
      /\ h.name = n /\ h.engine = Engine(r) /\ h.id = handler[r].id /\ h.version = v
  BY <1>2, <1>4 DEF Locals, Name, Engine
<1> HIDE DEF h
<1>6. /\ h.kind = "charset" /\ ~h.answered /\ h.engine \in Engines
  BY <1>1, <1>5 DEF Knows, At, Engine
<1>7. CASE Refused(r)
  <2>1. GoesOn(r, Idle)
    BY <1>1, <1>3, <1>7, RefusedGoesOn DEF Refused, history
  <2> QED BY <1>1, <1>7, <2>1, IdleLocals, AloneStep DEF Refused, Return, history
<1>8. CASE v # 0 /\ Unpack(r, Engine(r), h)
  <2>1. n \notin disturbed => RowFits(h, rows[n])
    BY <1>1, <1>3, <1>5, <1>6 DEF RowFits, Engine, Knows, At
  <2>2. h.version \in 1 .. Len(sent)
    BY <1>2, <1>4, <1>5, <1>8
  <2>3. MayUnpack(r, Engine(r), h)
    BY <1>3, <1>5, <1>6, <2>1, <2>2 DEF MayUnpack, Uploading
  <2> QED BY <1>1, <1>8, <2>3, UnpackStep
<1> QED
  BY <1>7, <1>8 DEF ReadArchive, h, v, n

-----------------------------------------------------------------------------
(* The folders. *)

\* n's request adds n to the disturbed games, or nothing.
MayDisturb(n) == disturbed' = disturbed \/ disturbed' = disturbed \cup {n}

LEMMA FolderStep ==
  ASSUME IInv, NEW r \in Requests, Knows(handler[r], sent, saved),
         Engine(r) \in Engines, NEW X \in Content,
         folder' = [folder EXCEPT ![Engine(r)][Name(r)] = X],
         NEW h \in Locals, handler' = [handler EXCEPT ![r] = h], GoesOn(r, h),
         Name(r) \notin disturbed' => OneUpload(X),
         UNCHANGED <<rows, downloads, temp, sent, saved>>, played' \subseteq Names,
         MayDisturb(Name(r))
  PROVE  IInv'
<1> DEFINE n == Name(r)
           e == Engine(r)
<1>1. n \in Names /\ e \in Engines /\ folder \in [Engines -> [Names -> Content]]
  BY DEF IInv, TypeOK, Knows, Name
<1>2. folder' = [folder EXCEPT ![e][n] = X]
  OBVIOUS
<1> HIDE DEF n, e
<1>3. /\ folder' \in [Engines -> [Names -> Content]]
      /\ folder'[e][n] = X
      /\ \A d \in Engines : d # e => folder'[d][n] = folder[d][n]
      /\ \A d \in Engines, m \in Names : m # n => folder'[d][m] = folder[d][m]
  <2>1. PICK d \in Engines, m \in Names : d = e /\ m = n
    BY <1>1
  <2>2. X \in Content /\ folder' = [folder EXCEPT ![d][m] = X]
    BY <1>2, <2>1
  <2>3. IsChanged(folder, folder', d, m, X)
    BY <1>1, <2>2, Changed
  <2> QED BY <2>1, <2>3 DEF IsChanged
<1>4. disturbed \subseteq disturbed' /\ disturbed' \subseteq Names
  BY <1>1 DEF IInv, TypeOK, MayDisturb, n
<1>5. handler' \in [Requests -> Locals]
  BY DEF IInv, TypeOK
<1>6. TypeOK' /\ ArchivesSent' /\ ArchivedWasSaved'
  BY <1>3, <1>4, <1>5 DEF IInv, TypeOK, ArchivesSent, ArchivedWasSaved
<1>7. OthersLeft(n)
  BY <1>3 DEF OthersLeft, SameFor
<1>8. ASSUME n \notin disturbed', NEW d \in Engines PROVE OneUpload(folder'[d][n])
  <2>1. GameFits(n)
    BY <1>1, <1>4, <1>8 DEF IInv
  <2> QED BY <1>3, <1>8, <2>1 DEF GameFits, n
<1> QED
  BY <1>4, <1>6, <1>7, <1>8, RequestStep DEF n

LEMMA RemoveFolderStep ==
  ASSUME IInv, NEW r \in Requests, RemoveFolder(r)
  PROVE  IInv'
<1> DEFINE n == Name(r)
           e == Engine(r)
           h == handler[r]
<1>1. /\ h.step = "remove" /\ UNCHANGED <<rows, downloads, temp, sent, saved, disturbed>>
      /\ Knows(h, sent, saved)
      /\ folder' = [folder EXCEPT ![e][n] = {}]
      /\ FolderRemoved(r)
  BY StepKnows DEF RemoveFolder, At, history
<1>2. /\ n \in Names /\ rows[n] \in Row \cup {None} /\ h \in Locals
      /\ Len(sent) \in Nat
      /\ n \notin disturbed => Phase(h, rows[n], temp, folder, sent)
  BY <1>1, PhaseHolds
<1>3. e \in Engines /\ h.name = n /\ h.engine = e
  BY <1>1 DEF Knows, Engine, Name
<1>4. folder'[e][n] = {}
  <2> folder \in [Engines -> [Names -> Content]]
    BY DEF IInv, TypeOK
  <2> HIDE DEF e, n
  <2> QED BY <1>1, <1>2, <1>3, Changed DEF Content
<1>5. played' \subseteq Names
  BY DEF RemoveFolder, IInv, TypeOK
<1>6. ASSUME NEW g \in Locals, handler' = [handler EXCEPT ![r] = g], GoesOn(r, g)
      PROVE  IInv'
  BY <1>1, <1>3, <1>5, <1>6, FolderStep DEF Content, OneUpload, MayDisturb
<1> HIDE DEF h
<1>7. CASE /\ h.kind \in {"create", "update", "charset"}
           /\ Goto(r, IF e = "mt" THEN "worldMt" ELSE "copy")
  <2> DEFINE to == IF e = "mt" THEN "worldMt" ELSE "copy"
             g == [h EXCEPT !.step = to]
  <2>1. to \in {"worldMt", "copy"}
    OBVIOUS
  <2> HIDE DEF to
  <2>2. /\ g \in Locals /\ g.step = to /\ g.file = h.file /\ g.name = n
        /\ g.kind = h.kind /\ g.engine = e /\ g.id = h.id /\ g.answered = h.answered
        /\ g.version = h.version
    BY <1>2, <1>3, <2>1 DEF Locals
  <2>3. handler' = [handler EXCEPT ![r] = g]
    <3>1. handler \in [Requests -> Locals]
      BY DEF IInv, TypeOK
    <3> QED BY <1>7, <3>1 DEF Goto, to, h
  <2> HIDE DEF g
  <2>4. Knows(g, sent, saved')
    BY <1>1, <1>3, <1>7, <2>1, <2>2 DEF Knows, Uploading
  <2>5. n \notin disturbed => Phase(g, rows[n], temp, folder', sent)
    <3> SUFFICES ASSUME n \notin disturbed PROVE Phase(g, rows[n], temp, folder', sent)
      OBVIOUS
    <3>1. /\ RowFits(h, rows[n])
          /\ temp[e][n] = Directory(h.version, sent) /\ TempOnly(e, n, temp)
      BY <1>1, <1>2, <1>3, <1>7 DEF Phase, Uploading
    <3>2. RowFits(g, rows[n])
      BY <1>3, <2>2, <3>1 DEF RowFits
    <3> QED BY <1>4, <1>7, <2>1, <2>2, <3>1, <3>2 DEF Phase, Uploading
  <2>6. GoesOn(r, g)
    BY <1>1, <2>2, <2>4, <2>5 DEF GoesOn
  <2> QED BY <1>6, <2>2, <2>3, <2>6
<1>8. CASE h.kind = "delete" /\ ~h.answered /\ Goto(r, "idle")
  <2> DEFINE g == [h EXCEPT !.step = "idle"]
  <2>1. /\ g \in Locals /\ g.step = "idle" /\ g.file = h.file /\ g.name = n
        /\ g.kind = h.kind /\ g.engine = e /\ g.id = h.id /\ g.answered = h.answered
        /\ g.version = h.version
    BY <1>2, <1>3 DEF Locals
  <2>2. handler' = [handler EXCEPT ![r] = g]
    <3>1. handler \in [Requests -> Locals]
      BY DEF IInv, TypeOK
    <3> QED BY <1>8, <3>1 DEF Goto, h
  <2> HIDE DEF g
  <2>3. Knows(g, sent, saved')
    BY <1>1, <1>3, <1>8, <2>1 DEF Knows, Uploading
  <2>4. n \notin disturbed => Phase(g, rows[n], temp, folder', sent)
    <3> SUFFICES ASSUME n \notin disturbed PROVE Phase(g, rows[n], temp, folder', sent)
      OBVIOUS
    <3>1. RowFits(h, rows[n]) /\ TempEmpty(n, temp)
      BY <1>1, <1>2, <1>3, <1>8 DEF Phase
    <3>2. RowFits(g, rows[n])
      BY <1>3, <2>1, <3>1 DEF RowFits
    <3> QED BY <1>8, <2>1, <3>1, <3>2 DEF Phase, Uploading
  <2>5. GoesOn(r, g)
    BY <1>1, <2>1, <2>3, <2>4 DEF GoesOn
  <2> QED BY <1>6, <2>1, <2>2, <2>5
<1>9. CASE h.answered /\ Return(r)
  <2>1. n \notin disturbed => TempEmpty(n, temp) /\ Served(rows[n], n, folder', sent)
    <3> SUFFICES ASSUME n \notin disturbed
                 PROVE  TempEmpty(n, temp) /\ Served(rows[n], n, folder', sent)
      OBVIOUS
    <3>1. h.kind \in {"delete", "deleteFiles"}
      BY <1>1, <1>9 DEF Knows
    <3>2. TempEmpty(n, temp)
      BY <1>1, <1>2, <1>3, <3>1 DEF Phase
    <3>3. rows[n] = None \/ rows[n].file = None
      BY <1>1, <1>2, <1>3, <1>9, <3>1 DEF Phase, RowFits
    <3> QED BY <3>2, <3>3 DEF Served
  <2>2. GoesOn(r, Idle)
    BY <1>1, <2>1 DEF GoesOn
  <2> QED BY <1>6, <1>9, <2>2, IdleLocals DEF Return
<1> QED
  BY <1>1, <1>7, <1>8, <1>9 DEF FolderRemoved, h, e

\* A request that goes to its next step remembers what it did.
LEMMA GotoIs ==
  ASSUME IInv, NEW r \in Requests,
         NEW to \in {"idle", "overview", "copy", "index", "removeTemp", "save", "archive",
                     "worldMt"},
         Goto(r, to)
  PROVE  \E g \in Locals :
           /\ handler' = [handler EXCEPT ![r] = g]
           /\ g.step = to /\ g.kind = handler[r].kind /\ g.name = handler[r].name
           /\ g.engine = handler[r].engine /\ g.file = handler[r].file
           /\ g.version = handler[r].version /\ g.id = handler[r].id
           /\ g.answered = handler[r].answered
<1>1. handler \in [Requests -> Locals]
  BY DEF IInv, TypeOK
<1> DEFINE h == handler[r]
           g == [h EXCEPT !.step = to]
<1>2. handler' = [handler EXCEPT ![r] = g]
  BY <1>1 DEF Goto
<1>3. h \in Locals
  BY <1>1
<1> HIDE DEF h
<1>4. /\ g \in Locals /\ g.step = to /\ g.kind = h.kind /\ g.name = h.name
      /\ g.engine = h.engine /\ g.file = h.file
      /\ g.version = h.version /\ g.id = h.id /\ g.answered = h.answered
  BY <1>3 DEF Locals
<1> HIDE DEF g
<1> QED
  BY <1>2, <1>4 DEF h

\* A failure after the folder was removed disturbs the game.
LEMMA FailLateGoesOn ==
  ASSUME NEW r, FailLate(r)
  PROVE  GoesOn(r, Idle) /\ MayDisturb(Name(r)) /\ handler' = [handler EXCEPT ![r] = Idle]
BY DEF FailLate, GoesOn, MayDisturb, Return

LEMMA TempStep ==
  ASSUME IInv, NEW r \in Requests, Knows(handler[r], sent, saved),
         Engine(r) \in Engines, NEW X \in Content,
         temp' = [temp EXCEPT ![Engine(r)][Name(r)] = X],
         NEW h \in Locals, handler' = [handler EXCEPT ![r] = h], GoesOn(r, h),
         UNCHANGED <<rows, downloads, folder, played, sent, saved>>,
         MayDisturb(Name(r))
  PROVE  IInv'
<1> DEFINE n == Name(r)
           e == Engine(r)
<1>1. n \in Names /\ e \in Engines /\ temp \in [Engines -> [Names -> Content]]
  BY DEF IInv, TypeOK, Knows, Name
<1>2. temp' = [temp EXCEPT ![e][n] = X]
  OBVIOUS
<1> HIDE DEF n, e
<1>3. /\ temp' \in [Engines -> [Names -> Content]]
      /\ \A d \in Engines, m \in Names : m # n => temp'[d][m] = temp[d][m]
  <2>1. PICK d \in Engines, m \in Names : d = e /\ m = n
    BY <1>1
  <2>2. X \in Content /\ temp' = [temp EXCEPT ![d][m] = X]
    BY <1>2, <2>1
  <2>3. IsChanged(temp, temp', d, m, X)
    BY <1>1, <2>2, Changed
  <2> QED BY <2>1, <2>3 DEF IsChanged
<1>4. disturbed \subseteq disturbed' /\ disturbed' \subseteq Names
  BY <1>1 DEF IInv, TypeOK, MayDisturb, n
<1>5. handler' \in [Requests -> Locals]
  BY DEF IInv, TypeOK
<1>6. TypeOK' /\ ArchivesSent' /\ ArchivedWasSaved'
  BY <1>3, <1>4, <1>5 DEF IInv, TypeOK, ArchivesSent, ArchivedWasSaved
<1>7. OthersLeft(n)
  BY <1>3 DEF OthersLeft, SameFor
<1>8. ASSUME n \notin disturbed', NEW d \in Engines PROVE OneUpload(folder'[d][n])
  <2>1. GameFits(n)
    BY <1>1, <1>4, <1>8 DEF IInv
  <2> QED BY <1>3, <1>8, <2>1 DEF GameFits, n
<1> QED
  BY <1>4, <1>6, <1>7, <1>8, RequestStep DEF n

\* The temporary folder of one game is changed.
LEMMA TempIs ==
  ASSUME IInv, NEW e \in Engines, NEW n \in Names, NEW X \in Content,
         temp' = [temp EXCEPT ![e][n] = X]
  PROVE  IsChanged(temp, temp', e, n, X)
<1>1. temp \in [Engines -> [Names -> Content]]
  BY DEF IInv, TypeOK
<1> QED
  BY <1>1, Changed

LEMMA FolderIs ==
  ASSUME IInv, NEW e \in Engines, NEW n \in Names, NEW X \in Content,
         folder' = [folder EXCEPT ![e][n] = X]
  PROVE  folder'[e][n] = X
<1>1. folder \in [Engines -> [Names -> Content]]
  BY DEF IInv, TypeOK
<1>2. IsChanged(folder, folder', e, n, X)
  BY <1>1, Changed
<1> QED BY <1>2 DEF IsChanged

\* What a request with an archive unpacked knows.
LEMMA UnpackedKnows ==
  ASSUME IInv, NEW r \in Requests,
         handler[r].step \in {"worldMt", "overview", "copy", "index", "removeTemp", "save"}
  PROVE  /\ Knows(handler[r], sent, saved)
         /\ handler[r].kind \in Uploading /\ handler[r].version \in 1 .. Len(sent)
         /\ Engine(r) \in Engines /\ Name(r) \in Names
         /\ handler[r].name = Name(r) /\ handler[r].engine = Engine(r)
         /\ ~handler[r].answered /\ handler[r] \in Locals
         /\ sent \in Seq(Archives) /\ rows[Name(r)] \in Row \cup {None}
         /\ Name(r) \notin disturbed =>
              Phase(handler[r], rows[Name(r)], temp, folder, sent)
<1>1. Knows(handler[r], sent, saved)
  BY StepKnows
<1>2. handler[r].version # 0 /\ handler[r].kind \in Uploading /\ ~handler[r].answered
  BY <1>1 DEF Knows
<1>3. Len(sent) \in Nat /\ handler[r].version \in 0 .. Len(sent)
  BY <1>1 DEF Knows, IInv, TypeOK
<1> QED
  BY <1>1, <1>2, <1>3, PhaseHolds DEF Knows, Engine, Name

LEMMA HandleWorldMtStep ==
  ASSUME IInv, NEW r \in Requests, HandleWorldMt(r) \/ DrawOverview(r)
  PROVE  IInv'
<1> DEFINE n == Name(r)
           h == handler[r]
<1>1. /\ h.step \in {"worldMt", "overview"}
      /\ UNCHANGED <<rows, downloads, temp, folder, played, sent, saved>>
  BY DEF HandleWorldMt, DrawOverview, At, history
<1>2. /\ Knows(h, sent, saved) /\ h.kind \in Uploading /\ Engine(r) \in Engines
      /\ n \in Names /\ h.name = n /\ h.engine = Engine(r) /\ ~h.answered
      /\ n \notin disturbed => Phase(h, rows[n], temp, folder, sent)
  BY <1>1, UnpackedKnows
<1>3. ASSUME NEW to \in {"overview", "copy"}, Goto(r, to), UNCHANGED disturbed
      PROVE  IInv'
  <2>1. PICK g \in Locals :
           /\ handler' = [handler EXCEPT ![r] = g]
           /\ g.step = to /\ g.kind = h.kind /\ g.name = h.name
           /\ g.engine = h.engine /\ g.file = h.file
           /\ g.version = h.version /\ g.id = h.id /\ g.answered = h.answered
    BY <1>3, GotoIs
  <2>2. Knows(g, sent, saved)
    BY <1>1, <1>2, <2>1 DEF Knows, Uploading
  <2>3. ASSUME n \notin disturbed PROVE Phase(g, rows[n], temp, folder, sent)
    <3>1. RowFits(h, rows[n]) => RowFits(g, rows[n])
      BY <2>1 DEF RowFits
    <3> QED BY <1>1, <1>2, <2>1, <2>3, <3>1 DEF Phase, Uploading
  <2>4. GoesOn(r, g)
    BY <1>1, <1>2, <1>3, <2>1, <2>2, <2>3 DEF GoesOn
  <2> QED BY <1>1, <1>2, <1>3, <2>1, <2>4, AloneStep
<1>4. CASE FailLate(r)
  <2>1. temp \in [Engines -> [Names -> Content]]
    BY DEF IInv, TypeOK
  <2>2. temp' = [temp EXCEPT ![Engine(r)][n] = temp[Engine(r)][n]]
        /\ temp[Engine(r)][n] \in Content
    BY <1>1, <1>2, <2>1
  <2> QED BY <1>1, <1>2, <1>4, <2>2, FailLateGoesOn, IdleLocals, TempStep
<1> QED
  BY <1>3, <1>4 DEF HandleWorldMt, DrawOverview, history

\* What is copied is the directory the game is in, nothing if there is none.
LEMMA CopiedIs ==
  ASSUME IInv, NEW r \in Requests, handler[r].step = "copy", Name(r) \notin disturbed
  PROVE  /\ AtEntry(r) # {} =>
              GoodFolder(Engine(r), AtEntry(r), sent)
         /\ Entry(r) = "" => AtEntry(r) # {}
         /\ folder[Engine(r)][Name(r)] = {}
         /\ TempOnly(Engine(r), Name(r), temp)
         /\ RowFits(handler[r], rows[Name(r)])
<1> DEFINE e == Engine(r)
           v == handler[r].version
<1>1. /\ Knows(handler[r], sent, saved) /\ handler[r].kind \in Uploading
      /\ v \in 1 .. Len(sent) /\ e \in Engines
      /\ handler[r].name = Name(r) /\ handler[r].engine = e /\ sent \in Seq(Archives)
      /\ Phase(handler[r], rows[Name(r)], temp, folder, sent)
  BY UnpackedKnows
<1>2. /\ temp[e][Name(r)] = Directory(v, sent)
      /\ folder[e][Name(r)] = {} /\ TempOnly(e, Name(r), temp)
      /\ RowFits(handler[r], rows[Name(r)])
  BY <1>1 DEF Phase
<1>3. e # "downloadable" /\ Accepts(e, sent[v]) /\ v \in DOMAIN sent
  BY <1>1 DEF Knows
<1>4. AtEntry(r) = {x \in Directory(v, sent) : x[2] = EntryPath(e, sent[v])}
  BY <1>2 DEF AtEntry, Temp, Entry, Engine
<1> HIDE DEF e, v
<1>5. AtEntry(r) = IF EntryPath(e, sent[v]) \in Directories THEN {Origin(e, v, sent)} ELSE {}
  BY <1>1, <1>3, <1>4, EntryUnpacked
<1>6. Entry(r) = EntryPath(e, sent[v])
  BY DEF Entry, e, v
<1>7. AtEntry(r) # {} => GoodFolder(e, AtEntry(r), sent)
  BY <1>3, <1>5 DEF GoodFolder
<1>8. Entry(r) = "" => AtEntry(r) # {}
  BY <1>5, <1>6 DEF Directories
<1> QED
  BY <1>2, <1>7, <1>8 DEF e

LEMMA CopyFolderStep ==
  ASSUME IInv, NEW r \in Requests, CopyFolder(r)
  PROVE  IInv'
<1> DEFINE n == Name(r)
           e == Engine(r)
           h == handler[r]
           X == folder[e][n] \cup AtEntry(r)
<1>1. /\ h.step = "copy" /\ UNCHANGED <<rows, downloads, temp, played, sent, saved>>
  BY DEF CopyFolder, At
<1>2. /\ Knows(h, sent, saved) /\ h.kind \in Uploading /\ e \in Engines
      /\ n \in Names /\ h.name = n /\ h.engine = e /\ ~h.answered /\ h \in Locals
      /\ n \notin disturbed => Phase(h, rows[n], temp, folder, sent)
  BY <1>1, UnpackedKnows
<1>3. X \in Content /\ played' \subseteq Names
  <2>1. temp[e][n] \in Content /\ folder[e][n] \in Content
    BY <1>2 DEF IInv, TypeOK
  <2> QED BY <1>1, <2>1 DEF AtEntry, Temp, Content, IInv, TypeOK
<1>4. CASE FailLate(r) /\ UNCHANGED folder
  <2>1. folder \in [Engines -> [Names -> Content]]
    BY DEF IInv, TypeOK
  <2>2. folder' = [folder EXCEPT ![e][n] = folder[e][n]] /\ folder[e][n] \in Content
    BY <1>2, <1>4, <2>1
  <2>3. GoesOn(r, Idle) /\ MayDisturb(n) /\ handler' = [handler EXCEPT ![r] = Idle]
    BY <1>4, FailLateGoesOn
  <2>4. n \notin disturbed' => OneUpload(folder[e][n])
    BY <1>2, <1>4 DEF FailLate
  <2> QED BY <1>1, <1>2, <1>3, <2>2, <2>3, <2>4, IdleLocals, FolderStep
<1>5. CASE /\ AtEntry(r) # {} \/ (Entry(r) = "" /\ Temp(r) # {})
           /\ folder' = [folder EXCEPT ![e][n] = @ \cup AtEntry(r)]
           /\ \/ Goto(r, "removeTemp")
              \/ e = "rm2k3e" /\ Goto(r, "index")
           /\ UNCHANGED disturbed
  <2>1. folder' = [folder EXCEPT ![e][n] = X]
    BY <1>5
  <2>2. PICK to \in {"removeTemp", "index"} :
          Goto(r, to) /\ (to = "index" => e = "rm2k3e")
    BY <1>5
  <2>3. PICK g \in Locals :
           /\ handler' = [handler EXCEPT ![r] = g]
           /\ g.step = to /\ g.kind = h.kind /\ g.name = h.name
           /\ g.engine = h.engine /\ g.file = h.file
           /\ g.version = h.version /\ g.id = h.id /\ g.answered = h.answered
    BY <2>2, GotoIs
  <2>4. folder'[e][n] = X
    <3> HIDE DEF e, n, X
    <3> QED BY <1>2, <1>3, <2>1, FolderIs
  <2>5. Knows(g, sent, saved)
    BY <1>1, <1>2, <2>2, <2>3 DEF Knows, Uploading
  <2>6. n \notin disturbed =>
          /\ GoodFolder(e, X, sent) /\ AtEntry(r) # {}
          /\ TempOnly(e, n, temp) /\ RowFits(h, rows[n])
    BY <1>1, <1>5, CopiedIs
  <2> HIDE DEF X
  <2>7. ASSUME n \notin disturbed PROVE Phase(g, rows[n], temp, folder', sent)
    <3>1. RowFits(g, rows[n])
      BY <2>3, <2>6, <2>7 DEF RowFits
    <3>2. temp[e][n] # {}
      BY <2>6, <2>7 DEF AtEntry, Temp
    <3> QED BY <1>2, <2>2, <2>3, <2>4, <2>6, <2>7, <3>1, <3>2 DEF Phase, Uploading
  <2>8. GoesOn(r, g)
    BY <1>1, <1>2, <1>5, <2>3, <2>5, <2>7 DEF GoesOn
  <2>9. n \notin disturbed' => OneUpload(X)
    BY <1>5, <2>6 DEF OneUpload, GoodFolder
  <2> QED BY <1>1, <1>2, <1>3, <1>5, <2>1, <2>3, <2>8, <2>9, FolderStep DEF MayDisturb
<1> QED
  BY <1>4, <1>5 DEF CopyFolder

LEMMA IndexStep ==
  ASSUME IInv, NEW r \in Requests, Index(r)
  PROVE  IInv'
<1> DEFINE n == Name(r)
           e == Engine(r)
           h == handler[r]
           X == temp[e][n] \cup {<<0, Entry(r)>>}
<1>1. /\ h.step = "index" /\ UNCHANGED <<rows, downloads, folder, played, sent, saved>>
  BY DEF Index, At
<1>2. /\ Knows(h, sent, saved) /\ h.kind \in Uploading /\ e \in Engines
      /\ n \in Names /\ h.name = n /\ h.engine = e /\ ~h.answered /\ h \in Locals
      /\ h.version \in 1 .. Len(sent) /\ sent \in Seq(Archives)
      /\ n \notin disturbed => Phase(h, rows[n], temp, folder, sent)
  BY <1>1, UnpackedKnows
<1>3. e = "rm2k3e" /\ Accepts(e, sent[h.version])
  BY <1>1, <1>2 DEF Knows
<1>4. Entry(r) \in Directories
  <2> DEFINE a == sent[h.version]
  <2>1. a \in Archives
    BY <1>2
  <2>2. PICK i \in Found(e, a) : EntryPath(e, a) = a[i].at
    BY <1>2, <1>3, <2>1, EntryThere
  <2>3. i \in DOMAIN a /\ a[i].at # Apple
    BY <1>3 DEF Found
  <2> HIDE DEF a
  <2>4. a[i].at \in Directories
    BY <2>1, <2>3, ArchiveEntries
  <2> QED BY <2>2, <2>4 DEF Entry, a
<1>5. X \in Content
  <2>1. temp[e][n] \in Content
    BY <1>2 DEF IInv, TypeOK
  <2> QED BY <1>4, <2>1, UploadBound DEF Content
<1>6. temp' = [temp EXCEPT ![e][n] = X]
  BY <1>3 DEF Index
<1>7. CASE Goto(r, "removeTemp") /\ UNCHANGED disturbed
  <2>1. PICK g \in Locals :
           /\ handler' = [handler EXCEPT ![r] = g]
           /\ g.step = "removeTemp" /\ g.kind = h.kind /\ g.name = h.name
           /\ g.engine = h.engine /\ g.file = h.file
           /\ g.version = h.version /\ g.id = h.id /\ g.answered = h.answered
    BY <1>7, GotoIs
  <2>2. temp'[e][n] = X /\ \A d \in Engines : d # e => temp'[d][n] = temp[d][n]
    <3> HIDE DEF e, n, X
    <3>1. IsChanged(temp, temp', e, n, X)
      BY <1>2, <1>5, <1>6, TempIs
    <3> QED BY <3>1 DEF IsChanged
  <2>3. Knows(g, sent, saved)
    BY <1>1, <1>2, <2>1 DEF Knows, Uploading
  <2>4. ASSUME n \notin disturbed PROVE Phase(g, rows[n], temp', folder, sent)
    <3>1. RowFits(g, rows[n])
      BY <1>1, <1>2, <2>1, <2>4 DEF RowFits, Phase
    <3>2. temp'[e][n] # {}
      BY <2>2
    <3>3. TempOnly(e, n, temp') /\ GoodFolder(e, folder[e][n], sent)
      BY <1>1, <1>2, <2>2, <2>4 DEF TempOnly, Phase
    <3> QED BY <1>2, <2>1, <3>1, <3>2, <3>3 DEF Phase, Uploading
  <2>5. GoesOn(r, g)
    BY <1>1, <1>2, <1>7, <2>1, <2>3, <2>4 DEF GoesOn
  <2> QED BY <1>1, <1>2, <1>5, <1>6, <1>7, <2>1, <2>5, TempStep DEF MayDisturb
<1>8. CASE FailLate(r)
  BY <1>1, <1>2, <1>5, <1>6, <1>8, FailLateGoesOn, IdleLocals, TempStep
<1> QED
  BY <1>7, <1>8 DEF Index

LEMMA RemoveTempStep ==
  ASSUME IInv, NEW r \in Requests, RemoveTemp(r)
  PROVE  IInv'
<1> DEFINE n == Name(r)
           e == Engine(r)
           h == handler[r]
<1>1. /\ h.step = "removeTemp"
      /\ UNCHANGED <<rows, downloads, folder, played, sent, saved, disturbed>>
      /\ temp' = [temp EXCEPT ![e][n] = {}]
  BY DEF RemoveTemp, At, history
<1>2. /\ Knows(h, sent, saved) /\ h.kind \in Uploading /\ e \in Engines
      /\ n \in Names /\ h.name = n /\ h.engine = e /\ ~h.answered /\ h \in Locals
      /\ n \notin disturbed => Phase(h, rows[n], temp, folder, sent)
  BY <1>1, UnpackedKnows
<1>3. {} \in Content /\ MayDisturb(n)
  BY <1>1 DEF Content, MayDisturb
<1>4. temp'[e][n] = {} /\ \A d \in Engines : d # e => temp'[d][n] = temp[d][n]
  <2> HIDE DEF e, n
  <2>1. IsChanged(temp, temp', e, n, {})
    BY <1>1, <1>2, <1>3, TempIs
  <2> QED BY <2>1 DEF IsChanged
<1>5. n \notin disturbed =>
        /\ TempEmpty(n, temp') /\ temp[e][n] # {}
        /\ GoodFolder(e, folder[e][n], sent) /\ RowFits(h, rows[n])
  BY <1>1, <1>2, <1>4 DEF Phase, TempEmpty, TempOnly
<1>6. CASE Goto(r, "save")
  <2>1. PICK g \in Locals :
           /\ handler' = [handler EXCEPT ![r] = g]
           /\ g.step = "save" /\ g.kind = h.kind /\ g.name = h.name
           /\ g.engine = h.engine /\ g.file = h.file
           /\ g.version = h.version /\ g.id = h.id /\ g.answered = h.answered
    BY <1>6, GotoIs
  <2>2. Knows(g, sent, saved)
    BY <1>1, <1>2, <2>1 DEF Knows, Uploading
  <2>3. ASSUME n \notin disturbed PROVE Phase(g, rows[n], temp', folder, sent)
    <3>1. RowFits(g, rows[n])
      BY <1>5, <2>1, <2>3 DEF RowFits
    <3> QED BY <1>2, <1>5, <2>1, <2>3, <3>1 DEF Phase, Uploading
  <2>4. GoesOn(r, g)
    BY <1>1, <1>2, <2>1, <2>2, <2>3 DEF GoesOn
  <2> QED BY <1>1, <1>2, <1>3, <2>1, <2>4, TempStep
<1>7. CASE temp[e][n] = {} /\ Return(r)
  <2>1. GoesOn(r, Idle)
    BY <1>1, <1>5, <1>7 DEF GoesOn
  <2> QED BY <1>1, <1>2, <1>3, <1>7, <2>1, IdleLocals, TempStep DEF Return
<1> QED
  BY <1>6, <1>7 DEF RemoveTemp

-----------------------------------------------------------------------------
(* The row and the archive. *)

LEMMA RowStep ==
  ASSUME IInv, NEW r \in Requests, Knows(handler[r], sent, saved),
         NEW x \in Row \cup {None}, rows' = [rows EXCEPT ![Name(r)] = x],
         NEW h \in Locals, handler' = [handler EXCEPT ![r] = h], GoesOn(r, h),
         saved \subseteq saved', saved' \subseteq Upload,
         UNCHANGED <<downloads, temp, folder, played, sent, disturbed>>
  PROVE  IInv'
<1> DEFINE n == Name(r)
<1>1. n \in Names /\ rows \in [Names -> Row \cup {None}]
  BY DEF IInv, TypeOK, Knows, Name
<1>2. rows' \in [Names -> Row \cup {None}] /\ \A m \in Names : m # n => rows'[m] = rows[m]
  BY <1>1
<1>3. handler' \in [Requests -> Locals]
  BY DEF IInv, TypeOK
<1>4. TypeOK' /\ ArchivesSent' /\ ArchivedWasSaved'
  BY <1>2, <1>3 DEF IInv, TypeOK, ArchivesSent, ArchivedWasSaved
<1>5. OthersLeft(n)
  BY <1>2 DEF OthersLeft, SameFor
<1>6. ASSUME n \notin disturbed', NEW d \in Engines PROVE OneUpload(folder'[d][n])
  BY <1>1, <1>6 DEF IInv, GameFits
<1> QED
  BY <1>4, <1>5, <1>6, RequestStep

\* The row of the game afterwards.
LEMMA RowIs ==
  ASSUME IInv, NEW n \in Names, NEW x, rows' = [rows EXCEPT ![n] = x]
  PROVE  rows'[n] = x
BY DEF IInv, TypeOK

LEMMA SaveNewStep ==
  ASSUME IInv, NEW r \in Requests, SaveNew(r)
  PROVE  IInv'
<1> DEFINE n == Name(r)
           h == handler[r]
           x == NewRow(h, h.version)
<1>1. /\ h.step = "save" /\ h.kind = "create"
      /\ UNCHANGED <<downloads, temp, folder, played, sent, disturbed>>
  BY DEF SaveNew, At
<1>2. /\ Knows(h, sent, saved) /\ h.engine \in Engines /\ n \in Names /\ h.name = n
      /\ ~h.answered /\ h \in Locals
      /\ h.version \in 1 .. Len(sent) /\ rows[n] \in Row \cup {None}
      /\ n \notin disturbed => Phase(h, rows[n], temp, folder, sent)
  BY <1>1, UnpackedKnows
<1>3. h.version \in Upload /\ h.file \in FileNames
  BY <1>1, <1>2, UploadBound DEF Knows, Upload, IInv, TypeOK
<1>4. n \notin disturbed =>
        /\ TempEmpty(n, temp) /\ RowFits(h, rows[n])
        /\ h.engine # "downloadable" => GoodFolder(h.engine, folder[h.engine][n], sent)
  BY <1>1, <1>2 DEF Phase, Uploading
<1>5. CASE /\ ~Taken(n) /\ rows' = [rows EXCEPT ![n] = x]
           /\ saved' = saved \cup {h.version} /\ Goto(r, "archive")
  <2>1. /\ x \in Row /\ x.engine = h.engine
    BY <1>2, <1>3 DEF NewRow, Row
  <2>2. rows'[n] = x
    <3> HIDE DEF n, x
    <3> QED BY <1>2, <1>5, RowIs
  <2>3. PICK g \in Locals :
           /\ handler' = [handler EXCEPT ![r] = g]
           /\ g.step = "archive" /\ g.kind = h.kind /\ g.name = h.name
           /\ g.engine = h.engine /\ g.file = h.file
           /\ g.version = h.version /\ g.id = h.id /\ g.answered = h.answered
    BY <1>5, GotoIs
  <2> HIDE DEF x
  <2>4. Knows(g, sent, saved')
    BY <1>1, <1>2, <1>5, <2>3 DEF Knows, Uploading
  <2>5. n \notin disturbed => Phase(g, rows'[n], temp, folder, sent)
    BY <1>2, <1>4, <2>1, <2>2, <2>3 DEF Phase, Served
  <2>6. GoesOn(r, g)
    BY <1>1, <1>2, <2>3, <2>4, <2>5 DEF GoesOn
  <2>7. saved \subseteq saved' /\ saved' \subseteq Upload
    BY <1>3, <1>5 DEF IInv, TypeOK
  <2> QED BY <1>1, <1>2, <1>5, <2>1, <2>3, <2>6, <2>7, RowStep
<1>6. CASE Return(r) /\ UNCHANGED <<rows, saved>>
  <2>1. n \notin disturbed => Served(rows[n], n, folder, sent)
    BY <1>1, <1>4 DEF RowFits, Served
  <2>2. GoesOn(r, Idle)
    BY <1>1, <1>4, <1>6, <2>1 DEF GoesOn
  <2> QED BY <1>1, <1>2, <1>6, <2>2, IdleLocals, AloneStep DEF Return
<1> QED
  BY <1>1, <1>2, <1>5, <1>6 DEF SaveNew

LEMMA SaveChangeStep ==
  ASSUME IInv, NEW r \in Requests, SaveChange(r)
  PROVE  IInv'
<1> DEFINE n == Name(r)
           h == handler[r]
<1>1. /\ h.step = "save" /\ h.kind \in {"update", "charset"} /\ Return(r)
      /\ UNCHANGED <<downloads, temp, folder, played, sent, disturbed>>
  BY DEF SaveChange, At
<1>2. /\ Knows(h, sent, saved) /\ h.engine \in Engines /\ n \in Names /\ h.name = n
      /\ ~h.answered /\ h \in Locals
      /\ h.version \in 1 .. Len(sent) /\ rows[n] \in Row \cup {None}
      /\ n \notin disturbed => Phase(h, rows[n], temp, folder, sent)
  BY <1>1, UnpackedKnows
<1>3. h.version \in Upload
  BY <1>1, <1>2, UploadBound DEF Upload, IInv, TypeOK
<1>4. n \notin disturbed =>
        /\ TempEmpty(n, temp)
        /\ rows[n] # None /\ rows[n].id = h.id /\ rows[n].engine = h.engine
        /\ h.engine # "downloadable" => GoodFolder(h.engine, folder[h.engine][n], sent)
  BY <1>1, <1>2 DEF Phase, Uploading, RowFits
<1>5. CASE /\ h.kind = "update" /\ SameRow(r)
           /\ rows' = [rows EXCEPT ![h.name].file = h.file]
           /\ saved' = saved \cup {h.version}
  <2> DEFINE x == [rows[n] EXCEPT !.file = h.file]
  <2>1. x \in Row /\ x.engine = rows[n].engine
    <3>1. rows[n] \in Row /\ h.file \in FileNames
      BY <1>2, <1>5 DEF SameRow, Taken, Knows
    <3> QED BY <3>1 DEF Row
  <2>2. rows' = [rows EXCEPT ![n] = x]
    BY <1>2, <1>5
  <2>3. rows'[n] = x
    <3> HIDE DEF n, x
    <3> QED BY <1>2, <2>2, RowIs
  <2> HIDE DEF x
  <2>4. n \notin disturbed => Served(rows'[n], n, folder, sent)
    BY <1>4, <2>1, <2>3 DEF Served
  <2>5. GoesOn(r, Idle)
    BY <1>1, <1>4, <2>4 DEF GoesOn
  <2>6. saved \subseteq saved' /\ saved' \subseteq Upload
    BY <1>3, <1>5 DEF IInv, TypeOK
  <2> QED BY <1>1, <1>2, <2>1, <2>2, <2>5, <2>6, IdleLocals, RowStep DEF Return
<1>6. CASE UNCHANGED <<rows, saved>>
  <2>1. n \notin disturbed => Served(rows[n], n, folder, sent)
    BY <1>4 DEF Served
  <2>2. GoesOn(r, Idle)
    BY <1>1, <1>4, <1>6, <2>1 DEF GoesOn
  <2> QED BY <1>1, <1>2, <1>6, <2>2, IdleLocals, AloneStep DEF Return
<1> QED
  BY <1>5, <1>6 DEF SaveChange

LEMMA ArchiveStep ==
  ASSUME IInv, NEW r \in Requests, Archive(r)
  PROVE  IInv'
<1> DEFINE n == Name(r)
           h == handler[r]
<1>1. /\ h.step = "archive" /\ Return(r)
      /\ downloads' = [downloads EXCEPT ![h.name][h.file] = h.version]
      /\ UNCHANGED <<rows, temp, folder, played, sent, saved, disturbed>>
      /\ Knows(h, sent, saved)
  BY StepKnows DEF Archive, At, history
<1>2. /\ n \in Names /\ h \in Locals /\ h.name = n
      /\ n \notin disturbed => Phase(h, rows[n], temp, folder, sent)
  BY <1>1, PhaseHolds DEF Name
<1>3. /\ h.file \in FileNames /\ h.version \in saved
      /\ h.version \in 0 .. MaxUploads /\ h.version <= Len(sent)
  BY <1>1, <1>2, UploadBound DEF Knows, Locals, IInv, TypeOK
<1>4. /\ downloads \in [Names -> [FileNames -> 0 .. MaxUploads]]
      /\ downloads' \in [Names -> [FileNames -> 0 .. MaxUploads]]
      /\ \A m \in Names, f \in FileNames :
           downloads'[m][f] = downloads[m][f] \/ downloads'[m][f] = h.version
  BY <1>1, <1>2, <1>3 DEF IInv, TypeOK
<1>5. handler' \in [Requests -> Locals]
  BY <1>1, IdleLocals DEF IInv, TypeOK, Return
<1>6. TypeOK' /\ ArchivesSent' /\ ArchivedWasSaved'
  BY <1>1, <1>3, <1>4, <1>5 DEF IInv, TypeOK, ArchivesSent, ArchivedWasSaved
<1>7. n \notin disturbed => TempEmpty(n, temp) /\ Served(rows[n], n, folder, sent)
  BY <1>1, <1>2 DEF Phase
<1>8. GoesOn(r, Idle)
  BY <1>1, <1>7, RefusedGoesOn
<1>9. OthersLeft(n)
  BY <1>1 DEF OthersLeft, SameFor
<1>10. ASSUME n \notin disturbed', NEW d \in Engines PROVE OneUpload(folder'[d][n])
  BY <1>1, <1>2, <1>10 DEF IInv, GameFits
<1> QED
  BY <1>1, <1>6, <1>8, <1>9, <1>10, RequestStep DEF Return

LEMMA NullFileStep ==
  ASSUME IInv, NEW r \in Requests, NullFile(r)
  PROVE  IInv'
<1> DEFINE n == Name(r)
           h == handler[r]
           g == [h EXCEPT !.step = "remove", !.answered = TRUE]
<1>1. /\ h.step = "nullFile"
      /\ handler' = [handler EXCEPT ![r].step = "remove", ![r].answered = TRUE]
      /\ UNCHANGED <<downloads, temp, folder, played, sent, saved, disturbed>>
      /\ Knows(h, sent, saved)
  BY StepKnows DEF NullFile, At, history
<1>2. /\ n \in Names /\ h \in Locals /\ h.name = n /\ rows[n] \in Row \cup {None}
      /\ n \notin disturbed => Phase(h, rows[n], temp, folder, sent)
  BY <1>1, PhaseHolds DEF Name
<1>3. handler' = [handler EXCEPT ![r] = g]
  BY <1>1 DEF IInv, TypeOK
<1>4. /\ g \in Locals /\ g.step = "remove" /\ g.kind = h.kind /\ g.name = h.name
      /\ g.engine = h.engine /\ g.file = h.file
      /\ g.version = h.version /\ g.id = h.id /\ g.answered
  BY <1>2 DEF Locals
<1> HIDE DEF g
<1>5. Knows(g, sent, saved)
  BY <1>1, <1>4 DEF Knows, Uploading
<1>6. n \notin disturbed => TempEmpty(n, temp) /\ RowFits(h, rows[n])
  BY <1>1, <1>2 DEF Phase
<1>7. h.kind = "deleteFiles" /\ ~h.answered
  BY <1>1 DEF Knows
<1>8. \E x \in Row \cup {None} :
        /\ rows' = [rows EXCEPT ![n] = x]
        /\ SameRow(r) => x.file = None
  <2>1. CASE SameRow(r) /\ rows' = [rows EXCEPT ![n].file = None]
    <3> DEFINE x == [rows[n] EXCEPT !.file = None]
    <3>1. x \in Row /\ x.file = None
      <4>1. rows[n] \in Row
        BY <1>2, <2>1 DEF SameRow, Taken
      <4> QED BY <4>1 DEF Row
    <3>2. rows' = [rows EXCEPT ![n] = x]
      BY <2>1
    <3> HIDE DEF x
    <3> QED BY <3>1, <3>2
  <2>2. CASE ~SameRow(r) /\ rows' = rows
    <3>1. rows \in [Names -> Row \cup {None}]
      BY DEF IInv, TypeOK
    <3>2. rows' = [rows EXCEPT ![n] = rows[n]]
      BY <1>2, <2>2, <3>1
    <3> QED BY <1>2, <2>2, <3>2
  <2> QED BY <2>1, <2>2 DEF NullFile
<1>9. PICK x \in Row \cup {None} :
        rows' = [rows EXCEPT ![n] = x] /\ (SameRow(r) => x.file = None)
  BY <1>8
<1>10. rows'[n] = x
  <2> HIDE DEF n
  <2> QED BY <1>2, <1>9, RowIs
<1>11. n \notin disturbed => x.file = None
  BY <1>6, <1>7, <1>9 DEF RowFits, SameRow, Taken
<1>12. n \notin disturbed => Phase(g, rows'[n], temp, folder, sent)
  BY <1>2, <1>4, <1>6, <1>7, <1>10, <1>11 DEF Phase, Uploading
<1>13. GoesOn(r, g)
  BY <1>1, <1>2, <1>4, <1>5, <1>12 DEF GoesOn
<1>14. saved \subseteq saved' /\ saved' \subseteq Upload
  BY <1>1 DEF IInv, TypeOK
<1> QED
  BY <1>1, <1>3, <1>4, <1>9, <1>13, <1>14, RowStep

LEMMA DeleteRowStep ==
  ASSUME IInv, NEW r \in Requests, DeleteRow(r)
  PROVE  IInv'
<1> DEFINE n == Name(r)
           h == handler[r]
           g == [h EXCEPT !.answered = TRUE]
<1>1. /\ h.kind = "delete" /\ h.id # 0 /\ ~h.answered
      /\ rows' = IF SameRow(r) THEN [rows EXCEPT ![h.name] = None] ELSE rows
      /\ handler' = [handler EXCEPT ![r] = IF h.step = "idle" THEN Idle ELSE g]
      /\ UNCHANGED <<downloads, temp, folder, played, sent, saved, disturbed>>
  BY DEF DeleteRow, At, history
<1>2. Knows(h, sent, saved)
  BY <1>1, BusyKnows DEF Idle
<1>3. /\ n \in Names /\ h \in Locals /\ h.name = n /\ rows[n] \in Row \cup {None}
      /\ n \notin disturbed => Phase(h, rows[n], temp, folder, sent)
  BY <1>2, PhaseHolds DEF Name
<1>4. h.step \in {"idle", "remove"}
  BY <1>1, <1>2, <1>3 DEF Knows, Uploading, Locals
<1>5. n \notin disturbed => TempEmpty(n, temp) /\ SameRow(r)
  BY <1>1, <1>3, <1>4 DEF Phase, RowFits, SameRow, Taken
<1>6. \E x \in Row \cup {None} :
        rows' = [rows EXCEPT ![n] = x] /\ (SameRow(r) => x = None)
  <2>1. CASE SameRow(r)
    BY <1>1, <1>3, <2>1
  <2>2. CASE ~SameRow(r)
    <3>1. rows \in [Names -> Row \cup {None}]
      BY DEF IInv, TypeOK
    <3>2. rows' = [rows EXCEPT ![n] = rows[n]]
      BY <1>1, <1>3, <2>2, <3>1
    <3> QED BY <1>3, <2>2, <3>2
  <2> QED BY <2>1, <2>2
<1>7. PICK x \in Row \cup {None} :
        rows' = [rows EXCEPT ![n] = x] /\ (SameRow(r) => x = None)
  BY <1>6
<1>8. rows'[n] = x
  <2> HIDE DEF n
  <2> QED BY <1>3, <1>7, RowIs
<1>9. n \notin disturbed => rows'[n] = None
  BY <1>5, <1>7, <1>8
<1>10. saved \subseteq saved' /\ saved' \subseteq Upload
  BY <1>1 DEF IInv, TypeOK
<1>11. CASE h.step = "idle"
  <2>1. handler' = [handler EXCEPT ![r] = Idle]
    BY <1>1, <1>11
  <2>2. GoesOn(r, Idle)
    BY <1>1, <1>5, <1>9 DEF GoesOn, Served
  <2> QED BY <1>1, <1>2, <1>7, <1>10, <2>1, <2>2, IdleLocals, RowStep
<1>12. CASE h.step = "remove"
  <2>1. handler' = [handler EXCEPT ![r] = g]
    BY <1>1, <1>12
  <2>2. /\ g \in Locals /\ g.step = h.step /\ g.kind = h.kind /\ g.name = h.name
        /\ g.engine = h.engine /\ g.file = h.file
        /\ g.version = h.version /\ g.id = h.id /\ g.answered
    BY <1>3 DEF Locals
  <2> HIDE DEF g
  <2>3. Knows(g, sent, saved)
    BY <1>1, <1>2, <1>12, <2>2 DEF Knows, Uploading
  <2>4. n \notin disturbed => Phase(g, rows'[n], temp, folder, sent)
    BY <1>1, <1>3, <1>5, <1>9, <1>12, <2>2 DEF Phase, Uploading, RowFits
  <2>5. GoesOn(r, g)
    BY <1>1, <1>3, <2>2, <2>3, <2>4 DEF GoesOn
  <2> QED BY <1>1, <1>2, <1>7, <1>10, <2>1, <2>2, <2>5, RowStep
<1> QED
  BY <1>4, <1>11, <1>12

-----------------------------------------------------------------------------
(* Every step. *)

\* Players, refused requests and stuttering leave what the invariant is about.
LEMMA OtherStep ==
  ASSUME IInv, played' \subseteq Names,
         UNCHANGED <<rows, downloads, temp, folder, sent, handler, saved, disturbed>>
  PROVE  IInv'
<1>1. TypeOK' /\ ArchivesSent' /\ ArchivedWasSaved' /\ RequestsKnow'
  BY DEF IInv, TypeOK, ArchivesSent, ArchivedWasSaved, RequestsKnow
<1>2. ASSUME NEW n \in Names \ disturbed' PROVE GameFits(n)'
  BY <1>2 DEF IInv, GameFits, Settled, Name
<1> QED
  BY <1>1, <1>2 DEF IInv

LEMMA NextIInv == IInv /\ [Next]_vars => IInv'
<1> SUFFICES ASSUME IInv, [Next]_vars PROVE IInv'
  OBVIOUS
<1>1. CASE UNCHANGED vars
  <2>1. played' \subseteq Names
    BY <1>1 DEF vars, IInv, TypeOK
  <2> QED BY <1>1, <2>1, OtherStep DEF vars, history
<1>2. ASSUME NEW r \in Requests, NEW n \in Names, NEW f \in FileNames,
             NEW archive \in Archives,
             (\E e \in Engines : Create(r, n, e, f, archive)) \/ Update(r, n, f, archive)
      PROVE  IInv'
  BY <1>2, CreateStep, UpdateStep
<1>3. ASSUME NEW r \in Requests, NEW n \in Names,
             NEW kind \in {"charset", "delete", "deleteFiles"}, Change(r, n, kind)
      PROVE  IInv'
  BY <1>3, ChangeStep
<1>4. ASSUME NEW r \in Requests, NEW n \in Names, NotFound(r, n)
      PROVE  IInv'
  <2>1. UNCHANGED vars
    BY <1>4 DEF NotFound
  <2> QED BY <1>1, <2>1
<1>5. ASSUME NEW r \in Requests, Step(r)
      PROVE  IInv'
  <2>1. CASE ValidateName(r) \/ Find(r) \/ ReadArchive(r)
    BY <2>1, ValidateNameStep, FindStep, ReadArchiveStep
  <2>2. CASE RemoveFolder(r) \/ HandleWorldMt(r) \/ DrawOverview(r) \/ CopyFolder(r)
    BY <2>2, RemoveFolderStep, HandleWorldMtStep, CopyFolderStep
  <2>3. CASE Index(r) \/ RemoveTemp(r)
    BY <2>3, IndexStep, RemoveTempStep
  <2>4. CASE SaveNew(r) \/ SaveChange(r) \/ Archive(r) \/ NullFile(r) \/ DeleteRow(r)
    BY <2>4, SaveNewStep, SaveChangeStep, ArchiveStep, NullFileStep, DeleteRowStep
  <2> QED BY <1>5, <2>1, <2>2, <2>3, <2>4 DEF Step
<1>6. ASSUME NEW n \in Names, Play(n)
      PROVE  IInv'
  <2>1. played' \subseteq Names
    BY <1>6 DEF Play, IInv, TypeOK
  <2> QED BY <1>6, <2>1, OtherStep DEF Play, history
<1> QED
  BY <1>1, <1>2, <1>3, <1>4, <1>5, <1>6 DEF Next

\* Whatever the requests do, and in whatever order their steps come: the types,
\* and for a game without overlap how its row, its temporary and its served
\* folder fit the step its request is at.
THEOREM InvariantHolds == Spec => []IInv
BY InitIInv, NextIInv, PTL DEF Spec

-----------------------------------------------------------------------------
(* What the runs check. *)

\* Every row, folder and request keeps to the values the code gives it.
THEOREM TypesKept == Spec => []TypeOK
<1>1. IInv => TypeOK
  BY DEF IInv
<1> QED
  BY <1>1, InvariantHolds, PTL

\* saveUploadedFile after the insert: what a later change of the charset unpacks
\* was saved with the game, for every interleaving.
THEOREM OnlySavedIsArchived == Spec => []ArchivedWasSaved
<1>1. IInv => ArchivedWasSaved
  BY DEF IInv
<1> QED
  BY <1>1, InvariantHolds, PTL

\* The files at the top of a folder come from one upload.
LEMMA OneUploadCounts ==
  ASSUME NEW F, OneUpload(F)
  PROVE  Cardinality({x[1] : x \in F}) <= 1
<1> DEFINE T == {x[1] : x \in F}
<1>1. T = {} \/ \E y : T = {y}
  <2>1. CASE \E x : F = {x}
    <3>1. PICK x : F = {x}
      BY <2>1
    <3>2. T = {x[1]}
      BY <3>1
    <3> QED BY <3>2
  <2> QED BY <2>1 DEF OneUpload
<1> HIDE DEF T
<1>2. Cardinality(T) = 0 \/ Cardinality(T) = 1
  BY <1>1, FS_EmptySet, FS_Singleton
<1>3. Cardinality(T) <= 1
  BY <1>2
<1> QED
  BY <1>3 DEF T

\* "clean up the target directory": uploadGame of every engine leaves nothing of
\* an earlier upload, as long as no request overlapped or failed late.
THEOREM OneUploadServed == Spec => []ServedFromOneUpload
<1>1. IInv => ServedFromOneUpload
  <2> SUFFICES ASSUME IInv, NEW e \in Engines, NEW n \in Names \ disturbed
               PROVE  Cardinality({x[1] : x \in folder[e][n]}) <= 1
    BY DEF ServedFromOneUpload
  <2>1. OneUpload(folder[e][n])
    BY DEF IInv, GameFits
  <2> QED BY <2>1, OneUploadCounts
<1> QED
  BY <1>1, InvariantHolds, PTL

\* "Check if the game has all the required files": between requests an
\* undisturbed game with a file is served, with all of the files its engine
\* needs if they were together, whichever create, update, change of charset and
\* deletion came before.
THEOREM SettledIsServed == Spec => []ServedWhenSettled
<1>1. IInv => ServedWhenSettled
  <2> SUFFICES ASSUME IInv, NEW n \in Names \ disturbed, Taken(n), Settled(n),
                      rows[n].file # None, rows[n].engine # "downloadable"
               PROVE  /\ folder[rows[n].engine][n] # {}
                      /\ \A x \in folder[rows[n].engine][n] :
                           Together(rows[n].engine, sent[x[1]]) =>
                             Required(rows[n].engine) \subseteq FilesAt(x)
    BY DEF ServedWhenSettled
  <2> DEFINE e == rows[n].engine
  <2>1. Served(rows[n], n, folder, sent) /\ TypeOK
    BY DEF IInv, GameFits
  <2>2. GoodFolder(e, folder[e][n], sent)
    BY <2>1 DEF Served, Taken
  <2>3. e \in Engines
    <3>1. rows[n] \in Row
      BY <2>1 DEF TypeOK, Taken
    <3> QED BY <3>1 DEF Row
  <2> HIDE DEF e
  <2>4. e # "downloadable"
    BY DEF e
  <2>5. /\ folder[e][n] # {}
        /\ \A x \in folder[e][n] : Together(e, sent[x[1]]) => Required(e) \subseteq FilesAt(x)
    BY <2>1, <2>2, <2>3, <2>4, GoodServes
  <2> QED BY <2>5 DEF e
<1> QED
  BY <1>1, InvariantHolds, PTL
=============================================================================
