---------------------------- MODULE GameProjects ----------------------------
(***************************************************************************)
(* The life of a game project in GamesLogicService and the services of its  *)
(* engines: creation, a new archive, a new charset, deletion.  The database *)
(* row, the archive kept for downloads, the folder the game is served from  *)
(* and the temporary folder it is unpacked in are changed one after the     *)
(* other.                                                                   *)
(*                                                                          *)
(* A folder is abstracted to the uploads its files come from, and to where  *)
(* in their archives: an archive is unpacked over what is there, and cp     *)
(* copies over what is there.  Stopping and starting minetest servers is in *)
(* MinetestWorlds.                                                          *)
(***************************************************************************)
EXTENDS FiniteSetsExt, Naturals, Sequences

CONSTANTS Names,        \* game names
          Engines,      \* kinds of games
          FileNames,    \* names of the archives on the clients' machines
          Archives,     \* what is in them: the entries of a zip file
          Requests,     \* request processes, reused
          None,         \* no row, file or name
          MaxUploads    \* bound: archives ever sent

\* What stands before the name of a file in an entry's name: a directory, or
\* the one and the prefix under which macOS adds a file of its own per file.
Directories == {"", "game/"}
Apple       == "__MACOSX/._"

Files == {"lmt", "ldb", "ini", "world.mt", "index.html"}

ASSUME KnownEngines  == /\ Engines \subseteq {"rm2k3e", "mt", "html", "downloadable"}
                        /\ "downloadable" \in Engines
ASSUME KnownArchives == Archives \subseteq Seq([at : Directories \cup {Apple}, name : Files])
ASSUME UploadBound   == MaxUploads \in Nat
ASSUME NoneIsFresh   == None \notin Names \cup Engines \cup FileNames

VARIABLES
  rows,       \* game name -> its row
  downloads,  \* game name -> file name -> the upload archived there, or 0
  temp,       \* engine -> game name -> content of the temporary folder
  folder,     \* engine -> game name -> content of the served folder
  played,     \* worlds their server has written to since they were copied
  sent,       \* the archives sent so far
  handler,    \* request -> what it was asked, does next and remembers
  \* history: uploads that made it into a row, and games for which requests
  \* overlapped or an upload failed after the target folder was removed
  saved, disturbed

history == <<saved, disturbed>>
vars == <<rows, downloads, temp, folder, played, sent, handler, history>>

Upload == 1 .. MaxUploads

\* The directory of an upload that is in a temporary folder, or whose files are
\* at the top of a served one.  EasyRPG copies the RTP as upload 0.
Content == SUBSET ((0 .. MaxUploads) \X Directories)

\* id: a row is named by its first upload.
Row == [id : Upload, engine : Engines, file : FileNames \cup {None}]

\* version: the upload at hand; id: the row found.
Idle == [step |-> "idle", kind |-> "create", name |-> None, engine |-> None,
         file |-> None, version |-> 0, id |-> 0, answered |-> FALSE]

Locals ==
  [step : {"idle", "validate", "find", "read", "nullFile", "remove", "worldMt",
           "overview", "copy", "index", "removeTemp", "save", "archive"},
   kind : {"create", "update", "charset", "delete", "deleteFiles"},
   name : Names \cup {None}, engine : Engines \cup {None},
   file : FileNames \cup {None}, version : 0 .. MaxUploads,
   id : 0 .. MaxUploads, answered : BOOLEAN]

\* A row has the engine and file of an upload, folders hold uploads.
TypeOK ==
  /\ rows \in [Names -> Row \cup {None}]
  /\ downloads \in [Names -> [FileNames -> 0 .. MaxUploads]]
  /\ temp \in [Engines -> [Names -> Content]]
  /\ folder \in [Engines -> [Names -> Content]]
  /\ played \subseteq Names
  /\ sent \in Seq(Archives) /\ Len(sent) <= MaxUploads
  /\ handler \in [Requests -> Locals]
  /\ saved \subseteq Upload /\ disturbed \subseteq Names

Init ==
  /\ rows = [n \in Names |-> None]
  /\ downloads = [n \in Names |-> [f \in FileNames |-> 0]]
  /\ temp = [e \in Engines |-> [n \in Names |-> {}]]
  /\ folder = [e \in Engines |-> [n \in Names |-> {}]]
  /\ played = {}
  /\ sent = <<>>
  /\ handler = [r \in Requests |-> Idle]
  /\ saved = {} /\ disturbed = {}

-----------------------------------------------------------------------------
Name(r)   == handler[r].name
Engine(r) == handler[r].engine
Taken(n)  == rows[n] # None

\* The row a handler found is still there.
SameRow(r) == Taken(Name(r)) /\ rows[Name(r)].id = handler[r].id

At(r, step)   == handler[r].step = step
Goto(r, step) == handler' = [handler EXCEPT ![r].step = step]
Return(r)     == handler' = [handler EXCEPT ![r] = Idle]

Begin(r, h) ==
  /\ handler[r] = Idle
  /\ handler' = [handler EXCEPT ![r] = h]
  /\ disturbed' = disturbed \cup
       {n \in {h.name} : \E q \in Requests : handler[q].name = n}
  /\ UNCHANGED <<rows, downloads, temp, folder, played, saved>>

Sends(archive) == Len(sent) < MaxUploads /\ sent' = Append(sent, archive)

\* createGameProject with an archive for an engine.
Create(r, n, e, f, archive) ==
  /\ Sends(archive)
  /\ Begin(r, [Idle EXCEPT !.step = "validate", !.name = n, !.engine = e,
                           !.file = f, !.version = Len(sent) + 1])

\* updateGameProject with an archive.
Update(r, n, f, archive) ==
  /\ Taken(n) /\ Sends(archive)
  /\ Begin(r, [Idle EXCEPT !.step = "find", !.kind = "update", !.name = n,
                           !.file = f, !.version = Len(sent) + 1])

\* updateGameProject with a charset only, delete, deleteGameProjectFiles.
Change(r, n, kind) ==
  /\ Taken(n)
  /\ Begin(r, [Idle EXCEPT !.step = "find", !.kind = kind, !.name = n])
  /\ UNCHANGED sent

\* verifyOwner rejects changes of a game that does not exist.
NotFound(r, n) ==
  /\ ~Taken(n) /\ handler[r] = Idle
  /\ UNCHANGED vars

-----------------------------------------------------------------------------
(* The look for the files of an engine in an archive. *)

Required(e) == CASE e = "rm2k3e" -> {"lmt", "ldb", "ini"}
                 [] e = "mt"     -> {"world.mt"}
                 [] e = "html"   -> {"index.html"}

\* Only HtmlGamesService takes the files that macOS added for its own.
Found(e, archive) ==
  {i \in DOMAIN archive : /\ archive[i].name \in Required(e)
                          /\ archive[i].at # Apple \/ e = "html"}

Accepts(e, archive) ==
  Required(e) = {archive[i].name : i \in Found(e, archive)}

\* (Mutant: the game is taken from the top of the archive.)
EntryPathTop(e, archive) == ""

\* The game is where the last of the files is.
EntryPath(e, archive) == archive[Max(Found(e, archive))].at

\* The directories of an archive, and the files in one of them.
Unpacked(v)  == {<<v, d>> : d \in {sent[v][i].at : i \in DOMAIN sent[v]} \cap Directories}
FilesAt(x) ==
  IF x[1] = 0 THEN {}
  ELSE {f \in Files : \E i \in DOMAIN sent[x[1]] : sent[x[1]][i] = [at |-> x[2], name |-> f]}

\* uploadGame up to its first await: an archive without the engine's files is
\* refused, another one is unpacked; the default service does nothing.
Unpack(r, e, h) ==
  \/ /\ e = "downloadable"
     /\ handler' = [handler EXCEPT ![r] = [h EXCEPT !.step = "save"]]
     /\ UNCHANGED temp
  \/ /\ e # "downloadable" /\ ~Accepts(e, sent[h.version])
     /\ Return(r) /\ UNCHANGED temp
  \/ /\ e # "downloadable" /\ Accepts(e, sent[h.version])
     /\ handler' = [handler EXCEPT ![r] = [h EXCEPT !.step = "remove"]]
     /\ temp' = [temp EXCEPT ![e][h.name] = @ \cup Unpacked(h.version)]

-----------------------------------------------------------------------------
\* The name was taken, the file is no zip file, the owner is another one.
Refused(r) == Return(r) /\ UNCHANGED temp

\* fixGameKindAndGenreByClassification
FixKind(classification, kind) ==
  IF classification # "GAMES" THEN "downloadable" ELSE kind

\* validateGameName, and the checks of the archive.
ValidateName(r) ==
  /\ At(r, "validate")
  /\ \/ Refused(r)
     \/ /\ ~Taken(Name(r))
        /\ \E c \in {"GAMES", "OTHERS"} :
             LET e == FixKind(c, Engine(r))
             IN Unpack(r, e, [handler[r] EXCEPT !.engine = e])
  /\ UNCHANGED <<rows, downloads, folder, played, sent, history>>

\* verifyOwner and findOne; the row found gives the engine.
Find(r) ==
  LET n == Name(r)
      h == [handler[r] EXCEPT !.id = rows[n].id, !.engine = rows[n].engine]
  IN /\ At(r, "find")
     /\ \/ Refused(r)
        \/ /\ Taken(n) /\ h.kind = "update"
           /\ Unpack(r, h.engine, h)
        \/ /\ Taken(n) /\ h.kind = "charset" /\ rows[n].file # None
           /\ handler' = [handler EXCEPT ![r] =
                [h EXCEPT !.step = "read", !.file = rows[n].file]]
           /\ UNCHANGED temp
        \/ /\ Taken(n) /\ h.kind = "delete"
           /\ handler' = [handler EXCEPT ![r] = [h EXCEPT !.step = "remove"]]
           /\ UNCHANGED temp
        \/ /\ Taken(n) /\ h.kind = "deleteFiles"
           /\ handler' = [handler EXCEPT ![r] = [h EXCEPT !.step = "nullFile"]]
           /\ UNCHANGED temp
     /\ UNCHANGED <<rows, downloads, folder, played, sent, history>>

\* A charset alone: the archive is read from the downloads, under the name in
\* the row.
ReadArchive(r) ==
  LET v == downloads[Name(r)][handler[r].file]
  IN /\ At(r, "read")
     /\ \/ v = 0 /\ Refused(r)
        \/ v # 0 /\ Unpack(r, Engine(r), [handler[r] EXCEPT !.version = v])
     /\ UNCHANGED <<rows, downloads, folder, played, sent, history>>

-----------------------------------------------------------------------------
(* The engines' services. *)

\* After the folder was removed: an upload goes on, a removal that delete or
\* deleteGameProjectFiles left running ends.
FolderRemoved(r) ==
  \/ /\ handler[r].kind \in {"create", "update", "charset"}
     /\ Goto(r, IF Engine(r) = "mt" THEN "worldMt" ELSE "copy")
  \/ handler[r].kind = "delete" /\ ~handler[r].answered /\ Goto(r, "idle")
  \/ handler[r].answered /\ Return(r)

\* (Mutant: the target folder is not cleaned up.)
RemoveFolderNot(r) ==
  /\ At(r, "remove") /\ FolderRemoved(r)
  /\ UNCHANGED <<rows, downloads, temp, folder, played, sent, history>>

\* deleteGameResourceDirectory.
RemoveFolder(r) ==
  /\ At(r, "remove")
  /\ folder' = [folder EXCEPT ![Engine(r)][Name(r)] = {}]
  /\ played' = IF Engine(r) = "mt" THEN played \ {Name(r)} ELSE played
  /\ FolderRemoved(r)
  /\ UNCHANGED <<rows, downloads, temp, sent, history>>

\* An upload fails with the target folder removed and the temporary one left.
FailLate(r) == Return(r) /\ disturbed' = disturbed \cup {Name(r)}

Temp(r)  == temp[Engine(r)][Name(r)]
Entry(r) == EntryPath(Engine(r), sent[handler[r].version])
AtEntry(r) == {x \in Temp(r) : x[2] = Entry(r)}

\* handleWorldMtFile edits the world.mt that is to be copied, and fails if
\* there is none.
HandleWorldMt(r) ==
  /\ At(r, "worldMt")
  /\ \/ /\ \E x \in AtEntry(r) : "world.mt" \in FilesAt(x)
        /\ Goto(r, "overview") /\ UNCHANGED disturbed
     \/ /\ \A x \in AtEntry(r) : "world.mt" \notin FilesAt(x)
        /\ FailLate(r)
  /\ UNCHANGED <<rows, downloads, temp, folder, played, sent, saved>>

\* The image of the world is drawn, uploaded and removed again; a failure is
\* logged.
DrawOverview(r) ==
  /\ At(r, "overview") /\ Goto(r, "copy")
  /\ UNCHANGED <<rows, downloads, temp, folder, played, sent, history>>

\* cp from where the game is in the temporary folder, which may not be a
\* directory; EasyRPG then looks for an index.json, which the archive may bring
\* along.
CopyFolder(r) ==
  LET e == Engine(r)
      n == Name(r)
  IN /\ At(r, "copy")
     /\ \/ /\ AtEntry(r) = {} /\ (Entry(r) = "" => Temp(r) = {})
           /\ FailLate(r)
           /\ UNCHANGED folder
        \/ /\ AtEntry(r) # {} \/ (Entry(r) = "" /\ Temp(r) # {})
           /\ folder' = [folder EXCEPT ![e][n] = @ \cup AtEntry(r)]
           /\ \/ Goto(r, "removeTemp")
              \/ e = "rm2k3e" /\ Goto(r, "index")
           /\ UNCHANGED disturbed
     /\ UNCHANGED <<rows, downloads, temp, played, sent, saved>>

\* EasyRPG without index.json: the RTP is copied to the game in the temporary
\* folder and gencache run there.
Index(r) ==
  /\ At(r, "index")
  /\ temp' = [temp EXCEPT !["rm2k3e"][Name(r)] = @ \cup {<<0, Entry(r)>>}]
  /\ \/ Goto(r, "removeTemp") /\ UNCHANGED disturbed
     \/ FailLate(r)
  /\ UNCHANGED <<rows, downloads, folder, played, sent, saved>>

\* rm fails if somebody else removed the folder.
RemoveTemp(r) ==
  LET e == Engine(r)
      n == Name(r)
  IN /\ At(r, "removeTemp")
     /\ temp' = [temp EXCEPT ![e][n] = {}]
     /\ \/ temp[e][n] # {} /\ Goto(r, "save")
        \/ temp[e][n] = {} /\ Return(r)
     /\ UNCHANGED <<rows, downloads, folder, played, sent, history>>

-----------------------------------------------------------------------------
(* The row and the archive. *)

NewRow(h, id) ==
  [id |-> id, engine |-> h.engine, file |-> h.file]

\* (Mutant: an upload that lost the race for the name is archived.)
SaveNewArchivesAll(r) ==
  LET h == handler[r]
      n == h.name
  IN /\ At(r, "save") /\ h.kind = "create"
     /\ rows' = IF Taken(n) THEN rows
                ELSE [rows EXCEPT ![n] = NewRow(h, h.version)]
     /\ saved' = IF Taken(n) THEN saved ELSE saved \cup {h.version}
     /\ Goto(r, "archive")
     /\ UNCHANGED <<downloads, temp, folder, played, sent, disturbed>>

\* createGameProject inserts the row, unless the tags or prices are refused,
\* after the upload, or the name was taken in the meantime.
SaveNew(r) ==
  LET h == handler[r]
      n == h.name
  IN /\ At(r, "save") /\ h.kind = "create"
     /\ \/ /\ ~Taken(n)
           /\ rows' = [rows EXCEPT ![n] = NewRow(h, h.version)]
           /\ saved' = saved \cup {h.version}
           /\ Goto(r, "archive")
        \/ Return(r) /\ UNCHANGED <<rows, saved>>
     /\ UNCHANGED <<downloads, temp, folder, played, sent, disturbed>>

\* updateGameProject writes the file name if there was a file, unless the tags
\* or prices are refused, after the upload; the insert that save tries for a row
\* deleted in the meantime fails.  Nothing is archived.
SaveChange(r) ==
  LET h == handler[r]
  IN /\ At(r, "save") /\ h.kind \in {"update", "charset"}
     /\ \/ /\ h.kind = "update" /\ SameRow(r)
           /\ rows' = [rows EXCEPT ![h.name].file = h.file]
           /\ saved' = saved \cup {h.version}
        \/ UNCHANGED <<rows, saved>>
     /\ Return(r)
     /\ UNCHANGED <<downloads, temp, folder, played, sent, disturbed>>

\* saveUploadedFile, after the insert.
Archive(r) ==
  LET h == handler[r]
  IN /\ At(r, "archive")
     /\ downloads' = [downloads EXCEPT ![h.name][h.file] = h.version]
     /\ Return(r)
     /\ UNCHANGED <<rows, temp, folder, played, sent, history>>

\* deleteGameProjectFiles updates the row and goes on to remove the folder.
NullFile(r) ==
  /\ At(r, "nullFile")
  /\ \/ SameRow(r) /\ rows' = [rows EXCEPT ![Name(r)].file = None]
     \/ ~SameRow(r) /\ rows' = rows
  /\ handler' = [handler EXCEPT ![r].step = "remove", ![r].answered = TRUE]
  /\ UNCHANGED <<downloads, temp, folder, played, sent, history>>

\* delete removes the row while the folder is being removed.
DeleteRow(r) ==
  LET h == handler[r]
  IN /\ h.kind = "delete" /\ h.id # 0 /\ ~h.answered
     /\ rows' = IF SameRow(r) THEN [rows EXCEPT ![h.name] = None] ELSE rows
     /\ handler' = [handler EXCEPT ![r] =
          IF At(r, "idle") THEN Idle ELSE [h EXCEPT !.answered = TRUE]]
     /\ UNCHANGED <<downloads, temp, folder, played, sent, history>>

\* Players change a world; its server writes it to the world's folder.
Play(n) ==
  /\ "mt" \in Engines /\ Taken(n) /\ rows[n].engine = "mt"
  /\ folder["mt"][n] # {} /\ n \notin played
  /\ played' = played \cup {n}
  /\ UNCHANGED <<rows, downloads, temp, folder, sent, handler, history>>

Step(r) ==
  \/ ValidateName(r) \/ Find(r) \/ ReadArchive(r) \/ RemoveFolder(r)
  \/ HandleWorldMt(r) \/ DrawOverview(r) \/ CopyFolder(r) \/ Index(r)
  \/ RemoveTemp(r) \/ SaveNew(r) \/ SaveChange(r) \/ Archive(r) \/ NullFile(r)
  \/ DeleteRow(r)

Next ==
  \/ \E r \in Requests, n \in Names, f \in FileNames, archive \in Archives :
       \/ \E e \in Engines : Create(r, n, e, f, archive)
       \/ Update(r, n, f, archive)
  \/ \E r \in Requests, n \in Names,
        kind \in {"charset", "delete", "deleteFiles"} : Change(r, n, kind)
  \/ \E r \in Requests, n \in Names : NotFound(r, n)
  \/ \E r \in Requests : Step(r)
  \/ \E n \in Names : Play(n)

Spec == Init /\ [][Next]_vars

-----------------------------------------------------------------------------
\* What is archived for a game was saved with it: an upload that was refused
\* or lost the race for its name never becomes what a new charset unpacks.
ArchivedWasSaved ==
  \A n \in Names, f \in FileNames :
    downloads[n][f] # 0 => downloads[n][f] \in saved

Settled(n) == \A r \in Requests : Name(r) # n

\* The files of an engine are together in one directory of an archive.
Together(e, archive) ==
  \E d \in Directories : \A i \in Found(e, archive) : archive[i].at = d

\* "Check if the game has all the required files": when nothing is under way
\* for an undisturbed game with a file, these files are served at the top, if
\* they were together in the archive.
ServedWhenSettled ==
  \A n \in Names \ disturbed :
    Taken(n) /\ Settled(n) =>
      LET e      == rows[n].engine
          served == folder[e][n]
      IN rows[n].file # None /\ e # "downloadable" =>
           /\ served # {}
           /\ \A x \in served :
                Together(e, sent[x[1]]) => Required(e) \subseteq FilesAt(x)

\* "clean up the target directory": what an undisturbed game is served from
\* comes from one upload, not from what an earlier one left behind.
ServedFromOneUpload ==
  \A e \in Engines, n \in Names \ disturbed :
    Cardinality({x[1] : x \in folder[e][n]}) <= 1

\* "minetest world database files should not be overwritten when updating game
\* world info": what players did is only lost when a world is deleted or
\* uploaded again.
WorldKept ==
  [][\A n \in played \ played' :
       \E r \in Requests : At(r, "remove") /\ Name(r) = n
         /\ handler'[r] # handler[r] /\ handler[r].kind # "charset"]_vars

=============================================================================
