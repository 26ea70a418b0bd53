--------------------------- MODULE MCGameProjects ---------------------------
(* Small instances of GameProjects for TLC. *)
EXTENDS GameProjects, TLC

In(d, names) == [i \in DOMAIN names |-> [at |-> d, name |-> names[i]]]
All == <<"lmt", "ldb", "ini", "world.mt", "index.html">>

\* Every engine's files together, below the top; the same from a Mac; in two
\* places; not all of them.
FourArchives ==
  {In("game/", All), In("game/", All) \o In(Apple, All),
   In("", All) \o In("game/", <<"ldb", "index.html">>), In("", <<"ldb">>)}

Symmetry == Permutations(Requests) \cup Permutations(FileNames)

=============================================================================
