---------------------------- MODULE ObjectsProofs ----------------------------
(***************************************************************************)
(* Proofs about LinkIndex and ObjectLifecycle, for every set of objects,    *)
(* texts, policies and sessions.                                            *)
(*                                                                          *)
(* The first half is about LinkIndex: the maps a write maintains are those  *)
(* a rebuild makes.  What a rebuild makes is Right, every operator that     *)
(* maintains the index keeps it Right, and one index is Right for what is   *)
(* stored.                                                                  *)
(*                                                                          *)
(* The second half is about ObjectLifecycle: no text is lost, and a purge   *)
(* is final.  A revision is dropped only when the stored policy lets it go, *)
(* and a text leaves the object only when the archive holds it.             *)
(***************************************************************************)
EXTENDS LinkIndex, ObjectLifecycle, FiniteSetTheorems, WellFoundedInduction, TLAPS

\* What is stored: a document per note, a drawing per canvas, or nothing.
Stored == object \in [Note -> Doc \cup {Nothing}] /\ board \in [Canvas -> Board \cup {Nothing}]

\* The fields of an index, and no other.
IsIndex(ix) ==
  ix = [notes |-> ix.notes, paths |-> ix.paths, names |-> ix.names, bases |-> ix.bases,
        sources |-> ix.sources, resolved |-> ix.resolved, backlinks |-> ix.backlinks,
        boards |-> ix.boards, shown |-> ix.shown]

\* The labels of a document by kind, and who has them.
ByPath == [d \in Doc |-> {d.path}]
ByBase == [d \in Doc |-> {Base[d.path]}]
ByName == [d \in Doc |-> d.names]
ByLink == [d \in Doc |-> d.links]
Having(obj, K) == [l \in Label |-> {n \in Note : obj[n] # Nothing /\ l \in K[obj[n]]}]

\* An index whose first maps are those of the objects.
Placed(ix, obj) ==
  /\ IsIndex(ix) /\ ix.notes = obj
  /\ ix.paths = Having(obj, ByPath) /\ ix.bases = Having(obj, ByBase)
  /\ ix.names = Having(obj, ByName) /\ ix.sources = Having(obj, ByLink)

\* What the links of a note resolve to.
Links(ix, n) == IF ix.notes[n] = Nothing THEN {} ELSE {<<l, Resolve(ix, l)>> : l \in ix.notes[n].links}
Pointing(resolved, S, n) == {s \in S : n \in Pointed(resolved, s)}
Sources(ix, n) == Pointing(ix.resolved, Note \ {n}, n)
Resolved(ix) == ix.resolved = [n \in Note |-> Links(ix, n)]
Mirrored(ix) == ix.backlinks = [n \in Note |-> Sources(ix, n)]

\* What a canvas shows, and which canvases show a note.
Drawn(ix, brd, c) == IF brd[c] = Nothing THEN Nothing ELSE Entry(ix, brd[c])
Showing(boards, C, n) == {c \in C : boards[c] # Nothing /\ n \in boards[c].refs}
Boarded(ix, brd) == ix.boards = [c \in Canvas |-> Drawn(ix, brd, c)]
Shown(ix) == ix.shown = [n \in Note |-> Showing(ix.boards, Canvas, n)]

Right(ix, obj, brd) ==
  Placed(ix, obj) /\ Resolved(ix) /\ Mirrored(ix) /\ Boarded(ix, brd) /\ Shown(ix)

\* What holds between the writes.
IndexRight == Stored /\ Right(index, object, board)
\* The objects and an index with another document for a note; an index without its backlinks.
Off(obj, n) == [obj EXCEPT ![n] = Nothing]
On(obj, n, d) == [obj EXCEPT ![n] = d]
Noted(ix, n, d) == [ix EXCEPT !.notes[n] = d]
Cleared(ix, n) == [ix EXCEPT !.backlinks[n] = {}]
-----------------------------------------------------------------------------
(* Labels and the notes that have them. *)

LEMMA DocFacts ==
  ASSUME LinkIndexConstantsOK, NEW d \in Doc
  PROVE  /\ d # Nothing /\ d.path \in Label /\ Base[d.path] \in Label
         /\ d.names \subseteq Label /\ d.links \subseteq Label
         /\ ByPath[d] = {d.path} /\ ByBase[d] = {Base[d.path]} /\ ByName[d] = d.names /\ ByLink[d] = d.links
         /\ Labels(d) = ByPath[d] \cup ByBase[d] \cup ByName[d]
<1>1. d \in [path : Path, names : SUBSET Label, links : SUBSET Label] /\ d # Nothing
  BY DEF LinkIndexConstantsOK
<1>2. d.path \in Path /\ d.names \subseteq Label /\ d.links \subseteq Label
  BY <1>1
<1>3. d.path \in Label /\ Base[d.path] \in Label
  BY <1>2 DEF LinkIndexConstantsOK
<1>4. ByPath[d] = {d.path} /\ ByBase[d] = {Base[d.path]} /\ ByName[d] = d.names /\ ByLink[d] = d.links
  BY DEF ByPath, ByBase, ByName, ByLink
<1> QED
  BY <1>1, <1>2, <1>3, <1>4 DEF Labels

\* A note that leaves takes its labels along, and one that comes brings them.
LEMMA Leaving ==
  ASSUME NEW obj \in [Note -> Doc \cup {Nothing}], NEW K, NEW n \in Note, obj[n] # Nothing
  PROVE  Without(Having(obj, K), K[obj[n]], n) = Having(Off(obj, n), K)
<1> DEFINE obj0 == Off(obj, n)
<1>1. obj0[n] = Nothing /\ \A m \in Note \ {n} : obj0[m] = obj[m]
  BY DEF Off
<1> HIDE DEF obj0
<1>2. ASSUME NEW l \in Label
      PROVE  (IF l \in K[obj[n]] THEN Having(obj, K)[l] \ {n} ELSE Having(obj, K)[l]) = Having(obj0, K)[l]
  BY <1>1 DEF Having
<1> QED
  BY <1>2 DEF Without, Having, obj0

LEMMA Coming ==
  ASSUME NEW obj \in [Note -> Doc \cup {Nothing}], NEW K, NEW n \in Note, obj[n] = Nothing,
         NEW d, d # Nothing
  PROVE  With(Having(obj, K), K[d], n) = Having(On(obj, n, d), K)
<1> DEFINE obj1 == On(obj, n, d)
<1>1. obj1[n] = d /\ \A m \in Note \ {n} : obj1[m] = obj[m]
  BY DEF On
<1> HIDE DEF obj1
<1>2. ASSUME NEW l \in Label
      PROVE  (IF l \in K[d] THEN Having(obj, K)[l] \cup {n} ELSE Having(obj, K)[l]) = Having(obj1, K)[l]
  BY <1>1 DEF Having
<1> QED
  BY <1>2 DEF With, Having, obj1

\* The owners of a label go by the two maps of labels: what they do not have they cannot lose.
Named(ix, l) == ix.paths[l] \cup ix.names[l] \cup ix.bases[l]

LEMMA OwnersFacts ==
  ASSUME LinkIndexConstantsOK, NEW obj \in [Note -> Doc \cup {Nothing}], NEW ix, Placed(ix, obj),
         NEW n \in Note, NEW l \in Label
  PROVE  /\ n \in Named(ix, l) <=> obj[n] # Nothing /\ l \in Labels(obj[n])
         /\ n \in ix.sources[l] <=> obj[n] # Nothing /\ l \in obj[n].links
<1>1. obj[n] # Nothing => obj[n] \in Doc
  OBVIOUS
<1>2. CASE obj[n] # Nothing
  <2>1. /\ ByLink[obj[n]] = obj[n].links
        /\ Labels(obj[n]) = ByPath[obj[n]] \cup ByBase[obj[n]] \cup ByName[obj[n]]
    BY <1>1, <1>2, DocFacts
  <2> QED
    BY <1>2, <2>1 DEF Placed, Having, Named
<1>3. CASE obj[n] = Nothing
  BY <1>3 DEF Placed, Having, Named
<1> QED
  BY <1>2, <1>3
-----------------------------------------------------------------------------
(* Resolution. *)

\* The note a label stands for, given who has it as a path and who by another name.
Answer(exact, named) ==
  IF exact # {} THEN CHOOSE n \in exact : TRUE
  ELSE IF Cardinality(named) = 1 THEN CHOOSE n \in named : TRUE ELSE Nothing

LEMMA ResolveAnswers ==
  ASSUME NEW ix, NEW l
  PROVE  Resolve(ix, l) = Answer(ix.paths[l] \cap Live(ix), (ix.names[l] \cup ix.bases[l]) \cap Live(ix))
BY DEF Resolve, Answer

LEMMA ResolveSame ==
  ASSUME NEW ix, NEW jx, NEW l,
         ix.paths[l] \cap Live(ix) = jx.paths[l] \cap Live(jx),
         (ix.names[l] \cup ix.bases[l]) \cap Live(ix) = (jx.names[l] \cup jx.bases[l]) \cap Live(jx)
  PROVE  Resolve(ix, l) = Resolve(jx, l)
BY ResolveAnswers

\* A label stands for a note that is there and has it.
LEMMA ResolveOwner ==
  ASSUME NEW ix, NEW l
  PROVE  Resolve(ix, l) = Nothing \/ Resolve(ix, l) \in Named(ix, l) \cap Live(ix)
<1> DEFINE exact == ix.paths[l] \cap Live(ix)
           named == (ix.names[l] \cup ix.bases[l]) \cap Live(ix)
<1>1. Resolve(ix, l) = Answer(exact, named)
  BY ResolveAnswers
<1>2. exact \subseteq Named(ix, l) \cap Live(ix) /\ named \subseteq Named(ix, l) \cap Live(ix)
  BY DEF Named
<1> HIDE DEF exact, named
<1>3. CASE exact # {}
  <2>1. Answer(exact, named) \in exact
    BY <1>3 DEF Answer
  <2> QED
    BY <1>1, <1>2, <2>1
<1>4. CASE exact = {} /\ Cardinality(named) = 1
  <2>1. named # {}
    BY <1>4, FS_EmptySet
  <2>2. Answer(exact, named) \in named
    BY <1>4, <2>1 DEF Answer
  <2> QED
    BY <1>1, <1>2, <2>2
<1>5. CASE exact = {} /\ Cardinality(named) # 1
  BY <1>1, <1>5 DEF Answer
<1> QED
  BY <1>3, <1>4, <1>5

\* Only the labels of a note that changes can stand for something else afterwards.
LEMMA ResolveElsewhere ==
  ASSUME LinkIndexConstantsOK, NEW obj \in [Note -> Doc \cup {Nothing}], NEW ix, Placed(ix, obj),
         NEW obj1 \in [Note -> Doc \cup {Nothing}], NEW jx, Placed(jx, obj1),
         NEW n \in Note, \A m \in Note \ {n} : obj1[m] = obj[m],
         NEW l \in Label, obj[n] # Nothing => l \notin Labels(obj[n]), obj1[n] # Nothing => l \notin Labels(obj1[n])
  PROVE  Resolve(ix, l) = Resolve(jx, l)
<1>1. /\ ix.paths[l] = {m \in Note : obj[m] # Nothing /\ l \in ByPath[obj[m]]}
      /\ ix.names[l] = {m \in Note : obj[m] # Nothing /\ l \in ByName[obj[m]]}
      /\ ix.bases[l] = {m \in Note : obj[m] # Nothing /\ l \in ByBase[obj[m]]}
      /\ jx.paths[l] = {m \in Note : obj1[m] # Nothing /\ l \in ByPath[obj1[m]]}
      /\ jx.names[l] = {m \in Note : obj1[m] # Nothing /\ l \in ByName[obj1[m]]}
      /\ jx.bases[l] = {m \in Note : obj1[m] # Nothing /\ l \in ByBase[obj1[m]]}
  BY DEF Placed, Having
<1>2. n \notin Named(ix, l) /\ n \notin Named(jx, l)
  BY OwnersFacts
<1>3. ix.paths[l] = jx.paths[l] /\ ix.names[l] = jx.names[l] /\ ix.bases[l] = jx.bases[l]
  BY <1>1, <1>2 DEF Named
<1>4. \A m \in Note \ {n} : m \in Live(ix) <=> m \in Live(jx)
  BY DEF Live, Placed
<1>5. ix.paths[l] \subseteq Note \ {n} /\ ix.names[l] \cup ix.bases[l] \subseteq Note \ {n}
  BY <1>1, <1>2 DEF Named
<1>6. ix.paths[l] \cap Live(ix) = jx.paths[l] \cap Live(jx)
  BY <1>3, <1>4, <1>5
<1>7. (ix.names[l] \cup ix.bases[l]) \cap Live(ix) = (jx.names[l] \cup jx.bases[l]) \cap Live(jx)
  BY <1>3, <1>4, <1>5
<1> QED
  BY <1>6, <1>7, ResolveSame
-----------------------------------------------------------------------------
(* What each operator does to the fields of an index. *)

LEMMA AddFields ==
  ASSUME LinkIndexConstantsOK, NEW ix, IsIndex(ix), NEW n, NEW d \in Doc, NEW jx, jx = AddSource(AddOwner(ix, n, d), n, d)
  PROVE  /\ IsIndex(jx) /\ jx.notes = ix.notes /\ jx.resolved = ix.resolved /\ jx.backlinks = ix.backlinks
         /\ jx.boards = ix.boards /\ jx.shown = ix.shown
         /\ jx.paths = With(ix.paths, ByPath[d], n) /\ jx.bases = With(ix.bases, ByBase[d], n)
         /\ jx.names = With(ix.names, ByName[d], n) /\ jx.sources = With(ix.sources, ByLink[d], n)
<1> DEFINE hx == AddOwner(ix, n, d)
<1>0. hx = [ix EXCEPT !.paths = With(@, {d.path}, n), !.bases = With(@, {Base[d.path]}, n), !.names = With(@, d.names, n)]
  BY DEF AddOwner
<1>2. jx = [hx EXCEPT !.sources = With(@, d.links, n)]
  BY DEF AddSource
<1> HIDE DEF hx
<1>1. /\ IsIndex(hx) /\ hx.notes = ix.notes /\ hx.resolved = ix.resolved /\ hx.backlinks = ix.backlinks
      /\ hx.boards = ix.boards /\ hx.shown = ix.shown /\ hx.sources = ix.sources
      /\ hx.paths = With(ix.paths, {d.path}, n) /\ hx.bases = With(ix.bases, {Base[d.path]}, n)
      /\ hx.names = With(ix.names, d.names, n)
  BY <1>0 DEF IsIndex
<1>3. ByPath[d] = {d.path} /\ ByBase[d] = {Base[d.path]} /\ ByName[d] = d.names /\ ByLink[d] = d.links
  BY DocFacts
<1> QED
  BY <1>1, <1>2, <1>3 DEF IsIndex

LEMMA RemoveFields ==
  ASSUME LinkIndexConstantsOK, NEW ix, IsIndex(ix), NEW n, NEW d \in Doc, NEW jx, jx = RemoveSource(RemoveOwner(ix, n, d), n, d)
  PROVE  /\ IsIndex(jx) /\ jx.notes = ix.notes /\ jx.resolved = ix.resolved /\ jx.backlinks = ix.backlinks
         /\ jx.boards = ix.boards /\ jx.shown = ix.shown
         /\ jx.paths = Without(ix.paths, ByPath[d], n) /\ jx.bases = Without(ix.bases, ByBase[d], n)
         /\ jx.names = Without(ix.names, ByName[d], n) /\ jx.sources = Without(ix.sources, ByLink[d], n)
<1> DEFINE hx == RemoveOwner(ix, n, d)
<1>0. hx = [ix EXCEPT !.paths = Without(@, {d.path}, n), !.bases = Without(@, {Base[d.path]}, n), !.names = Without(@, d.names, n)]
  BY DEF RemoveOwner
<1>2. jx = [hx EXCEPT !.sources = Without(@, d.links, n)]
  BY DEF RemoveSource
<1> HIDE DEF hx
<1>1. /\ IsIndex(hx) /\ hx.notes = ix.notes /\ hx.resolved = ix.resolved /\ hx.backlinks = ix.backlinks
      /\ hx.boards = ix.boards /\ hx.shown = ix.shown /\ hx.sources = ix.sources
      /\ hx.paths = Without(ix.paths, {d.path}, n) /\ hx.bases = Without(ix.bases, {Base[d.path]}, n)
      /\ hx.names = Without(ix.names, d.names, n)
  BY <1>0 DEF IsIndex
<1>3. ByPath[d] = {d.path} /\ ByBase[d] = {Base[d.path]} /\ ByName[d] = d.names /\ ByLink[d] = d.links
  BY DocFacts
<1> QED
  BY <1>1, <1>2, <1>3 DEF IsIndex

LEMMA RemoveEitherWay ==
  ASSUME NEW ix, IsIndex(ix), NEW n, NEW d
  PROVE  RemoveOwner(RemoveSource(ix, n, d), n, d) = RemoveSource(RemoveOwner(ix, n, d), n, d)
BY DEF IsIndex, RemoveSource, RemoveOwner

\* The same index with other notes, or with other backlinks.
LEMMA NotesFields ==
  ASSUME NEW ix, IsIndex(ix), NEW n, NEW d, NEW jx, jx = Noted(ix, n, d)
  PROVE  /\ IsIndex(jx) /\ jx.notes = On(ix.notes, n, d)
         /\ jx.paths = ix.paths /\ jx.bases = ix.bases /\ jx.names = ix.names /\ jx.sources = ix.sources
         /\ jx.resolved = ix.resolved /\ jx.backlinks = ix.backlinks
         /\ jx.boards = ix.boards /\ jx.shown = ix.shown
BY DEF IsIndex, Noted, On

LEMMA BacklinksFields ==
  ASSUME NEW ix, IsIndex(ix), NEW n, NEW jx, jx = Cleared(ix, n)
  PROVE  /\ IsIndex(jx) /\ jx.backlinks = On(ix.backlinks, n, {})
         /\ jx.paths = ix.paths /\ jx.bases = ix.bases /\ jx.names = ix.names /\ jx.sources = ix.sources
         /\ jx.resolved = ix.resolved /\ jx.notes = ix.notes
         /\ jx.boards = ix.boards /\ jx.shown = ix.shown
BY DEF IsIndex, Cleared, On

OnNotes(f) == f = [n \in Note |-> f[n]]
OnCanvases(f) == f = [c \in Canvas |-> f[c]]

\* The backlinks of a note after sources are refreshed, and who shows it after canvases are.
Relinked(ix, jx, S, n) ==
  (ix.backlinks[n] \ Pointing(ix.resolved, S, n)) \cup Pointing(jx.resolved, S \ {n}, n)
Redrawn(ix, jx, C, n) == (ix.shown[n] \ C) \cup Showing(jx.boards, C, n)

\* Refreshed sources: the others keep what they resolved to.
LEMMA RefreshFields ==
  ASSUME NEW ix, IsIndex(ix), NEW S, NEW jx, jx = Refresh(ix, S)
  PROVE  /\ IsIndex(jx) /\ jx.notes = ix.notes /\ jx.boards = ix.boards /\ jx.shown = ix.shown
         /\ jx.paths = ix.paths /\ jx.bases = ix.bases /\ jx.names = ix.names /\ jx.sources = ix.sources
         /\ OnNotes(jx.resolved) /\ OnNotes(jx.backlinks)
         /\ \A n \in Note : jx.resolved[n] = IF n \notin S THEN ix.resolved[n] ELSE Links(ix, n)
         /\ \A n \in Note : jx.backlinks[n] = Relinked(ix, jx, S, n)
<1> DEFINE res == [n \in Note |-> IF n \notin S THEN ix.resolved[n] ELSE IF ix.notes[n] = Nothing THEN {}
                                  ELSE {<<l, Resolve(ix, l)>> : l \in ix.notes[n].links}]
           back == [n \in Note |-> (ix.backlinks[n] \ {s \in S : n \in Pointed(ix.resolved, s)})
                                     \cup {s \in S \ {n} : n \in Pointed(res, s)}]
<1>1. jx = [ix EXCEPT !.resolved = res, !.backlinks = back]
  BY DEF Refresh
<1>2. OnNotes(res) /\ \A n \in Note : res[n] = IF n \notin S THEN ix.resolved[n] ELSE Links(ix, n)
  BY DEF Links, OnNotes
<1> HIDE DEF res
<1>3. /\ OnNotes(back)
      /\ \A n \in Note : back[n] = (ix.backlinks[n] \ Pointing(ix.resolved, S, n)) \cup Pointing(res, S \ {n}, n)
  BY DEF Pointing, OnNotes
<1> HIDE DEF back
<1>4. /\ IsIndex(jx) /\ jx.notes = ix.notes /\ jx.boards = ix.boards /\ jx.shown = ix.shown
      /\ jx.paths = ix.paths /\ jx.bases = ix.bases /\ jx.names = ix.names /\ jx.sources = ix.sources
      /\ jx.resolved = res /\ jx.backlinks = back
  BY <1>1 DEF IsIndex
<1>5. \A n \in Note : jx.backlinks[n] = Relinked(ix, jx, S, n)
  BY <1>3, <1>4 DEF Relinked
<1> QED
  BY <1>2, <1>3, <1>4, <1>5

LEMMA ReindexFields ==
  ASSUME NEW ix, IsIndex(ix), NEW brd, NEW C, NEW jx, jx = Reindex(ix, brd, C)
  PROVE  /\ IsIndex(jx) /\ jx.notes = ix.notes /\ jx.resolved = ix.resolved /\ jx.backlinks = ix.backlinks
         /\ jx.paths = ix.paths /\ jx.bases = ix.bases /\ jx.names = ix.names /\ jx.sources = ix.sources
         /\ OnCanvases(jx.boards) /\ OnNotes(jx.shown)
         /\ \A c \in Canvas : jx.boards[c] = IF c \in C /\ brd[c] # Nothing THEN Entry(ix, brd[c])
                                              ELSE ix.boards[c]
         /\ \A n \in Note : jx.shown[n] = Redrawn(ix, jx, C, n)
<1> DEFINE entry == [c \in Canvas |-> IF c \in C /\ brd[c] # Nothing THEN Entry(ix, brd[c]) ELSE ix.boards[c]]
           show == [n \in Note |-> (ix.shown[n] \ C) \cup {c \in C : entry[c] # Nothing /\ n \in entry[c].refs}]
<1>1. jx = [ix EXCEPT !.boards = entry, !.shown = show]
  BY DEF Reindex
<1>2. /\ OnCanvases(entry)
      /\ \A c \in Canvas : entry[c] = IF c \in C /\ brd[c] # Nothing THEN Entry(ix, brd[c]) ELSE ix.boards[c]
  BY DEF OnCanvases
<1> HIDE DEF entry
<1>3. /\ OnNotes(show)
      /\ \A n \in Note : show[n] = (ix.shown[n] \ C) \cup Showing(entry, C, n)
  BY DEF Showing, OnNotes
<1> HIDE DEF show
<1>4. /\ IsIndex(jx) /\ jx.notes = ix.notes /\ jx.resolved = ix.resolved /\ jx.backlinks = ix.backlinks
      /\ jx.paths = ix.paths /\ jx.bases = ix.bases /\ jx.names = ix.names /\ jx.sources = ix.sources
      /\ jx.boards = entry /\ jx.shown = show
  BY <1>1 DEF IsIndex
<1>5. \A n \in Note : jx.shown[n] = Redrawn(ix, jx, C, n)
  BY <1>3, <1>4 DEF Redrawn
<1> QED
  BY <1>2, <1>3, <1>4, <1>5

\* Links resolve by the labels and the notes alone.
LEMMA ResolveByFields ==
  ASSUME NEW ix, NEW jx, jx.notes = ix.notes, jx.paths = ix.paths, jx.bases = ix.bases, jx.names = ix.names
  PROVE  /\ \A l : Resolve(jx, l) = Resolve(ix, l)
         /\ \A n : Links(jx, n) = Links(ix, n)
         /\ \A b : Entry(jx, b) = Entry(ix, b)
<1>1. Live(jx) = Live(ix)
  BY DEF Live
<1>2. \A l : Resolve(jx, l) = Resolve(ix, l)
  BY <1>1, ResolveSame
<1> QED
  BY <1>2 DEF Links, Entry
-----------------------------------------------------------------------------
(* Sources and backlinks. *)

\* Sources that are refreshed are right, the others if they were.
LEMMA RefreshResolves ==
  ASSUME NEW ix, IsIndex(ix), NEW S,
         \A m \in Note \ S : ix.resolved[m] = Links(ix, m)
  PROVE  Resolved(Refresh(ix, S))
<1> DEFINE jx == Refresh(ix, S)
<1>0. jx = Refresh(ix, S)
  OBVIOUS
<1> HIDE DEF jx
<1>1. /\ OnNotes(jx.resolved)
      /\ \A n \in Note : jx.resolved[n] = IF n \notin S THEN ix.resolved[n] ELSE Links(ix, n)
      /\ jx.notes = ix.notes /\ jx.paths = ix.paths /\ jx.bases = ix.bases /\ jx.names = ix.names
  BY <1>0, RefreshFields
<1>2. \A n : Links(jx, n) = Links(ix, n)
  BY <1>1, ResolveByFields
<1> QED
  BY <1>1, <1>2 DEF Resolved, OnNotes, jx

\* A note's backlinks follow the sources that are refreshed.
LEMMA RefreshMirrors ==
  ASSUME NEW ix, IsIndex(ix), NEW S \in SUBSET Note, NEW n \in Note, ix.backlinks[n] = Sources(ix, n)
  PROVE  Refresh(ix, S).backlinks[n] = Sources(Refresh(ix, S), n)
<1> DEFINE jx == Refresh(ix, S)
<1>0. jx = Refresh(ix, S)
  OBVIOUS
<1> HIDE DEF jx
<1>1. /\ \A m \in Note : jx.resolved[m] = IF m \notin S THEN ix.resolved[m] ELSE Links(ix, m)
      /\ jx.backlinks[n] = Relinked(ix, jx, S, n)
  BY <1>0, RefreshFields
<1>2. \A s \in Note \ S : Pointed(jx.resolved, s) = Pointed(ix.resolved, s)
  BY <1>1 DEF Pointed
<1> QED
  BY <1>1, <1>2 DEF Sources, Pointing, Relinked, jx

LEMMA RefreshMirrorsAnew ==
  ASSUME NEW ix, IsIndex(ix), NEW S \in SUBSET Note, NEW n \in Note, ix.backlinks[n] = {},
         \A s \in Note \ S : s # n => n \notin Pointed(ix.resolved, s)
  PROVE  Refresh(ix, S).backlinks[n] = Sources(Refresh(ix, S), n)
<1> DEFINE jx == Refresh(ix, S)
<1>0. jx = Refresh(ix, S)
  OBVIOUS
<1> HIDE DEF jx
<1>1. /\ \A m \in Note : jx.resolved[m] = IF m \notin S THEN ix.resolved[m] ELSE Links(ix, m)
      /\ jx.backlinks[n] = Relinked(ix, jx, S, n)
  BY <1>0, RefreshFields
<1>2. \A s \in Note \ S : Pointed(jx.resolved, s) = Pointed(ix.resolved, s)
  BY <1>1 DEF Pointed
<1> QED
  BY <1>1, <1>2 DEF Sources, Pointing, Relinked, jx

\* What points at a note points at it by one of its labels.
LEMMA PointedBy ==
  ASSUME NEW ix, NEW s \in Note, ix.resolved[s] = Links(ix, s), NEW n \in Pointed(ix.resolved, s)
  PROVE  /\ ix.notes[s] # Nothing /\ n \in Live(ix)
         /\ \E l \in ix.notes[s].links : n = Resolve(ix, l) /\ n \in Named(ix, l)
<1>1. n # Nothing /\ \E r \in Links(ix, s) : n = r[2]
  BY DEF Pointed
<1>2. PICK l \in ix.notes[s].links : n = Resolve(ix, l) /\ ix.notes[s] # Nothing
  BY <1>1 DEF Links
<1> QED
  BY <1>1, <1>2, ResolveOwner
-----------------------------------------------------------------------------
(* Boards. *)

\* Canvases read again keep what they show and who shows it in step.
LEMMA ReindexShows ==
  ASSUME NEW ix, IsIndex(ix), Shown(ix), NEW brd, NEW C \in SUBSET Canvas
  PROVE  Shown(Reindex(ix, brd, C))
<1> DEFINE jx == Reindex(ix, brd, C)
<1>0. jx = Reindex(ix, brd, C)
  OBVIOUS
<1> HIDE DEF jx
<1>1. /\ \A c \in Canvas \ C : jx.boards[c] = ix.boards[c]
      /\ OnNotes(jx.shown)
      /\ \A n \in Note : jx.shown[n] = Redrawn(ix, jx, C, n)
  BY <1>0, ReindexFields
<1>2. ASSUME NEW n \in Note PROVE jx.shown[n] = Showing(jx.boards, Canvas, n)
  <2>1. ix.shown[n] = Showing(ix.boards, Canvas, n)
    BY DEF Shown
  <2> QED
    BY <1>1, <2>1 DEF Showing, Redrawn
<1> QED
  BY <1>1, <1>2 DEF Shown, OnNotes, jx

LEMMA ReindexDraws ==
  ASSUME NEW ix, IsIndex(ix), NEW brd, NEW C,
         \A c \in Canvas : c \notin C \/ brd[c] = Nothing => ix.boards[c] = Drawn(ix, brd, c)
  PROVE  Boarded(Reindex(ix, brd, C), brd)
<1> DEFINE jx == Reindex(ix, brd, C)
<1>0. jx = Reindex(ix, brd, C)
  OBVIOUS
<1> HIDE DEF jx
<1>1. /\ OnCanvases(jx.boards)
      /\ \A c \in Canvas : jx.boards[c] = IF c \in C /\ brd[c] # Nothing THEN Entry(ix, brd[c]) ELSE ix.boards[c]
      /\ jx.notes = ix.notes /\ jx.paths = ix.paths /\ jx.bases = ix.bases /\ jx.names = ix.names
  BY <1>0, ReindexFields
<1>2. \A b : Entry(jx, b) = Entry(ix, b)
  BY <1>1, ResolveByFields
<1>3. \A c \in Canvas : Drawn(jx, brd, c) = Drawn(ix, brd, c)
  BY <1>2 DEF Drawn
<1>4. \A c \in Canvas : jx.boards[c] = Drawn(jx, brd, c)
  BY <1>1, <1>3 DEF Drawn
<1> QED
  BY <1>1, <1>4 DEF Boarded, OnCanvases, jx

\* What a refresh leaves alone, and what a reading of canvases does.
LEMMA RefreshKeeps ==
  ASSUME NEW ix, NEW obj, Placed(ix, obj), NEW S, NEW jx, jx = Refresh(ix, S), NEW brd
  PROVE  /\ Placed(jx, obj) /\ jx.boards = ix.boards /\ jx.shown = ix.shown
         /\ Boarded(ix, brd) => Boarded(jx, brd)
         /\ Shown(ix) => Shown(jx)
<1>0. IsIndex(ix)
  BY DEF Placed
<1>1. /\ IsIndex(jx) /\ jx.notes = ix.notes /\ jx.boards = ix.boards /\ jx.shown = ix.shown
      /\ jx.paths = ix.paths /\ jx.bases = ix.bases /\ jx.names = ix.names /\ jx.sources = ix.sources
  BY <1>0, RefreshFields
<1>2. Placed(jx, obj)
  BY <1>1 DEF Placed
<1>3. \A b : Entry(jx, b) = Entry(ix, b)
  BY <1>1, ResolveByFields
<1>4. \A c \in Canvas : Drawn(jx, brd, c) = Drawn(ix, brd, c)
  BY <1>3 DEF Drawn
<1>5. Boarded(ix, brd) => Boarded(jx, brd)
  BY <1>1, <1>4 DEF Boarded
<1>6. Shown(ix) => Shown(jx)
  BY <1>1 DEF Shown
<1> QED
  BY <1>1, <1>2, <1>5, <1>6

LEMMA ReindexKeeps ==
  ASSUME NEW ix, NEW obj, Placed(ix, obj), NEW brd, NEW C, NEW jx, jx = Reindex(ix, brd, C)
  PROVE  /\ Placed(jx, obj) /\ jx.resolved = ix.resolved /\ jx.backlinks = ix.backlinks
         /\ Resolved(ix) => Resolved(jx)
         /\ Mirrored(ix) => Mirrored(jx)
         /\ \A n : Links(jx, n) = Links(ix, n)
<1>0. IsIndex(ix)
  BY DEF Placed
<1>1. /\ IsIndex(jx) /\ jx.notes = ix.notes /\ jx.resolved = ix.resolved /\ jx.backlinks = ix.backlinks
      /\ jx.paths = ix.paths /\ jx.bases = ix.bases /\ jx.names = ix.names /\ jx.sources = ix.sources
  BY <1>0, ReindexFields
<1>2. Placed(jx, obj)
  BY <1>1 DEF Placed
<1>3. \A n : Links(jx, n) = Links(ix, n)
  BY <1>1, ResolveByFields
<1>4. Resolved(ix) => Resolved(jx)
  BY <1>1, <1>3 DEF Resolved
<1>5. Mirrored(ix) => Mirrored(jx)
  BY <1>1 DEF Mirrored, Sources
<1> QED
  BY <1>1, <1>2, <1>3, <1>4, <1>5

\* The four maps at one note or canvas.
LEMMA RightAt ==
  ASSUME NEW ix, NEW brd
  PROVE  /\ Resolved(ix) => \A n \in Note : ix.resolved[n] = Links(ix, n)
         /\ Mirrored(ix) => \A n \in Note : ix.backlinks[n] = Sources(ix, n)
         /\ Boarded(ix, brd) => \A c \in Canvas : ix.boards[c] = Drawn(ix, brd, c)
         /\ Shown(ix) => \A n \in Note : ix.shown[n] = Showing(ix.boards, Canvas, n)
<1>1. Resolved(ix) => \A n \in Note : ix.resolved[n] = Links(ix, n)
  BY DEF Resolved
<1>2. Mirrored(ix) => \A n \in Note : ix.backlinks[n] = Sources(ix, n)
  BY DEF Mirrored
<1>3. Boarded(ix, brd) => \A c \in Canvas : ix.boards[c] = Drawn(ix, brd, c)
  BY DEF Boarded
<1>4. Shown(ix) => \A n \in Note : ix.shown[n] = Showing(ix.boards, Canvas, n)
  BY DEF Shown
<1> QED
  BY <1>1, <1>2, <1>3, <1>4

LEMMA ResolvedAt == ASSUME NEW ix, Resolved(ix), NEW n \in Note PROVE ix.resolved[n] = Links(ix, n)
BY DEF Resolved

LEMMA MirroredAt == ASSUME NEW ix, Mirrored(ix), NEW n \in Note PROVE ix.backlinks[n] = Sources(ix, n)
BY DEF Mirrored
-----------------------------------------------------------------------------
(* What a write of one note can change elsewhere. *)

\* A note that has none of the labels links to what it linked to.
LEMMA LinksElsewhere ==
  ASSUME LinkIndexConstantsOK, NEW obj \in [Note -> Doc \cup {Nothing}], NEW ix, Placed(ix, obj),
         NEW obj1 \in [Note -> Doc \cup {Nothing}], NEW jx, Placed(jx, obj1),
         NEW n \in Note, \A m \in Note \ {n} : obj1[m] = obj[m],
         NEW labels, obj[n] # Nothing => Labels(obj[n]) \subseteq labels,
         obj1[n] # Nothing => Labels(obj1[n]) \subseteq labels,
         NEW s \in Note \ {n}, s \notin Linking(jx, labels)
  PROVE  Links(ix, s) = Links(jx, s)
<1>1. ix.notes[s] = obj[s] /\ jx.notes[s] = obj[s]
  BY DEF Placed
<1>2. CASE obj[s] = Nothing
  BY <1>1, <1>2 DEF Links
<1>3. CASE obj[s] # Nothing
  <2>1. obj[s] \in Doc
    BY <1>3
  <2>2. obj[s].links \subseteq Label
    BY <2>1, DocFacts
  <2>3. ASSUME NEW l \in obj[s].links
        PROVE  Resolve(ix, l) = Resolve(jx, l)
    <3>1. l \in Label /\ s \in jx.sources[l]
      BY <1>3, <2>2, OwnersFacts
    <3>2. l \notin labels
      BY <3>1 DEF Linking
    <3> QED
      BY <3>1, <3>2, ResolveElsewhere
  <2>4. {<<l, Resolve(ix, l)>> : l \in obj[s].links} = {<<l, Resolve(jx, l)>> : l \in obj[s].links}
    BY <2>3
  <2>5. /\ Links(ix, s) = {<<l, Resolve(ix, l)>> : l \in obj[s].links}
        /\ Links(jx, s) = {<<l, Resolve(jx, l)>> : l \in obj[s].links}
    BY <1>1, <1>3 DEF Links
  <2> QED
    BY <2>4, <2>5
<1> QED
  BY <1>2, <1>3

LEMMA EntryFacts ==
  ASSUME LinkIndexConstantsOK, NEW ix, NEW b \in Board
  PROVE  /\ Entry(ix, b) # Nothing
         /\ Entry(ix, b).refs = b.files \cup ({Resolve(ix, l) : l \in b.links} \ {Nothing})
         /\ Entry(ix, b).open = {l \in b.links : Resolve(ix, l) = Nothing}
         /\ b.links \subseteq Label
<1>1. b \in [files : SUBSET Note, links : SUBSET Label]
  BY DEF LinkIndexConstantsOK
<1>2. b.files \subseteq Note /\ b.links \subseteq Label
  BY <1>1
<1>3. \A l : Resolve(ix, l) # Nothing => Resolve(ix, l) \in Note
  BY ResolveOwner DEF Live
<1> DEFINE refs == b.files \cup ({Resolve(ix, l) : l \in b.links} \ {Nothing})
           open == {l \in b.links : Resolve(ix, l) = Nothing}
<1>4. refs \in SUBSET Note /\ open \in SUBSET Label
  BY <1>2, <1>3
<1>5. Entry(ix, b) = [refs |-> refs, open |-> open]
  BY DEF Entry
<1> HIDE DEF refs, open
<1>6. Entry(ix, b) \in [refs : SUBSET Note, open : SUBSET Label]
  BY <1>4, <1>5
<1>7. Entry(ix, b) # Nothing
  BY <1>6 DEF LinkIndexConstantsOK
<1>8. Entry(ix, b).refs = refs /\ Entry(ix, b).open = open
  BY <1>5
<1> QED
  BY <1>2, <1>7, <1>8 DEF refs, open

LEMMA NotTouched ==
  ASSUME NEW ix, NEW n, NEW labels, NEW c \in Canvas, c \notin Touched(ix, n, labels), ix.boards[c] # Nothing
  PROVE  /\ c \notin ix.shown[n] /\ ix.boards[c].open \cap labels = {}
         /\ \A l \in labels : \A o \in Named(ix, l) : c \notin ix.shown[o]
<1> DEFINE owners == UNION {ix.paths[l] \cup ix.names[l] \cup ix.bases[l] : l \in labels}
           shows == UNION {ix.shown[o] : o \in owners \cup {n}}
           marked == {d \in Canvas : ix.boards[d] # Nothing /\ ix.boards[d].open \cap labels # {}}
<1>1. \A l \in labels : Named(ix, l) \subseteq owners
  BY DEF Named
<1>2. Touched(ix, n, labels) = shows \cup marked
  BY DEF Touched
<1>3. ix.boards[c].open \cap labels # {} => c \in marked
  OBVIOUS
<1> HIDE DEF owners
<1>4. \A o \in owners \cup {n} : ix.shown[o] \subseteq shows
  OBVIOUS
<1> HIDE DEF shows, marked
<1>5. c \notin marked /\ c \notin shows
  BY <1>2
<1> QED
  BY <1>1, <1>3, <1>4, <1>5

\* A canvas that is not touched draws what it drew.
LEMMA DrawnElsewhere ==
  ASSUME LinkIndexConstantsOK, NEW obj \in [Note -> Doc \cup {Nothing}], NEW ix, Placed(ix, obj),
         NEW obj1 \in [Note -> Doc \cup {Nothing}], NEW jx, Placed(jx, obj1),
         NEW n \in Note, \A m \in Note \ {n} : obj1[m] = obj[m],
         NEW labels, obj[n] # Nothing => Labels(obj[n]) \subseteq labels,
         obj1[n] # Nothing => Labels(obj1[n]) \subseteq labels,
         NEW brd \in [Canvas -> Board \cup {Nothing}], Boarded(ix, brd), Shown(ix),
         jx.boards = ix.boards, jx.shown = ix.shown,
         NEW c \in Canvas, c \notin Touched(jx, n, labels)
  PROVE  jx.boards[c] = Drawn(jx, brd, c)
<1>1. jx.boards[c] = Drawn(ix, brd, c)
  BY RightAt
<1>2. CASE brd[c] = Nothing
  BY <1>1, <1>2 DEF Drawn
<1>3. CASE brd[c] # Nothing
  <2> DEFINE b == brd[c]
  <2>0. b \in Board
    BY <1>3
  <2>1. jx.boards[c] = Entry(ix, b)
    BY <1>1, <1>3 DEF Drawn
  <2>2. /\ jx.boards[c] # Nothing /\ b.links \subseteq Label
        /\ jx.boards[c].refs = b.files \cup ({Resolve(ix, l) : l \in b.links} \ {Nothing})
        /\ jx.boards[c].open = {l \in b.links : Resolve(ix, l) = Nothing}
    BY <2>0, <2>1, EntryFacts
  <2>3. /\ c \notin jx.shown[n] /\ jx.boards[c].open \cap labels = {}
        /\ \A l \in labels : \A o \in Named(jx, l) : c \notin jx.shown[o]
    BY <2>2, NotTouched
  <2>4. \A o \in Note : o \in jx.boards[c].refs => c \in jx.shown[o]
    <3>1. \A o \in Note : jx.shown[o] = Showing(jx.boards, Canvas, o)
      BY RightAt
    <3> QED
      BY <2>2, <3>1 DEF Showing
  <2>5. ASSUME NEW l \in b.links
        PROVE  Resolve(ix, l) = Resolve(jx, l)
    <3>1. l \in Label
      BY <2>2
    <3>2. CASE l \notin labels
      BY <3>1, <3>2, ResolveElsewhere
    <3>3. CASE l \in labels
      <4>1. Resolve(ix, l) # Nothing
        BY <2>2, <2>3, <3>3
      <4>2. Resolve(ix, l) \in Named(ix, l) \cap Note
        BY <4>1, ResolveOwner DEF Live
      <4>3. c \in jx.shown[Resolve(ix, l)]
        BY <2>2, <2>4, <4>1, <4>2
      <4>4. Resolve(ix, l) # n
        BY <2>3, <4>3
      <4>5. Resolve(ix, l) \in Named(jx, l)
        BY <3>1, <4>2, <4>4, OwnersFacts
      <4> QED
        BY <2>3, <3>3, <4>3, <4>5
    <3> QED
      BY <3>2, <3>3
  <2>6. Entry(ix, b) = Entry(jx, b)
    <3>1. {Resolve(ix, l) : l \in b.links} = {Resolve(jx, l) : l \in b.links}
      BY <2>5
    <3>2. {l \in b.links : Resolve(ix, l) = Nothing} = {l \in b.links : Resolve(jx, l) = Nothing}
      BY <2>5
    <3> HIDE DEF b
    <3> QED
      BY <3>1, <3>2 DEF Entry
  <2> QED
    BY <1>3, <2>1, <2>6 DEF Drawn
<1> QED
  BY <1>2, <1>3
-----------------------------------------------------------------------------
(* The two halves of a write: sources refreshed, and canvases read again. *)

\* Backlinks in step, or dropped when all that pointed at the note is refreshed.
Mirror(ix, S, n) ==
  \/ ix.backlinks[n] = Sources(ix, n)
  \/ ix.backlinks[n] = {} /\ \A s \in Note \ S : s # n => n \notin Pointed(ix.resolved, s)

LEMMA LinksRight ==
  ASSUME NEW ix, NEW obj, Placed(ix, obj), NEW S \in SUBSET Note,
         \A m \in Note \ S : ix.resolved[m] = Links(ix, m),
         \A n \in Note : Mirror(ix, S, n),
         NEW jx, jx = Refresh(ix, S)
  PROVE  Placed(jx, obj) /\ Resolved(jx) /\ Mirrored(jx)
<1>0. IsIndex(ix)
  BY DEF Placed
<1>1. Placed(jx, obj) /\ Resolved(jx)
  BY <1>0, RefreshKeeps, RefreshResolves
<1>2. OnNotes(jx.backlinks)
  BY <1>0, RefreshFields
<1>3. ASSUME NEW n \in Note PROVE jx.backlinks[n] = Sources(jx, n)
  <2>1. Mirror(ix, S, n)
    OBVIOUS
  <2>2. CASE ix.backlinks[n] = Sources(ix, n)
    BY <1>0, <2>2, RefreshMirrors
  <2>3. CASE ix.backlinks[n] = {} /\ \A s \in Note \ S : s # n => n \notin Pointed(ix.resolved, s)
    BY <1>0, <2>3, RefreshMirrorsAnew
  <2> QED
    BY <2>1, <2>2, <2>3 DEF Mirror
<1> QED
  BY <1>1, <1>2, <1>3 DEF Mirrored, OnNotes

LEMMA TouchedCanvases ==
  ASSUME NEW ix, NEW obj, LinkIndexConstantsOK, obj \in [Note -> Doc \cup {Nothing}], Placed(ix, obj),
         Shown(ix), NEW n \in Note, NEW labels \in SUBSET Label
  PROVE  Touched(ix, n, labels) \subseteq Canvas
<1>1. \A o \in Note : ix.shown[o] \subseteq Canvas
  BY RightAt DEF Showing
<1>2. \A l \in labels : Named(ix, l) \subseteq Note
  BY DEF Named, Placed, Having
<1> DEFINE owners == UNION {ix.paths[l] \cup ix.names[l] \cup ix.bases[l] : l \in labels}
           shows == UNION {ix.shown[o] : o \in owners \cup {n}}
           marked == {d \in Canvas : ix.boards[d] # Nothing /\ ix.boards[d].open \cap labels # {}}
<1>3. owners \cup {n} \subseteq Note
  BY <1>2 DEF Named
<1>4. Touched(ix, n, labels) = shows \cup marked
  BY DEF Touched
<1>5. marked \subseteq Canvas
  OBVIOUS
<1> HIDE DEF owners, marked
<1>6. \A o \in owners \cup {n} : ix.shown[o] \subseteq Canvas
  BY <1>1, <1>3
<1>7. shows \subseteq Canvas
  BY <1>6
<1> HIDE DEF shows
<1> QED
  BY <1>4, <1>5, <1>7

LEMMA BoardsRight ==
  ASSUME LinkIndexConstantsOK, NEW obj \in [Note -> Doc \cup {Nothing}], NEW ix, Placed(ix, obj),
         NEW obj1 \in [Note -> Doc \cup {Nothing}], NEW hx, Placed(hx, obj1),
         NEW n \in Note, \A m \in Note \ {n} : obj1[m] = obj[m],
         NEW labels \in SUBSET Label, obj[n] # Nothing => Labels(obj[n]) \subseteq labels,
         obj1[n] # Nothing => Labels(obj1[n]) \subseteq labels,
         NEW brd \in [Canvas -> Board \cup {Nothing}], Boarded(ix, brd), Shown(ix),
         hx.boards = ix.boards, hx.shown = ix.shown,
         NEW jx, jx = Reindex(hx, brd, Touched(hx, n, labels))
  PROVE  Placed(jx, obj1) /\ Boarded(jx, brd) /\ Shown(jx)
<1>0. IsIndex(hx)
  BY DEF Placed
<1>1. Shown(hx)
  BY DEF Shown
<1>2. Touched(hx, n, labels) \in SUBSET Canvas
  BY <1>1, TouchedCanvases
<1>3. Shown(jx)
  BY <1>0, <1>1, <1>2, ReindexShows
<1>4. Placed(jx, obj1)
  BY ReindexKeeps
<1>5. ASSUME NEW c \in Canvas, c \notin Touched(hx, n, labels) \/ brd[c] = Nothing
      PROVE  hx.boards[c] = Drawn(hx, brd, c)
  <2>1. CASE c \notin Touched(hx, n, labels)
    BY <2>1, DrawnElsewhere
  <2>2. CASE brd[c] = Nothing
    <3>1. hx.boards[c] = Drawn(ix, brd, c)
      BY RightAt
    <3> QED
      BY <2>2, <3>1 DEF Drawn
  <2> QED
    BY <1>5, <2>1, <2>2
<1>6. Boarded(jx, brd)
  BY <1>0, <1>5, ReindexDraws
<1> QED
  BY <1>3, <1>4, <1>6
-----------------------------------------------------------------------------
(* A note taken out of the first maps, and put into them. *)

Bare(ix, n) ==
  IF ix.notes[n] = Nothing THEN ix ELSE RemoveSource(RemoveOwner(ix, n, ix.notes[n]), n, ix.notes[n])
Kept(ix, jx) ==
  jx.resolved = ix.resolved /\ jx.backlinks = ix.backlinks /\ jx.boards = ix.boards /\ jx.shown = ix.shown

LEMMA BareFacts ==
  ASSUME LinkIndexConstantsOK, NEW obj \in [Note -> Doc \cup {Nothing}], NEW ix, Placed(ix, obj), NEW n \in Note,
         NEW jx, jx = Bare(ix, n), NEW obj0, obj0 = Off(obj, n)
  PROVE  /\ IsIndex(jx) /\ jx.notes = obj /\ Kept(ix, jx)
         /\ jx.paths = Having(obj0, ByPath) /\ jx.bases = Having(obj0, ByBase)
         /\ jx.names = Having(obj0, ByName) /\ jx.sources = Having(obj0, ByLink)
<1>0. /\ IsIndex(ix) /\ ix.notes = obj
      /\ ix.paths = Having(obj, ByPath) /\ ix.bases = Having(obj, ByBase)
      /\ ix.names = Having(obj, ByName) /\ ix.sources = Having(obj, ByLink)
  BY DEF Placed
<1>1. CASE obj[n] = Nothing
  <2>1. jx = ix
    BY <1>0, <1>1 DEF Bare
  <2>2. obj0 = obj
    BY <1>1 DEF Off
  <2> QED
    BY <1>0, <2>1, <2>2 DEF Kept
<1>2. CASE obj[n] # Nothing
  <2> DEFINE d == obj[n]
  <2>1. d \in Doc
    BY <1>2
  <2>2. jx = RemoveSource(RemoveOwner(ix, n, d), n, d)
    BY <1>0, <1>2 DEF Bare
  <2>4. /\ Without(Having(obj, ByPath), ByPath[d], n) = Having(obj0, ByPath)
        /\ Without(Having(obj, ByBase), ByBase[d], n) = Having(obj0, ByBase)
        /\ Without(Having(obj, ByName), ByName[d], n) = Having(obj0, ByName)
        /\ Without(Having(obj, ByLink), ByLink[d], n) = Having(obj0, ByLink)
    BY <1>2, Leaving
  <2> HIDE DEF d
  <2>5. /\ IsIndex(jx) /\ jx.notes = ix.notes /\ jx.resolved = ix.resolved /\ jx.backlinks = ix.backlinks
        /\ jx.boards = ix.boards /\ jx.shown = ix.shown
        /\ jx.paths = Without(ix.paths, ByPath[d], n) /\ jx.bases = Without(ix.bases, ByBase[d], n)
        /\ jx.names = Without(ix.names, ByName[d], n) /\ jx.sources = Without(ix.sources, ByLink[d], n)
    BY <1>0, <2>1, <2>2, RemoveFields
  <2> QED
    BY <1>0, <2>4, <2>5 DEF Kept
<1> QED
  BY <1>1, <1>2

LEMMA PlaceNothing ==
  ASSUME LinkIndexConstantsOK, NEW obj \in [Note -> Doc \cup {Nothing}], NEW ix, Placed(ix, obj), NEW n \in Note,
         NEW jx, jx = Noted(Bare(ix, n), n, Nothing)
  PROVE  Placed(jx, Off(obj, n)) /\ Kept(ix, jx)
<1> DEFINE bx == Bare(ix, n)
           obj0 == Off(obj, n)
<1>1. bx = Bare(ix, n) /\ obj0 = Off(obj, n) /\ jx = Noted(bx, n, Nothing)
  OBVIOUS
<1> HIDE DEF bx, obj0
<1>2. /\ IsIndex(bx) /\ bx.notes = obj /\ Kept(ix, bx)
      /\ bx.paths = Having(obj0, ByPath) /\ bx.bases = Having(obj0, ByBase)
      /\ bx.names = Having(obj0, ByName) /\ bx.sources = Having(obj0, ByLink)
  BY <1>1, BareFacts
<1>3. /\ IsIndex(jx) /\ jx.notes = On(bx.notes, n, Nothing)
      /\ jx.paths = bx.paths /\ jx.bases = bx.bases /\ jx.names = bx.names /\ jx.sources = bx.sources
      /\ Kept(bx, jx)
  BY <1>1, <1>2, NotesFields DEF Kept
<1>4. jx.notes = obj0
  BY <1>1, <1>2, <1>3 DEF On, Off
<1>5. Placed(jx, obj0)
  BY <1>2, <1>3, <1>4 DEF Placed
<1> QED
  BY <1>2, <1>3, <1>5 DEF Kept, obj0

LEMMA PlaceDoc ==
  ASSUME LinkIndexConstantsOK, NEW obj \in [Note -> Doc \cup {Nothing}], NEW ix, Placed(ix, obj), NEW n \in Note,
         NEW d \in Doc, NEW jx, jx = AddSource(AddOwner(Noted(Bare(ix, n), n, d), n, d), n, d)
  PROVE  Placed(jx, On(obj, n, d)) /\ Kept(ix, jx)
<1> DEFINE bx == Bare(ix, n)
           obj0 == Off(obj, n)
           hx == Noted(bx, n, d)
<1>1. /\ bx = Bare(ix, n) /\ obj0 = Off(obj, n) /\ hx = Noted(bx, n, d)
      /\ jx = AddSource(AddOwner(hx, n, d), n, d)
  OBVIOUS
<1>2. obj0 \in [Note -> Doc \cup {Nothing}] /\ obj0[n] = Nothing /\ On(obj0, n, d) = On(obj, n, d)
  BY DEF On, Off
<1> HIDE DEF bx, obj0, hx
<1>3. /\ IsIndex(bx) /\ bx.notes = obj /\ Kept(ix, bx)
      /\ bx.paths = Having(obj0, ByPath) /\ bx.bases = Having(obj0, ByBase)
      /\ bx.names = Having(obj0, ByName) /\ bx.sources = Having(obj0, ByLink)
  BY <1>1, BareFacts
<1>4. /\ IsIndex(hx) /\ hx.notes = On(bx.notes, n, d)
      /\ hx.paths = bx.paths /\ hx.bases = bx.bases /\ hx.names = bx.names /\ hx.sources = bx.sources
      /\ Kept(bx, hx)
  BY <1>1, <1>3, NotesFields DEF Kept
<1>5. /\ IsIndex(jx) /\ jx.notes = hx.notes /\ Kept(hx, jx)
      /\ jx.paths = With(hx.paths, ByPath[d], n) /\ jx.bases = With(hx.bases, ByBase[d], n)
      /\ jx.names = With(hx.names, ByName[d], n) /\ jx.sources = With(hx.sources, ByLink[d], n)
  BY <1>1, <1>4, AddFields DEF Kept
<1>6. d # Nothing
  BY DocFacts
<1>7. /\ With(Having(obj0, ByPath), ByPath[d], n) = Having(On(obj0, n, d), ByPath)
      /\ With(Having(obj0, ByBase), ByBase[d], n) = Having(On(obj0, n, d), ByBase)
      /\ With(Having(obj0, ByName), ByName[d], n) = Having(On(obj0, n, d), ByName)
      /\ With(Having(obj0, ByLink), ByLink[d], n) = Having(On(obj0, n, d), ByLink)
  BY <1>2, <1>6, Coming
<1>8. Placed(jx, On(obj, n, d))
  BY <1>2, <1>3, <1>4, <1>5, <1>6, <1>7 DEF Placed
<1> QED
  BY <1>3, <1>4, <1>5, <1>8 DEF Kept

\* A note that is written: its sources and those that link to its labels are refreshed.
LEMMA SourcesFollow ==
  ASSUME LinkIndexConstantsOK, NEW obj \in [Note -> Doc \cup {Nothing}], NEW ix,
         Placed(ix, obj), Resolved(ix), Mirrored(ix),
         NEW obj1 \in [Note -> Doc \cup {Nothing}], NEW hx, Placed(hx, obj1),
         hx.resolved = ix.resolved, hx.backlinks = ix.backlinks,
         NEW n \in Note, \A m \in Note \ {n} : obj1[m] = obj[m],
         NEW labels, obj[n] # Nothing => Labels(obj[n]) \subseteq labels,
         obj1[n] # Nothing => Labels(obj1[n]) \subseteq labels,
         NEW S \in SUBSET Note, n \in S, Linking(hx, labels) \subseteq S,
         NEW jx, jx = Refresh(hx, S)
  PROVE  Placed(jx, obj1) /\ Resolved(jx) /\ Mirrored(jx)
<1>1. ASSUME NEW m \in Note \ S PROVE hx.resolved[m] = Links(hx, m)
  <2>1. hx.resolved[m] = Links(ix, m)
    <3>1. ix.resolved[m] = Links(ix, m)
      BY ResolvedAt
    <3> QED
      BY <3>1
  <2>2. Links(ix, m) = Links(hx, m)
    BY LinksElsewhere
  <2> QED
    BY <2>1, <2>2
<1>2. ASSUME NEW m \in Note PROVE Mirror(hx, S, m)
  <2>1. hx.backlinks[m] = Sources(ix, m)
    <3>1. ix.backlinks[m] = Sources(ix, m)
      BY MirroredAt
    <3> QED
      BY <3>1
  <2>2. Sources(hx, m) = Sources(ix, m)
    BY DEF Sources
  <2> QED
    BY <2>1, <2>2 DEF Mirror
<1> QED
  BY <1>1, <1>2, LinksRight

\* The index of a note that went, its own links cleared and its backlinks dropped.
Dropped(ix, n) == Cleared(Refresh(Noted(Bare(ix, n), n, Nothing), {n}), n)

LEMMA DroppedFacts ==
  ASSUME LinkIndexConstantsOK, NEW obj \in [Note -> Doc \cup {Nothing}], NEW ix, Placed(ix, obj),
         Mirrored(ix), NEW n \in Note, NEW gx, gx = Dropped(ix, n)
  PROVE  /\ Placed(gx, Off(obj, n)) /\ gx.boards = ix.boards /\ gx.shown = ix.shown
         /\ \A m \in Note \ {n} : gx.resolved[m] = ix.resolved[m] /\ gx.backlinks[m] = Sources(gx, m)
         /\ gx.resolved[n] = {} /\ gx.backlinks[n] = {}
<1> DEFINE px == Noted(Bare(ix, n), n, Nothing)
           rx == Refresh(px, {n})
           obj0 == Off(obj, n)
<1>1. /\ px = Noted(Bare(ix, n), n, Nothing) /\ rx = Refresh(px, {n})
      /\ gx = Cleared(rx, n)
  BY DEF Dropped
<1>2. Placed(px, obj0) /\ Kept(ix, px)
  BY PlaceNothing
<1>3. obj0[n] = Nothing
  BY DEF Off
<1> DEFINE own == {n}
<1>0. rx = Refresh(px, own) /\ own \in SUBSET Note /\ \A m : m \in own <=> m = n
  OBVIOUS
<1> HIDE DEF px, rx, obj0, own
<1>4. Placed(rx, obj0) /\ rx.boards = px.boards /\ rx.shown = px.shown
  BY <1>0, <1>2, RefreshKeeps
<1>5. IsIndex(px) /\ IsIndex(rx)
  BY <1>2, <1>4 DEF Placed
<1>6. /\ OnNotes(rx.backlinks)
      /\ \A m \in Note : rx.resolved[m] = IF m \notin own THEN px.resolved[m] ELSE Links(px, m)
  BY <1>0, <1>5, RefreshFields
<1>7. Links(px, n) = {}
  BY <1>2, <1>3 DEF Placed, Links
<1>8. ASSUME NEW m \in Note \ {n} PROVE rx.backlinks[m] = Sources(rx, m)
  <2>1. px.backlinks[m] = Sources(px, m)
    <3>1. ix.backlinks[m] = Sources(ix, m)
      BY RightAt
    <3>2. px.backlinks = ix.backlinks /\ px.resolved = ix.resolved
      BY <1>2 DEF Kept
    <3> QED
      BY <3>1, <3>2 DEF Sources
  <2> QED
    BY <1>0, <1>5, <2>1, RefreshMirrors
<1>9. /\ IsIndex(gx) /\ gx.backlinks = On(rx.backlinks, n, {})
      /\ gx.paths = rx.paths /\ gx.bases = rx.bases /\ gx.names = rx.names /\ gx.sources = rx.sources
      /\ gx.resolved = rx.resolved /\ gx.notes = rx.notes
      /\ gx.boards = rx.boards /\ gx.shown = rx.shown
  BY <1>1, <1>5, BacklinksFields
<1>10. Placed(gx, obj0)
  BY <1>4, <1>9 DEF Placed
<1>11. gx.backlinks[n] = {} /\ \A m \in Note \ {n} : gx.backlinks[m] = rx.backlinks[m]
  BY <1>6, <1>9 DEF OnNotes, On
<1>12. \A m \in Note : Sources(gx, m) = Sources(rx, m)
  BY <1>9 DEF Sources
<1>13. gx.resolved[n] = {} /\ \A m \in Note \ {n} : gx.resolved[m] = ix.resolved[m]
  BY <1>0, <1>2, <1>6, <1>7, <1>9 DEF Kept
<1>14. gx.boards = ix.boards /\ gx.shown = ix.shown
  BY <1>2, <1>4, <1>9 DEF Kept
<1> QED
  BY <1>8, <1>10, <1>11, <1>12, <1>13, <1>14 DEF obj0

LabelsHad(doc) == IF doc = Nothing THEN {} ELSE Labels(doc)

\* A note that went: those that linked to its labels are refreshed.
LEMMA SourcesForget ==
  ASSUME LinkIndexConstantsOK, NEW obj \in [Note -> Doc \cup {Nothing}], NEW ix,
         Placed(ix, obj), Resolved(ix), NEW n \in Note,
         NEW hx, Placed(hx, Off(obj, n)),
         \A m \in Note \ {n} : hx.resolved[m] = ix.resolved[m] /\ hx.backlinks[m] = Sources(hx, m),
         hx.resolved[n] = {}, hx.backlinks[n] = {},
         NEW labels, labels = LabelsHad(obj[n]), NEW S, S = Linking(ix, labels) \ {n},
         NEW jx, jx = Refresh(hx, S)
  PROVE  Placed(jx, Off(obj, n)) /\ Resolved(jx) /\ Mirrored(jx)
<1> DEFINE obj0 == Off(obj, n)
<1>1. obj0 \in [Note -> Doc \cup {Nothing}] /\ obj0[n] = Nothing /\ \A m \in Note \ {n} : obj0[m] = obj[m]
  BY DEF Off
<1>2. labels \subseteq Label
  <2>1. obj[n] # Nothing => Labels(obj[n]) \subseteq Label
    BY DocFacts DEF Labels
  <2> QED
    BY <2>1 DEF LabelsHad
<1>0. obj[n] # Nothing => labels = Labels(obj[n])
  BY DEF LabelsHad
<1> HIDE DEF obj0
<1>3. Placed(hx, obj0)
  BY DEF obj0
<1>4. \A l \in labels : ix.sources[l] \subseteq Note /\ hx.sources[l] \subseteq ix.sources[l] \ {n}
  <2>1. \A l \in Label : ix.sources[l] \subseteq Note /\ hx.sources[l] \subseteq Note
    BY <1>3 DEF Placed, Having
  <2>2. \A l \in Label, m \in Note : m \in hx.sources[l] => m \in ix.sources[l] \ {n}
    BY <1>1, <1>3, OwnersFacts
  <2> QED
    BY <1>2, <2>1, <2>2
<1>5. S \in SUBSET Note /\ n \notin S /\ Linking(hx, labels) \subseteq S
  BY <1>4 DEF Linking
<1>6. ASSUME NEW m \in Note \ S PROVE hx.resolved[m] = Links(hx, m)
  <2>1. CASE m = n
    BY <1>1, <1>3, <2>1 DEF Links, Placed
  <2>2. CASE m # n
    <3>1. hx.resolved[m] = Links(ix, m)
      BY <2>2, RightAt
    <3>2. Links(ix, m) = Links(hx, m)
      BY <1>0, <1>1, <1>3, <1>5, <2>2, LinksElsewhere
    <3> QED
      BY <3>1, <3>2
  <2> QED
    BY <2>1, <2>2
<1>7. ASSUME NEW s \in Note \ S, s # n, n \in Pointed(hx.resolved, s) PROVE FALSE
  <2>1. hx.resolved[s] = ix.resolved[s] /\ ix.resolved[s] = Links(ix, s)
    BY <1>7, RightAt
  <2>2. n \in Pointed(ix.resolved, s)
    BY <1>7, <2>1 DEF Pointed
  <2>3. PICK l \in ix.notes[s].links : n \in Named(ix, l)
    BY <2>1, <2>2, PointedBy
  <2>4. obj[s] # Nothing /\ ix.notes[s] = obj[s]
    BY <2>1, <2>2, PointedBy DEF Placed
  <2>5. l \in Label
    BY <2>3, <2>4, DocFacts
  <2>6. obj[n] # Nothing /\ l \in Labels(obj[n]) /\ s \in ix.sources[l]
    BY <2>3, <2>4, <2>5, OwnersFacts
  <2>7. s \in Linking(ix, labels)
    BY <1>0, <2>6 DEF Linking
  <2> QED
    BY <1>7, <2>7
<1>8. \A m \in Note : Mirror(hx, S, m)
  BY <1>7 DEF Mirror
<1> QED
  BY <1>3, <1>5, <1>6, <1>8, LinksRight DEF obj0
-----------------------------------------------------------------------------
(* The writes keep the index right. *)

LEMMA LabelsOf ==
  ASSUME LinkIndexConstantsOK, NEW d \in Doc \cup {Nothing}
  PROVE  (IF d = Nothing THEN {} ELSE Labels(d)) \in SUBSET Label
<1>1. d # Nothing => Labels(d) \subseteq Label
  BY DocFacts DEF Labels
<1> QED
  BY <1>1

\* A note whose sources are refreshed, then the canvases it can change.
LEMMA WriteRight ==
  ASSUME LinkIndexConstantsOK, Stored, NEW ix, Right(ix, object, board), NEW n \in Note,
         NEW obj1 \in [Note -> Doc \cup {Nothing}], \A m \in Note \ {n} : obj1[m] = object[m],
         NEW labels \in SUBSET Label, object[n] # Nothing => Labels(object[n]) \subseteq labels,
         obj1[n] # Nothing => Labels(obj1[n]) \subseteq labels,
         NEW fx, Placed(fx, obj1), Resolved(fx), Mirrored(fx), fx.boards = ix.boards, fx.shown = ix.shown,
         NEW jx, jx = Reindex(fx, board, Touched(fx, n, labels))
  PROVE  Right(jx, obj1, board)
<1>1. Placed(ix, object) /\ Boarded(ix, board) /\ Shown(ix) /\ object \in [Note -> Doc \cup {Nothing}]
      /\ board \in [Canvas -> Board \cup {Nothing}]
  BY DEF Right, Stored
<1>2. Placed(jx, obj1) /\ Boarded(jx, board) /\ Shown(jx)
  BY <1>1, BoardsRight
<1>3. Resolved(jx) /\ Mirrored(jx)
  BY ReindexKeeps
<1> QED
  BY <1>2, <1>3 DEF Right

LEMMA IndexNoteRight ==
  ASSUME LinkIndexConstantsOK, Stored, Right(index, object, board), NEW n \in Note, NEW doc \in Doc,
         NEW jx, jx = IndexNote(index, n, doc)
  PROVE  Right(jx, On(object, n, doc), board)
<1> DEFINE old == object[n]
           labels == Labels(doc) \cup (IF old = Nothing THEN {} ELSE Labels(old))
           px == AddSource(AddOwner(Noted(Bare(index, n), n, doc), n, doc), n, doc)
           S == {n} \cup Linking(px, labels)
           fx == Refresh(px, S)
           obj1 == On(object, n, doc)
<1>1. Placed(index, object) /\ Resolved(index) /\ Mirrored(index) /\ Boarded(index, board) /\ Shown(index)
      /\ object \in [Note -> Doc \cup {Nothing}] /\ index.notes = object
  BY DEF Right, Stored, Placed
<1>2. jx = Reindex(fx, board, Touched(fx, n, labels))
  BY <1>1 DEF IndexNote, Bare, Noted
<1>3. Placed(px, obj1) /\ Kept(index, px)
  BY <1>1, PlaceDoc
<1>4. obj1 \in [Note -> Doc \cup {Nothing}] /\ obj1[n] = doc /\ \A m \in Note \ {n} : obj1[m] = object[m]
  BY <1>1 DEF On
<1>5. /\ labels \in SUBSET Label /\ Labels(doc) \subseteq labels
      /\ object[n] # Nothing => Labels(object[n]) \subseteq labels
  <2>1. (IF doc = Nothing THEN {} ELSE Labels(doc)) \in SUBSET Label
    BY LabelsOf
  <2>2. (IF old = Nothing THEN {} ELSE Labels(old)) \in SUBSET Label
    BY <1>1, LabelsOf
  <2>3. doc # Nothing
    BY DocFacts
  <2> QED
    BY <2>1, <2>2, <2>3
<1> HIDE DEF px, obj1, old, labels
<1>6. \A l \in labels : px.sources[l] \subseteq Note
  BY <1>3, <1>5 DEF Placed, Having
<1>7. S \in SUBSET Note /\ n \in S /\ Linking(px, labels) \subseteq S
  BY <1>6 DEF Linking
<1> HIDE DEF S, fx
<1>8. fx = Refresh(px, S)
  BY DEF fx
<1>9. px.resolved = index.resolved /\ px.backlinks = index.backlinks
  BY <1>3 DEF Kept
<1>10. obj1[n] # Nothing => Labels(obj1[n]) \subseteq labels
  BY <1>4, <1>5
<1>11. Placed(fx, obj1) /\ Resolved(fx) /\ Mirrored(fx)
  BY <1>1, <1>3, <1>4, <1>5, <1>7, <1>8, <1>9, <1>10, SourcesFollow
<1>12. fx.boards = index.boards /\ fx.shown = index.shown
  <2>1. fx.boards = px.boards /\ fx.shown = px.shown
    BY <1>3, <1>8, RefreshKeeps
  <2> QED
    BY <1>3, <2>1 DEF Kept
<1>13. Right(jx, obj1, board)
  BY <1>2, <1>4, <1>5, <1>10, <1>11, <1>12, WriteRight
<1> QED
  BY <1>13 DEF obj1

LEMMA DropNoteRight ==
  ASSUME LinkIndexConstantsOK, Stored, Right(index, object, board), NEW n \in Note,
         index.notes[n] # Nothing, NEW jx, jx = DropNote(index, n)
  PROVE  Right(jx, Off(object, n), board)
<1> DEFINE old == object[n]
           labels == Labels(old)
           gx == Dropped(index, n)
           S == Linking(index, labels) \ {n}
           fx == Refresh(gx, S)
           obj0 == Off(object, n)
<1>1. Placed(index, object) /\ Resolved(index) /\ Mirrored(index) /\ Boarded(index, board) /\ Shown(index)
      /\ object \in [Note -> Doc \cup {Nothing}] /\ index.notes = object /\ IsIndex(index)
  BY DEF Right, Stored, Placed
<1>2. old # Nothing /\ old \in Doc
  BY <1>1
<1>3. Bare(index, n) = RemoveOwner(RemoveSource(index, n, old), n, old)
  BY <1>1, <1>2, RemoveEitherWay DEF Bare
<1>4. jx = Reindex(fx, board, Touched(fx, n, labels))
  <2>1. gx = Cleared(Refresh(Noted(RemoveOwner(RemoveSource(index, n, old), n, old), n, Nothing), {n}), n)
    BY <1>3 DEF Dropped
  <2> HIDE DEF gx
  <2> QED
    BY <1>1, <2>1 DEF DropNote, Cleared, Noted
<1>5. obj0 \in [Note -> Doc \cup {Nothing}] /\ obj0[n] = Nothing /\ \A m \in Note \ {n} : obj0[m] = object[m]
  BY <1>1 DEF Off
<1>6. labels \in SUBSET Label /\ labels = IF object[n] = Nothing THEN {} ELSE Labels(object[n])
  BY <1>1, <1>2, LabelsOf
<1> HIDE DEF gx, obj0, labels, old, S, fx
<1>7. gx = Dropped(index, n) /\ fx = Refresh(gx, S) /\ S = Linking(index, labels) \ {n}
  BY DEF gx, fx, S
<1>8. /\ Placed(gx, obj0) /\ gx.boards = index.boards /\ gx.shown = index.shown
      /\ \A m \in Note \ {n} : gx.resolved[m] = index.resolved[m] /\ gx.backlinks[m] = Sources(gx, m)
      /\ gx.resolved[n] = {} /\ gx.backlinks[n] = {}
  BY <1>1, <1>7, DroppedFacts DEF obj0
<1>9. Placed(fx, obj0) /\ Resolved(fx) /\ Mirrored(fx)
  <2>1. labels = LabelsHad(object[n])
    BY <1>6 DEF LabelsHad
  <2> QED
    BY <1>1, <1>7, <1>8, <2>1, SourcesForget DEF obj0
<1>10. fx.boards = gx.boards /\ fx.shown = gx.shown
  BY <1>7, <1>8, RefreshKeeps
<1>11. Right(jx, obj0, board)
  <2>1. object[n] # Nothing => Labels(object[n]) \subseteq labels
    BY <1>6
  <2> QED
    BY <1>4, <1>5, <1>6, <1>8, <1>9, <1>10, <2>1, WriteRight
<1> QED
  BY <1>11 DEF obj0

\* An interrupted write, by what is on disk: the note is there or it is not.
LEMMA RecoverDocRight ==
  ASSUME LinkIndexConstantsOK, Stored, Right(index, object, board), NEW n \in Note, NEW doc \in Doc,
         NEW jx, jx = RecoverNote(index, n, doc)
  PROVE  Right(jx, On(object, n, doc), board)
<1> DEFINE old == object[n]
           before == IF old = Nothing THEN {} ELSE Labels(old)
           labels == before \cup Labels(doc)
           px == AddSource(AddOwner(Noted(Bare(index, n), n, doc), n, doc), n, doc)
           hx == Reindex(px, board, Touched(px, n, labels))
           S == (Linking(index, before) \cup Linking(px, Labels(doc))) \cup {n}
           obj1 == On(object, n, doc)
<1>1. Placed(index, object) /\ Resolved(index) /\ Mirrored(index) /\ Boarded(index, board) /\ Shown(index)
      /\ object \in [Note -> Doc \cup {Nothing}] /\ index.notes = object
      /\ board \in [Canvas -> Board \cup {Nothing}]
  BY DEF Right, Stored, Placed
<1>0. doc # Nothing
  BY DocFacts
<1>2. jx = Refresh(hx, S)
  BY <1>0, <1>1 DEF RecoverNote, Bare, Noted
<1>3. Placed(px, obj1) /\ Kept(index, px)
  BY <1>1, PlaceDoc
<1>4. obj1 \in [Note -> Doc \cup {Nothing}] /\ obj1[n] = doc /\ \A m \in Note \ {n} : obj1[m] = object[m]
  BY <1>1 DEF On
<1>5. /\ labels \in SUBSET Label /\ Labels(doc) \in SUBSET Label /\ before \in SUBSET Label
      /\ object[n] # Nothing => Labels(object[n]) \subseteq labels
  <2>1. (IF doc = Nothing THEN {} ELSE Labels(doc)) \in SUBSET Label
    BY LabelsOf
  <2>2. (IF old = Nothing THEN {} ELSE Labels(old)) \in SUBSET Label
    BY <1>1, LabelsOf
  <2> QED
    BY <1>0, <2>1, <2>2
<1>6. obj1[n] # Nothing => Labels(obj1[n]) \subseteq labels
  BY <1>4
<1>7. labels = before \cup Labels(doc)
  OBVIOUS
<1> HIDE DEF px, obj1, old, before, labels
<1>8. hx = Reindex(px, board, Touched(px, n, labels))
  OBVIOUS
<1>10. px.boards = index.boards /\ px.shown = index.shown /\ px.resolved = index.resolved /\ px.backlinks = index.backlinks
  BY <1>3 DEF Kept
<1> HIDE DEF hx
<1>11. Placed(hx, obj1) /\ Boarded(hx, board) /\ Shown(hx)
  BY <1>1, <1>3, <1>4, <1>5, <1>6, <1>8, <1>10, BoardsRight
<1>12. hx.resolved = index.resolved /\ hx.backlinks = index.backlinks
  BY <1>3, <1>8, <1>10, ReindexKeeps
<1>13. /\ \A l \in labels : hx.sources[l] \subseteq Note /\ hx.sources[l] = px.sources[l]
       /\ \A l \in Label : index.sources[l] \subseteq Note
  BY <1>1, <1>3, <1>5, <1>11 DEF Placed, Having
<1>14. \A l \in before : hx.sources[l] \subseteq index.sources[l] \cup {n}
  <2>1. ASSUME NEW l \in before, NEW m \in hx.sources[l], m # n PROVE m \in index.sources[l]
    <3>1. l \in Label /\ m \in Note /\ l \in labels
      BY <1>5, <1>13 DEF labels
    <3>2. obj1[m] # Nothing /\ l \in obj1[m].links
      BY <1>4, <1>11, <3>1, OwnersFacts
    <3> QED
      BY <1>1, <1>4, <2>1, <3>1, <3>2, OwnersFacts
  <2> QED
    BY <2>1
<1>15. Linking(hx, labels) \subseteq S
  <2>1. ASSUME NEW l \in labels, NEW m \in hx.sources[l] PROVE m \in S
    <3>1. CASE l \in before
      BY <1>14, <3>1 DEF Linking
    <3>2. CASE l \in Labels(doc)
      BY <1>13, <3>2 DEF Linking
    <3> QED
      BY <1>7, <3>1, <3>2
  <2> QED
    BY <2>1 DEF Linking
<1>16. S \in SUBSET Note /\ n \in S
  <2>1. \A l \in before : index.sources[l] \subseteq Note
    BY <1>5, <1>13
  <2>2. \A l \in Labels(doc) : px.sources[l] \subseteq Note
    BY <1>13 DEF labels
  <2>3. Linking(index, before) \subseteq Note /\ Linking(px, Labels(doc)) \subseteq Note
    BY <2>1, <2>2 DEF Linking
  <2> QED
    BY <2>3
<1> HIDE DEF S
<1>17. Placed(jx, obj1) /\ Resolved(jx) /\ Mirrored(jx)
  BY <1>1, <1>2, <1>4, <1>5, <1>6, <1>11, <1>12, <1>15, <1>16, SourcesFollow
<1>18. Boarded(jx, board) /\ Shown(jx)
  BY <1>2, <1>11, RefreshKeeps
<1> QED
  BY <1>17, <1>18 DEF Right, obj1

LEMMA RecoverNothingRight ==
  ASSUME LinkIndexConstantsOK, Stored, Right(index, object, board), NEW n \in Note,
         NEW jx, jx = RecoverNote(index, n, Nothing)
  PROVE  Right(jx, Off(object, n), board)
<1> DEFINE old == object[n]
           labels == IF old = Nothing THEN {} ELSE Labels(old)
           gx == Dropped(index, n)
           hx == Reindex(gx, board, Touched(gx, n, labels))
           S == Linking(index, labels) \ {n}
           obj0 == Off(object, n)
<1>1. Placed(index, object) /\ Resolved(index) /\ Mirrored(index) /\ Boarded(index, board) /\ Shown(index)
      /\ object \in [Note -> Doc \cup {Nothing}] /\ index.notes = object /\ IsIndex(index)
      /\ board \in [Canvas -> Board \cup {Nothing}]
  BY DEF Right, Stored, Placed
<1>2. jx = Refresh(hx, S)
  <2>1. gx = Cleared(Refresh(Noted(Bare(index, n), n, Nothing), {n}), n)
    BY DEF Dropped
  <2>2. Linking(gx, {}) = {}
    BY DEF Linking
  <2>3. Linking(index, labels) \cup Linking(gx, {}) = Linking(index, labels) /\ labels \cup {} = labels
    BY <2>2
  <2> HIDE DEF gx, labels
  <2>4. labels = IF index.notes[n] = Nothing THEN {} ELSE Labels(index.notes[n])
    BY <1>1 DEF labels
  <2>5. jx = Refresh(Reindex(gx, board, Touched(gx, n, labels \cup {})),
                     (Linking(index, labels) \cup Linking(gx, {})) \ {n})
    BY <1>1, <2>1, <2>4 DEF RecoverNote, Bare, Noted, Cleared
  <2> QED
    BY <2>3, <2>5
<1>3. obj0 \in [Note -> Doc \cup {Nothing}] /\ obj0[n] = Nothing /\ \A m \in Note \ {n} : obj0[m] = object[m]
  BY <1>1 DEF Off
<1>4. labels \in SUBSET Label /\ labels = IF object[n] = Nothing THEN {} ELSE Labels(object[n])
  BY <1>1, LabelsOf
<1> HIDE DEF gx, obj0, labels, old
<1>5. gx = Dropped(index, n) /\ hx = Reindex(gx, board, Touched(gx, n, labels)) /\ S = Linking(index, labels) \ {n}
  BY DEF gx
<1> HIDE DEF hx, S
<1>6. /\ Placed(gx, obj0) /\ gx.boards = index.boards /\ gx.shown = index.shown
      /\ \A m \in Note \ {n} : gx.resolved[m] = index.resolved[m] /\ gx.backlinks[m] = Sources(gx, m)
      /\ gx.resolved[n] = {} /\ gx.backlinks[n] = {}
  BY <1>1, <1>5, DroppedFacts DEF obj0
<1>7. object[n] # Nothing => Labels(object[n]) \subseteq labels
  BY <1>4
<1>8. Placed(hx, obj0) /\ Boarded(hx, board) /\ Shown(hx)
  BY <1>1, <1>3, <1>4, <1>5, <1>6, <1>7, BoardsRight
<1>9. hx.resolved = gx.resolved /\ hx.backlinks = gx.backlinks
  BY <1>5, <1>6, ReindexKeeps
<1>10. \A m \in Note \ {n} : hx.resolved[m] = index.resolved[m] /\ hx.backlinks[m] = Sources(hx, m)
  BY <1>6, <1>9 DEF Sources
<1>11. hx.resolved[n] = {} /\ hx.backlinks[n] = {}
  BY <1>6, <1>9
<1>12. Placed(jx, obj0) /\ Resolved(jx) /\ Mirrored(jx)
  <2>1. S = Linking(index, labels) \ {n} /\ Placed(hx, obj0) /\ Placed(index, object) /\ Resolved(index)
    BY <1>1, <1>5, <1>8
  <2>2. labels = LabelsHad(object[n])
    BY <1>4 DEF LabelsHad
  <2>3. object \in [Note -> Doc \cup {Nothing}]
    BY <1>1
  <2>4. Placed(hx, Off(object, n))
    BY <2>1 DEF obj0
  <2>5. Placed(jx, Off(object, n)) /\ Resolved(jx) /\ Mirrored(jx)
    BY <1>2, <1>10, <1>11, <2>1, <2>2, <2>3, <2>4, SourcesForget
  <2> QED
    BY <2>5 DEF obj0
<1>13. Boarded(jx, board) /\ Shown(jx)
  BY <1>2, <1>8, RefreshKeeps
<1> QED
  BY <1>12, <1>13 DEF Right, obj0
-----------------------------------------------------------------------------
(* A rebuild is right, and there is only one right index. *)

LEMMA DerivedRight ==
  ASSUME LinkIndexConstantsOK, Stored
  PROVE  Right(Derived, object, board)
<1> DEFINE paths == [l \in Label |-> {n \in Note : object[n] # Nothing /\ object[n].path = l}]
           names == [l \in Label |-> {n \in Note : object[n] # Nothing /\ l \in object[n].names}]
           bases == [l \in Label |-> {n \in Note : object[n] # Nothing /\ Base[object[n].path] = l}]
           sources == [l \in Label |-> {n \in Note : object[n] # Nothing /\ l \in object[n].links}]
           owned == [Empty EXCEPT !.notes = object, !.paths = paths, !.names = names, !.bases = bases,
                                  !.sources = sources]
           S == {n \in Note : object[n] # Nothing}
           fx == Refresh(owned, S)
<1>1. Derived = Reindex(fx, board, Canvas)
  BY DEF Derived
<1>2. \A n \in Note : object[n] = Nothing \/ object[n] \in Doc
  BY DEF Stored
<1>3. paths = Having(object, ByPath) /\ bases = Having(object, ByBase)
  BY <1>2, DocFacts DEF Having
<1>4. names = Having(object, ByName) /\ sources = Having(object, ByLink)
  BY <1>2, DocFacts DEF Having
<1>5. S \in SUBSET Note /\ \A n \in Note : n \notin S => object[n] = Nothing
  OBVIOUS
<1> HIDE DEF paths, names, bases, sources, S
<1>6. /\ IsIndex(owned) /\ owned.notes = object /\ owned.paths = paths /\ owned.names = names
      /\ owned.bases = bases /\ owned.sources = sources
      /\ owned.resolved = [n \in Note |-> {}] /\ owned.backlinks = [n \in Note |-> {}]
      /\ owned.boards = [c \in Canvas |-> Nothing] /\ owned.shown = [n \in Note |-> {}]
  <2>1. PICK ex : ex = Empty
    OBVIOUS
  <2>2. /\ IsIndex(ex)
        /\ ex.resolved = [n \in Note |-> {}] /\ ex.backlinks = [n \in Note |-> {}]
        /\ ex.boards = [c \in Canvas |-> Nothing] /\ ex.shown = [n \in Note |-> {}]
    BY <2>1 DEF Empty, IsIndex
  <2>3. owned = [ex EXCEPT !.notes = object, !.paths = paths, !.names = names, !.bases = bases,
                           !.sources = sources]
    BY <2>1
  <2> HIDE DEF owned
  <2> QED
    BY <2>2, <2>3 DEF IsIndex
<1> HIDE DEF owned
<1>7. /\ \A n \in Note : owned.resolved[n] = {} /\ owned.backlinks[n] = {} /\ owned.shown[n] = {}
      /\ \A c \in Canvas : owned.boards[c] = Nothing
  BY <1>6
<1>8. Placed(owned, object)
  BY <1>3, <1>4, <1>6 DEF Placed
<1>9. fx = Refresh(owned, S)
  OBVIOUS
<1> HIDE DEF fx
<1>10. ASSUME NEW m \in Note \ S PROVE owned.resolved[m] = Links(owned, m)
  BY <1>5, <1>6, <1>7 DEF Links
<1>11. ASSUME NEW n \in Note PROVE Mirror(owned, S, n)
  BY <1>7 DEF Mirror, Pointed
<1>12. Placed(fx, object) /\ Resolved(fx) /\ Mirrored(fx)
  BY <1>5, <1>8, <1>9, <1>10, <1>11, LinksRight
<1>13. Shown(owned)
  <2>1. \A n \in Note : Showing(owned.boards, Canvas, n) = {}
    BY <1>7 DEF Showing
  <2> QED
    BY <1>6, <2>1 DEF Shown
<1>14. Shown(fx) /\ fx.boards = owned.boards
  BY <1>8, <1>9, <1>13, RefreshKeeps
<1>15. IsIndex(fx)
  BY <1>12 DEF Placed
<1>16. Shown(Derived)
  BY <1>1, <1>14, <1>15, ReindexShows
<1>17. Boarded(Derived, board)
  <2>1. ASSUME NEW c \in Canvas, c \notin Canvas \/ board[c] = Nothing PROVE fx.boards[c] = Drawn(fx, board, c)
    BY <1>7, <1>14, <2>1 DEF Drawn
  <2> QED
    BY <1>1, <1>15, <2>1, ReindexDraws
<1>18. Placed(Derived, object) /\ Resolved(Derived) /\ Mirrored(Derived)
  BY <1>1, <1>12, ReindexKeeps
<1> QED
  BY <1>16, <1>17, <1>18 DEF Right

LEMMA RightIsOne ==
  ASSUME NEW ix, NEW jx, NEW obj, NEW brd, Right(ix, obj, brd), Right(jx, obj, brd)
  PROVE  ix = jx
<1>1. /\ IsIndex(ix) /\ IsIndex(jx) /\ ix.notes = jx.notes /\ ix.paths = jx.paths /\ ix.bases = jx.bases
      /\ ix.names = jx.names /\ ix.sources = jx.sources
  BY DEF Right, Placed
<1>2. /\ \A n : Links(ix, n) = Links(jx, n)
      /\ \A b : Entry(ix, b) = Entry(jx, b)
  BY <1>1, ResolveByFields
<1>3. ix.resolved = jx.resolved
  BY <1>2 DEF Right, Resolved
<1>4. ix.backlinks = jx.backlinks
  BY <1>3 DEF Right, Mirrored, Sources
<1>5. ix.boards = jx.boards
  <2>1. \A c \in Canvas : Drawn(ix, brd, c) = Drawn(jx, brd, c)
    BY <1>2 DEF Drawn
  <2> QED
    BY <2>1 DEF Right, Boarded
<1>6. ix.shown = jx.shown
  BY <1>5 DEF Right, Shown
<1> QED
  BY <1>1, <1>3, <1>4, <1>5, <1>6 DEF IsIndex
-----------------------------------------------------------------------------
(* The invariant. *)

LEMMA InitRight ==
  ASSUME LinkIndexConstantsOK, IndexInit
  PROVE  IndexRight
<1>1. Stored
  BY DEF IndexInit, Stored
<1>2. /\ index.notes = object /\ IsIndex(index)
      /\ index.paths = [l \in Label |-> {}] /\ index.names = [l \in Label |-> {}]
      /\ index.bases = [l \in Label |-> {}] /\ index.sources = [l \in Label |-> {}]
      /\ index.resolved = [n \in Note |-> {}] /\ index.backlinks = [n \in Note |-> {}]
      /\ index.boards = [c \in Canvas |-> Nothing] /\ index.shown = [n \in Note |-> {}]
  BY DEF IndexInit, Empty, IsIndex
<1>3. (\A n \in Note : object[n] = Nothing) /\ (\A c \in Canvas : board[c] = Nothing)
  BY DEF IndexInit
<1>4. Placed(index, object)
  <2>1. /\ Having(object, ByPath) = [l \in Label |-> {}] /\ Having(object, ByBase) = [l \in Label |-> {}]
        /\ Having(object, ByName) = [l \in Label |-> {}] /\ Having(object, ByLink) = [l \in Label |-> {}]
    BY <1>3 DEF Having
  <2> QED
    BY <1>2, <2>1 DEF Placed
<1>5. Resolved(index)
  <2>1. \A n \in Note : Links(index, n) = {}
    BY <1>2, <1>3 DEF Links
  <2> QED
    BY <1>2, <2>1 DEF Resolved
<1>6. Mirrored(index)
  <2>1. \A n \in Note : Sources(index, n) = {}
    BY <1>2 DEF Sources, Pointing, Pointed
  <2> QED
    BY <1>2, <2>1 DEF Mirrored
<1>7. Boarded(index, board)
  <2>1. \A c \in Canvas : Drawn(index, board, c) = Nothing
    BY <1>3 DEF Drawn
  <2> QED
    BY <1>2, <2>1 DEF Boarded
<1>8. Shown(index)
  <2>1. \A n \in Note : Showing(index.boards, Canvas, n) = {}
    BY <1>2 DEF Showing
  <2> QED
    BY <1>2, <2>1 DEF Shown
<1> QED
  BY <1>1, <1>4, <1>5, <1>6, <1>7, <1>8 DEF IndexRight, Right

\* A canvas is drawn from the links as they resolve now, and nothing else changes.
LEMMA AttachRight ==
  ASSUME LinkIndexConstantsOK, IndexRight, NEW c \in Canvas, NEW b \in Board \cup {Nothing},
         NEW brd, brd = [board EXCEPT ![c] = b],
         NEW entry, entry = IF b = Nothing THEN Nothing ELSE Entry(index, b),
         NEW jx, jx = Attach(index, c, entry)
  PROVE  Right(jx, object, brd)
<1> DEFINE show == [n \in Note |-> (index.shown[n] \ {c})
                                   \cup (IF entry # Nothing /\ n \in entry.refs THEN {c} ELSE {})]
           boards == [index.boards EXCEPT ![c] = entry]
<1>1. /\ Placed(index, object) /\ Resolved(index) /\ Mirrored(index) /\ Boarded(index, board) /\ Shown(index)
      /\ IsIndex(index) /\ board \in [Canvas -> Board \cup {Nothing}]
  BY DEF IndexRight, Right, Stored, Placed
<1>2. jx = [index EXCEPT !.boards = boards, !.shown = show]
  BY <1>1 DEF Attach, IsIndex
<1>3. /\ OnCanvases(boards) /\ boards[c] = entry /\ \A d \in Canvas \ {c} : boards[d] = index.boards[d]
  BY <1>1 DEF Boarded, OnCanvases
<1>4. \A n \in Note : show[n] = Showing(boards, Canvas, n)
  <2>1. \A n \in Note : index.shown[n] = Showing(index.boards, Canvas, n)
    BY <1>1, RightAt
  <2> HIDE DEF boards
  <2> QED
    BY <1>3, <2>1 DEF Showing
<1>5. OnNotes(show)
  BY DEF OnNotes
<1> HIDE DEF show, boards
<1>6. /\ IsIndex(jx) /\ jx.notes = index.notes /\ jx.resolved = index.resolved /\ jx.backlinks = index.backlinks
      /\ jx.paths = index.paths /\ jx.bases = index.bases /\ jx.names = index.names /\ jx.sources = index.sources
      /\ jx.boards = boards /\ jx.shown = show
  BY <1>1, <1>2 DEF IsIndex
<1>7. (\A n : Links(jx, n) = Links(index, n)) /\ (\A a : Entry(jx, a) = Entry(index, a))
  BY <1>6, ResolveByFields
<1>8. Placed(jx, object)
  BY <1>1, <1>6 DEF Placed
<1>9. Resolved(jx)
  BY <1>1, <1>6, <1>7 DEF Resolved
<1>10. Mirrored(jx)
  BY <1>1, <1>6 DEF Mirrored, Sources
<1>11. Boarded(jx, brd)
  <2>1. \A d \in Canvas : index.boards[d] = Drawn(index, board, d)
    BY <1>1, RightAt
  <2>2. brd[c] = b /\ \A d \in Canvas \ {c} : brd[d] = board[d]
    BY <1>1
  <2>3. \A d \in Canvas : boards[d] = Drawn(jx, brd, d)
    BY <1>3, <1>7, <2>1, <2>2 DEF Drawn
  <2> QED
    BY <1>3, <1>6, <2>3 DEF Boarded, OnCanvases
<1>12. Shown(jx)
  BY <1>4, <1>5, <1>6 DEF Shown, OnNotes
<1> QED
  BY <1>8, <1>9, <1>10, <1>11, <1>12 DEF Right

LEMMA NextRight ==
  ASSUME LinkIndexConstantsOK, IndexRight, [IndexNext]_indexVars
  PROVE  IndexRight'
<1>0. Stored /\ Right(index, object, board) /\ index.notes = object
      /\ object \in [Note -> Doc \cup {Nothing}] /\ board \in [Canvas -> Board \cup {Nothing}]
  BY DEF IndexRight, Right, Placed, Stored
<1>1. CASE UNCHANGED indexVars
  <2>1. object' = object /\ board' = board /\ index' = index
    BY <1>1 DEF indexVars
  <2>2. Right(index', object', board')
    BY <1>0, <2>1
  <2> QED
    BY <1>0, <2>1, <2>2 DEF IndexRight, Stored
<1>2. ASSUME NEW n \in Note, PutNote(n) PROVE IndexRight'
  <2>1. PICK doc \in Doc : object' = [object EXCEPT ![n] = doc] /\ index' = IndexNote(index, n, doc)
    BY <1>2 DEF PutNote
  <2>2. board' = board
    BY <1>2 DEF PutNote
  <2>3. PICK jx : jx = IndexNote(index, n, doc)
    OBVIOUS
  <2>4. Right(jx, On(object, n, doc), board)
    BY <1>0, <2>3, IndexNoteRight
  <2>5. object' = On(object, n, doc) /\ index' = jx
    BY <2>1, <2>3 DEF On
  <2>6. Right(index', object', board')
    BY <2>2, <2>4, <2>5
  <2>7. Stored'
    BY <1>0, <2>1, <2>2 DEF Stored
  <2> QED
    BY <2>6, <2>7 DEF IndexRight
<1>3. ASSUME NEW n \in Note, RemoveNote(n) PROVE IndexRight'
  <2>1. object' = [object EXCEPT ![n] = Nothing] /\ board' = board /\ index.notes[n] # Nothing
    BY <1>3 DEF RemoveNote
  <2>2. PICK jx : jx = DropNote(index, n)
    OBVIOUS
  <2>3. index' = jx
    BY <1>3, <2>2 DEF RemoveNote
  <2>4. Right(jx, Off(object, n), board)
    BY <1>0, <2>1, <2>2, DropNoteRight
  <2>5. object' = Off(object, n)
    BY <2>1 DEF Off
  <2>6. Right(index', object', board')
    BY <2>1, <2>3, <2>4, <2>5
  <2>7. Stored'
    BY <1>0, <2>1 DEF Stored
  <2> QED
    BY <2>6, <2>7 DEF IndexRight
<1>4. ASSUME NEW n \in Note, Interrupted(n) PROVE IndexRight'
  <2>1. PICK doc \in Doc \cup {Nothing} : object' = [object EXCEPT ![n] = doc] /\ index' = RecoverNote(index, n, doc)
    BY <1>4 DEF Interrupted
  <2>2. board' = board
    BY <1>4 DEF Interrupted
  <2>3. PICK jx : jx = RecoverNote(index, n, doc)
    OBVIOUS
  <2>4. Stored'
    BY <1>0, <2>1, <2>2 DEF Stored
  <2>5. Right(jx, On(object, n, doc), board)
    <3>1. CASE doc = Nothing
      <4>1. Right(jx, Off(object, n), board)
        BY <1>0, <2>3, <3>1, RecoverNothingRight
      <4>2. On(object, n, doc) = Off(object, n)
        BY <3>1 DEF On, Off
      <4> QED
        BY <4>1, <4>2
    <3>2. CASE doc # Nothing
      BY <1>0, <2>3, <3>2, RecoverDocRight
    <3> QED
      BY <3>1, <3>2
  <2>6. object' = On(object, n, doc) /\ index' = jx
    BY <2>1, <2>3 DEF On
  <2>7. Right(index', object', board')
    BY <2>2, <2>5, <2>6
  <2> QED
    BY <2>4, <2>7 DEF IndexRight
<1>5. ASSUME NEW c \in Canvas, PutCanvas(c) PROVE IndexRight'
  <2>1. PICK b \in Board : board' = [board EXCEPT ![c] = b] /\ index' = Attach(index, c, Entry(index, b))
    BY <1>5 DEF PutCanvas
  <2>2. object' = object
    BY <1>5 DEF PutCanvas
  <2>3. PICK jx : jx = Attach(index, c, Entry(index, b))
    OBVIOUS
  <2>4. PICK brd : brd = [board EXCEPT ![c] = b]
    OBVIOUS
  <2>5. b # Nothing
    BY DEF LinkIndexConstantsOK
  <2>6. Right(jx, object, brd)
    BY <2>3, <2>4, <2>5, AttachRight
  <2>7. Right(index', object', board')
    BY <2>1, <2>2, <2>3, <2>4, <2>6
  <2>8. Stored'
    BY <1>0, <2>1, <2>2 DEF Stored
  <2> QED
    BY <2>7, <2>8 DEF IndexRight
<1>6. ASSUME NEW c \in Canvas, RemoveCanvas(c) PROVE IndexRight'
  <2>1. board' = [board EXCEPT ![c] = Nothing] /\ index' = Attach(index, c, Nothing) /\ object' = object
    BY <1>6 DEF RemoveCanvas
  <2>2. PICK jx : jx = Attach(index, c, Nothing)
    OBVIOUS
  <2>3. PICK brd : brd = [board EXCEPT ![c] = Nothing]
    OBVIOUS
  <2>4. Right(jx, object, brd)
    BY <2>2, <2>3, AttachRight
  <2>5. Right(index', object', board')
    BY <2>1, <2>2, <2>3, <2>4
  <2>6. Stored'
    BY <1>0, <2>1 DEF Stored
  <2> QED
    BY <2>5, <2>6 DEF IndexRight
<1> QED
  BY <1>1, <1>2, <1>3, <1>4, <1>5, <1>6 DEF IndexNext

LEMMA IndexInvariance ==
  ASSUME LinkIndexConstantsOK
  PROVE  IndexSpec => []IndexRight
<1>1. IndexInit => IndexRight
  BY InitRight
<1>2. IndexRight /\ [IndexNext]_indexVars => IndexRight'
  BY NextRight
<1> QED
  BY <1>1, <1>2, PTL DEF IndexSpec

\* The saved index is the one a rebuild would make from the notes and canvases, whatever was
\* written, removed or cut short before: who owns a label, where links point, who links here,
\* what a board shows and what it leaves open.
THEOREM LinkIndexMatchesRebuild ==
  ASSUME LinkIndexConstantsOK
  PROVE  IndexSpec => []IndexMatchesRebuild
<1>1. IndexRight => IndexMatchesRebuild
  <2> SUFFICES ASSUME IndexRight PROVE index = Derived
    BY DEF IndexMatchesRebuild
  <2>1. Right(index, object, board) /\ Right(Derived, object, board)
    BY DerivedRight DEF IndexRight
  <2> QED
    BY <2>1, RightIsOne
<1> QED
  BY <1>1, IndexInvariance, PTL
-----------------------------------------------------------------------------
(* The age of objects: what the invariants are made of. *)

\* A text of an object, and a revision with its text.
TextOf(o) == {o} \X Nat
Revision(o, w) == [rev : 1..(w + 1), body : TextOf(o)]

\* An object and its archive after w writes: revisions grow, and the one that the object has
\* is archived with the text of the object or not at all.
Aging(l, h, o, w) ==
  /\ l # None => l \in Revision(o, w)
  /\ h = [r \in DOMAIN h |-> h[r]] /\ DOMAIN h \subseteq 1..(w + 1)
  /\ \A r \in DOMAIN h : h[r] \in TextOf(o)
  /\ l # None => \A r \in DOMAIN h : r <= l.rev /\ (r = l.rev => h[r] = l.body)

\* What is stored of the objects, the policies and the attachment.
Stock ==
  /\ writes \in Nat
  /\ live = [o \in Object |-> live[o]] /\ history = [o \in Object |-> history[o]]
  /\ \A o \in Object : Aging(live[o], history[o], o, writes)
  /\ aged \in [Object -> Nat]
Policies == policy \in Policy /\ cache \in [Session -> Policy \cup {Unread}]
Chunks == files \subseteq Whole /\ attached \in BOOLEAN

\* What a restore or a rename has read.
Read(seen) ==
  /\ seen = [o |-> seen.o, body |-> seen.body, base |-> seen.base, checked |-> seen.checked]
  /\ seen.o \in Object /\ seen.body \in TextOf(seen.o)
  /\ seen.base = None \/ seen.base \in Nat
Readings == reading = [s \in Session |-> reading[s]] /\ \A s \in Session : reading[s] # None => Read(reading[s])

\* The command in the lock.
Shape(c) == c = [by |-> c.by, task |-> c.task, step |-> c.step, o |-> c.o, body |-> c.body, doom |-> c.doom]
Steps == {<<"sweep", "prune">>, <<"put", "archive">>, <<"put", "prune">>, <<"remove", "archive">>,
          <<"remove", "prune">>, <<"purge", "clear">>, <<"attach", "chunk">>, <<"detach", "tree">>}
Commanded ==
  op # None =>
    /\ Shape(op) /\ op.by \in Session /\ op.doom \subseteq Object \X Nat /\ <<op.task, op.step>> \in Steps
    /\ op.task \in {"put", "remove", "purge"} => op.o \in Object
    /\ op.task = "put" => op.body \in TextOf(op.o)
    /\ op.task = "attach" => op.body \in 1..(Parts + 1)
    /\ op.step = "archive" => live[op.o] # None
    /\ op.step # "prune" => op.doom = {}
    /\ op.task = "purge" => live[op.o] = None

LifeTypes == Stock /\ Policies /\ Chunks /\ Readings /\ Commanded

\* Nothing is left of an object that was purged, no command writes it and no read goes back to it.
Gone ==
  /\ \A o \in purged : o \in Object /\ live[o] = None /\ Archived(o) = {}
  /\ op # None /\ op.task \in {"put", "remove"} => op.o \notin purged
  /\ \A s \in Session : reading[s] # None => reading[s].base # 0
PurgeInv == LifeTypes /\ Gone

\* A policy lets a revision of an archive go: it is too old, or enough are newer.
Lets(p, T, a, r) ==
  \/ p.days /\ r <= a
  \/ p.keep # None /\ Cardinality({q \in T : q > r}) >= p.keep

\* No session prunes by more than the stored policy.
Cached == \A s \in Session : cache[s] \in {Unread, Unlimited, policy}
Prunes ==
  op # None =>
    \A d \in op.doom : d[2] \in Archived(d[1]) /\ Lets(policy, Archived(d[1]), aged[d[1]], d[2])
\* What is kept is there; when the object is about to change it is archived.
InArchive(h, b) == \E r \in DOMAIN h : b = h[r]
There(l, h, b) == (l # None /\ b = l.body) \/ InArchive(h, b)
TextsKept ==
  /\ \A b \in kept : b[1] \in Object /\ There(live[b[1]], history[b[1]], b)
  /\ op # None /\ op.task \in {"put", "remove"} /\ op.step = "prune" =>
       \A b \in kept : b[1] = op.o => InArchive(history[op.o], b)
  /\ op # None /\ op.task = "purge" => \A b \in kept : b[1] # op.o
\* A manifest without its chunks is there only while the attachment is removed.
Files ==
  /\ attached => files = Whole
  /\ Manifest \in files => files = Whole \/ (op # None /\ op.task = "detach")
  /\ op # None /\ op.task = "detach" => ~attached
  /\ op # None /\ op.task = "attach" =>
       /\ ~attached /\ Manifest \notin files
       /\ 1..(op.body - 1) \subseteq files
KeptInv == LifeTypes /\ Cached /\ Prunes /\ TextsKept /\ Files
-----------------------------------------------------------------------------
(* Archives. *)

LEMMA MaxUpTo ==
  ASSUME NEW n \in Nat, NEW T \in SUBSET (0..n), T # {}
  PROVE  Max(T) \in T /\ \A y \in T : y <= Max(T)
<1> DEFINE R == {ss \in Nat \X Nat : ss[1] < ss[2]}
           D == {n - i : i \in T}
<1>1. D \in SUBSET Nat /\ D # {}
  <2>1. \A i \in T : n - i \in Nat
    OBVIOUS
  <2> QED
    BY <2>1
<1>2. \E x \in D : \A y \in D : ~ (<<y, x>> \in R)
  <2>1. IsWellFoundedOn(R, Nat)
    BY NatLessThanWellFounded DEF OpToRel
  <2> HIDE DEF R, D
  <2> QED
    BY <1>1, <2>1, WFMin
<1>3. PICK x \in T : \A y \in D : ~ (<<y, n - x>> \in R)
  BY <1>2
<1>4. ASSUME NEW y \in T PROVE x >= y
  <2>1. n - y \in D /\ n - y \in Nat /\ n - x \in Nat
    OBVIOUS
  <2>2. ~(n - y < n - x)
    BY <1>3, <2>1
  <2> QED
    BY <2>2
<1>5. \E z \in T : \A y \in T : z >= y
  BY <1>4
<1>6. Max(T) \in T /\ \A y \in T : Max(T) >= y
  BY <1>5 DEF Max
<1> QED
  BY <1>6

LEMMA LatestFacts ==
  ASSUME ObjectLifecycleConstantsOK, Stock, NEW o \in Object
  PROVE  /\ LatestRevision(o) \in 0..(writes + 1)
         /\ \A r \in Archived(o) : r \in 1..(writes + 1) /\ r <= LatestRevision(o)
         /\ live[o] # None => LatestRevision(o) = live[o].rev /\ live[o].rev \in 1..(writes + 1)
         /\ live[o] = None /\ Archived(o) = {} => LatestRevision(o) = 0
<1>1. Aging(live[o], history[o], o, writes) /\ writes \in Nat
  BY DEF Stock
<1>2. Archived(o) \subseteq 1..(writes + 1)
  BY <1>1 DEF Aging, Archived
<1>3. CASE live[o] # None
  <2>1. live[o].rev \in 1..(writes + 1) /\ \A r \in Archived(o) : r <= live[o].rev
    BY <1>1, <1>3 DEF Aging, Archived, Revision
  <2> QED
    BY <1>1, <1>2, <1>3, <2>1 DEF LatestRevision
<1>4. CASE live[o] = None
  <2> DEFINE T == {0} \cup Archived(o)
  <2>1. T \in SUBSET (0..(writes + 1)) /\ T # {} /\ writes + 1 \in Nat
    BY <1>1, <1>2
  <2>2. Archived(o) = {} => T = {0}
    OBVIOUS
  <2>3. \A r \in Archived(o) : r \in T
    OBVIOUS
  <2>4. LatestRevision(o) = Max(T)
    BY <1>4 DEF LatestRevision
  <2> HIDE DEF T
  <2>5. Max(T) \in T /\ \A y \in T : y <= Max(T)
    BY <2>1, MaxUpTo
  <2> QED
    BY <1>1, <1>2, <1>4, <2>1, <2>2, <2>3, <2>4, <2>5
<1> QED
  BY <1>3, <1>4

LEMMA DroppingFacts ==
  ASSUME NEW h, NEW S \in SUBSET DOMAIN h, NEW g, g = Restrict(h, S)
  PROVE  g = [r \in DOMAIN g |-> g[r]] /\ DOMAIN g = S /\ \A r \in S : g[r] = h[r]
BY DEF Restrict

LEMMA FilingFacts ==
  ASSUME NEW h, NEW l, NEW g, g = Filed(h, l)
  PROVE  /\ g = [r \in DOMAIN g |-> g[r]] /\ g[l.rev] = l.body
         /\ \A r : r \in DOMAIN g <=> r \in DOMAIN h \/ r = l.rev
         /\ \A r \in DOMAIN h : r # l.rev => g[r] = h[r]
BY DEF Filed

LEMMA AgingDrops ==
  ASSUME NEW l, NEW h, NEW o, NEW w \in Nat, Aging(l, h, o, w), NEW S \in SUBSET DOMAIN h,
         NEW g, g = Restrict(h, S)
  PROVE  Aging(l, g, o, w)
<1>1. g = [r \in DOMAIN g |-> g[r]] /\ DOMAIN g = S /\ \A r \in S : g[r] = h[r]
  BY DroppingFacts
<1> QED
  BY <1>1 DEF Aging

LEMMA AgingFiles ==
  ASSUME NEW l, NEW h, NEW o, NEW w \in Nat, Aging(l, h, o, w), l # None, NEW g, g = Filed(h, l)
  PROVE  Aging(l, g, o, w)
<1>1. /\ g = [r \in DOMAIN g |-> g[r]] /\ g[l.rev] = l.body
      /\ \A r : r \in DOMAIN g <=> r \in DOMAIN h \/ r = l.rev
      /\ \A r \in DOMAIN h : r # l.rev => g[r] = h[r]
  BY FilingFacts
<1>2. l.rev \in 1..(w + 1) /\ l.body \in TextOf(o)
  BY DEF Aging, Revision
<1> QED
  BY <1>1, <1>2 DEF Aging

LEMMA AgingWrites ==
  ASSUME NEW l, NEW h, NEW o, NEW w \in Nat, Aging(l, h, o, w),
         NEW r \in 1..(w + 2), \A q \in DOMAIN h : q < r, NEW b \in TextOf(o),
         NEW m, m = [rev |-> r, body |-> b]
  PROVE  Aging(m, h, o, w + 1)
<1>1. m \in Revision(o, w + 1) /\ m.rev = r /\ m.body = b
  BY DEF Revision
<1>2. \A q \in DOMAIN h : q \in 1..(w + 1)
  BY DEF Aging
<1>3. DOMAIN h \subseteq 1..(w + 1 + 1) /\ \A q \in DOMAIN h : q <= r /\ q # r
  BY <1>2
<1> QED
  BY <1>1, <1>3 DEF Aging

LEMMA AgingLasts ==
  ASSUME NEW l, NEW h, NEW o, NEW w \in Nat, Aging(l, h, o, w)
  PROVE  Aging(l, h, o, w + 1) /\ Aging(None, h, o, w)
<1>1. 1..(w + 1) \subseteq 1..(w + 1 + 1)
  OBVIOUS
<1>2. l # None => l \in Revision(o, w + 1)
  BY <1>1 DEF Aging, Revision
<1> QED
  BY <1>1, <1>2 DEF Aging
-----------------------------------------------------------------------------
(* What is stored keeps its shape. *)

LEMMA CommandFacts ==
  ASSUME Commanded, op # None
  PROVE  /\ Shape(op) /\ op.by \in Session /\ op.doom \subseteq Object \X Nat
         /\ op.step = "archive" => op.task \in {"put", "remove"} /\ op.o \in Object /\ live[op.o] # None /\ op.doom = {}
         /\ op.task \in {"put", "remove", "purge"} => op.o \in Object
         /\ op.task = "put" => op.body \in TextOf(op.o)
         /\ op.step = "clear" => op.task = "purge"
         /\ op.task = "sweep" => op.step = "prune"
         /\ op.task = "purge" => op.step = "clear" /\ live[op.o] = None
         /\ op.task = "attach" => op.step = "chunk"
         /\ op.task = "detach" => op.step = "tree"
         /\ op.step = "prune" => op.task \in {"put", "remove", "sweep"}
BY DEF Commanded, Steps

LEMMA StockStep ==
  ASSUME ObjectLifecycleConstantsOK, LifeTypes, [Next]_vars
  PROVE  Stock'
<1>0. Stock /\ Commanded /\ writes \in Nat /\ live = [o \in Object |-> live[o]]
      /\ history = [o \in Object |-> history[o]] /\ aged \in [Object -> Nat]
      /\ \A o \in Object : Aging(live[o], history[o], o, writes)
  BY DEF LifeTypes, Stock
<1>1. CASE UNCHANGED vars
  BY <1>0, <1>1 DEF vars, objects, Stock
<1>2. CASE TimePasses
  <2>1. PICK o \in Object : aged' = [aged EXCEPT ![o] = LatestRevision(o)]
    BY <1>2 DEF TimePasses
  <2>2. LatestRevision(o) \in Nat
    BY <1>0, LatestFacts
  <2> QED
    BY <1>0, <1>2, <2>1, <2>2 DEF TimePasses, Stock
<1>3. ASSUME NEW s \in Session,
             \/ Put(s) \/ Rename(s) \/ Restore(s) \/ RestoreBase(s) \/ PutRead(s) \/ Remove(s)
             \/ SetRetentionPolicy(s) \/ SweepRetention(s) \/ EndSweep(s) \/ EndPurge(s)
             \/ Attaching(s) \/ Close(s) \/ Die(s)
      PROVE  Stock'
  <2>1. UNCHANGED <<live, history, aged, writes>>
    BY <1>3 DEF Put, Rename, Restore, RestoreBase, PutRead, Remove, SetRetentionPolicy, SweepRetention,
      EndSweep, EndPurge, Attaching, PutAttachment, WriteChunk, WriteManifest, RemoveAttachment, RemoveTree,
      Close, Die, objects
  <2> QED
    BY <1>0, <2>1 DEF Stock
<1>4. ASSUME NEW s \in Session, ApplyRetention(s) \/ RemoveHistory(s) PROVE Stock'
  <2>1. PICK o, r : history' = [history EXCEPT ![o] = Restrict(@, Archived(o) \ {r})]
    BY <1>4 DEF ApplyRetention, RemoveHistory
  <2>2. UNCHANGED <<live, aged, writes>>
    BY <1>4 DEF ApplyRetention, RemoveHistory
  <2>3. ASSUME NEW q \in Object PROVE Aging(live[q], history'[q], q, writes)
    <3>1. CASE q = o
      <4>1. history'[q] = Restrict(history[q], Archived(q) \ {r})
        BY <1>0, <2>1, <3>1
      <4> QED
        BY <1>0, <4>1, AgingDrops DEF Archived
    <3>2. CASE q # o
      BY <1>0, <2>1, <3>2
    <3> QED
      BY <3>1, <3>2
  <2>4. history' = [q \in Object |-> history'[q]]
    BY <1>0, <2>1
  <2> QED
    BY <1>0, <2>2, <2>3, <2>4 DEF Stock
<1>5. ASSUME NEW s \in Session, ArchiveRevision(s) PROVE Stock'
  <2>1. op.o \in Object /\ live[op.o] # None
    BY <1>0, <1>5, CommandFacts DEF ArchiveRevision
  <2>2. UNCHANGED <<live, aged, writes>>
    BY <1>5 DEF ArchiveRevision
  <2>3. \/ history' = history
        \/ history' = [history EXCEPT ![op.o] = Filed(history[op.o], live[op.o])]
    BY <1>5 DEF ArchiveRevision
  <2>4. ASSUME NEW q \in Object PROVE Aging(live[q], history'[q], q, writes)
    <3>1. history'[q] = history[q] \/ (q = op.o /\ history'[q] = Filed(history[q], live[q]))
      BY <1>0, <2>3
    <3> QED
      BY <1>0, <2>1, <3>1, AgingFiles
  <2>5. history' = [q \in Object |-> history'[q]]
    BY <1>0, <2>3
  <2> QED
    BY <1>0, <2>2, <2>4, <2>5 DEF Stock
<1>6. ASSUME NEW s \in Session, WriteObject(s) PROVE Stock'
  <2>1. op.o \in Object /\ op.body \in TextOf(op.o)
    BY <1>0, <1>6, CommandFacts DEF WriteObject, Holds
  <2>2. /\ live' = [live EXCEPT ![op.o] = [rev |-> LatestRevision(op.o) + 1, body |-> op.body]]
        /\ aged' = [aged EXCEPT ![op.o] = Min({@, LatestRevision(op.o)})]
        /\ writes' = writes + 1 /\ history' = history
    BY <1>6 DEF WriteObject
  <2>3. /\ LatestRevision(op.o) \in 0..(writes + 1)
        /\ \A r \in Archived(op.o) : r \in 1..(writes + 1) /\ r <= LatestRevision(op.o)
    BY <1>0, <2>1, LatestFacts
  <2>4. ASSUME NEW q \in Object PROVE Aging(live'[q], history[q], q, writes + 1)
    <3>1. CASE q = op.o
      <4>1. live'[q] = [rev |-> LatestRevision(q) + 1, body |-> op.body]
        BY <1>0, <2>1, <2>2, <3>1
      <4>2. LatestRevision(q) + 1 \in 1..(writes + 2) /\ \A r \in DOMAIN history[q] : r < LatestRevision(q) + 1
        BY <1>0, <2>3, <3>1 DEF Archived
      <4> QED
        BY <1>0, <2>1, <3>1, <4>1, <4>2, AgingWrites
    <3>2. CASE q # op.o
      <4>1. live'[q] = live[q]
        BY <1>0, <2>2, <3>2
      <4> QED
        BY <1>0, <4>1, AgingLasts
    <3> QED
      BY <3>1, <3>2
  <2>5. aged' \in [Object -> Nat]
    <3>1. \A a, b \in Nat : Min({a, b}) \in Nat
      BY DEF Min
    <3>2. aged[op.o] \in Nat /\ LatestRevision(op.o) \in Nat
      BY <1>0, <2>1, <2>3
    <3>3. Min({aged[op.o], LatestRevision(op.o)}) \in Nat
      BY <3>1, <3>2
    <3> QED
      BY <1>0, <2>2, <3>3
  <2>6. live' = [q \in Object |-> live'[q]]
    BY <1>0, <2>2
  <2> QED
    BY <1>0, <2>2, <2>4, <2>5, <2>6 DEF Stock
<1>7. ASSUME NEW s \in Session, RemoveObject(s) \/ Purge(s) PROVE Stock'
  <2>1. PICK o : live' = [live EXCEPT ![o] = None]
    BY <1>7 DEF RemoveObject, Purge
  <2>2. UNCHANGED <<history, aged, writes>>
    BY <1>7 DEF RemoveObject, Purge
  <2>3. ASSUME NEW q \in Object PROVE Aging(live'[q], history[q], q, writes)
    <3>1. live'[q] = live[q] \/ live'[q] = None
      BY <1>0, <2>1
    <3> QED
      BY <1>0, <3>1, AgingLasts
  <2>4. live' = [q \in Object |-> live'[q]]
    BY <1>0, <2>1
  <2> QED
    BY <1>0, <2>2, <2>3, <2>4 DEF Stock
<1> QED
  BY <1>1, <1>2, <1>3, <1>4, <1>5, <1>6, <1>7 DEF Next, Editing, Retaining, Purging

LEMMA BodyFacts ==
  ASSUME Stock, NEW o \in Object
  PROVE  /\ Bodies(o) \subseteq TextOf(o)
         /\ live[o] # None => live[o].body \in Bodies(o)
         /\ \A r \in Archived(o) : history[o][r] \in Bodies(o)
         /\ \A b \in Bodies(o) : (live[o] # None /\ b = live[o].body) \/ \E r \in Archived(o) : b = history[o][r]
<1>1. Aging(live[o], history[o], o, writes)
  BY DEF Stock
<1>2. live[o] # None => live[o].body \in TextOf(o)
  BY <1>1 DEF Aging, Revision
<1>3. \A r \in Archived(o) : history[o][r] \in TextOf(o)
  BY <1>1 DEF Aging, Archived
<1> QED
  BY <1>2, <1>3 DEF Bodies

LEMMA PolicyFacts ==
  ASSUME ObjectLifecycleConstantsOK, Policies, NEW s \in Session
  PROVE  RetentionPolicy(s) \in Policy
BY DEF Policies, RetentionPolicy

LEMMA PoliciesStep ==
  ASSUME ObjectLifecycleConstantsOK, LifeTypes, [Next]_vars
  PROVE  Policies'
<1>0. Policies
  BY DEF LifeTypes
<1>1. CASE UNCHANGED vars
  BY <1>0, <1>1 DEF vars, retention, Policies
<1>2. ASSUME NEW s \in Session, SetRetentionPolicy(s) PROVE Policies'
  BY <1>0, <1>2 DEF SetRetentionPolicy, Policies
<1>3. ASSUME NEW s \in Session, SweepRetention(s) \/ ArchiveRevision(s) PROVE Policies'
  <2>1. policy' = policy /\ (cache' = cache \/ cache' = [cache EXCEPT ![s] = RetentionPolicy(s)])
    BY <1>3 DEF SweepRetention, ArchiveRevision
  <2> QED
    BY <1>0, <2>1, PolicyFacts DEF Policies
<1>4. ASSUME NEW s \in Session, Close(s) \/ Die(s) PROVE Policies'
  BY <1>0, <1>4 DEF Close, Die, Forget, Policies
<1>5. ASSUME NEW s \in Session,
             \/ Put(s) \/ Rename(s) \/ Restore(s) \/ RestoreBase(s) \/ PutRead(s) \/ WriteObject(s)
             \/ Remove(s) \/ RemoveObject(s) \/ ApplyRetention(s) \/ EndSweep(s) \/ Purging(s) \/ Attaching(s)
      PROVE  Policies'
  <2>1. UNCHANGED retention
    BY <1>5 DEF Put, Rename, Restore, RestoreBase, PutRead, WriteObject, Remove, RemoveObject, ApplyRetention,
      EndSweep, Purging, Purge, RemoveHistory, EndPurge, Attaching, PutAttachment, WriteChunk, WriteManifest,
      RemoveAttachment, RemoveTree
  <2> QED
    BY <1>0, <2>1 DEF Policies, retention
<1>6. CASE TimePasses
  BY <1>0, <1>6 DEF TimePasses, retention, Policies
<1> QED
  BY <1>1, <1>2, <1>3, <1>4, <1>5, <1>6 DEF Next, Editing, Retaining

LEMMA ChunksStep ==
  ASSUME ObjectLifecycleConstantsOK, LifeTypes, [Next]_vars
  PROVE  Chunks'
<1>0. Chunks /\ Commanded
  BY DEF LifeTypes
<1>1. CASE UNCHANGED vars
  BY <1>0, <1>1 DEF vars, attachment, Chunks
<1>2. CASE TimePasses
  BY <1>0, <1>2 DEF TimePasses, attachment, Chunks
<1>3. ASSUME NEW s \in Session, Editing(s) \/ Retaining(s) \/ Purging(s) \/ Close(s) \/ Die(s) PROVE Chunks'
  <2>1. UNCHANGED attachment
    BY <1>3 DEF Editing, Put, Rename, Restore, RestoreBase, PutRead, ArchiveRevision, WriteObject, Remove,
      RemoveObject, Retaining, SetRetentionPolicy, SweepRetention, ApplyRetention, EndSweep, Purging, Purge,
      RemoveHistory, EndPurge, Close, Die
  <2> QED
    BY <1>0, <2>1 DEF Chunks, attachment
<1>4. ASSUME NEW s \in Session, PutAttachment(s) \/ RemoveAttachment(s) \/ RemoveTree(s) PROVE Chunks'
  BY <1>0, <1>4 DEF PutAttachment, RemoveAttachment, RemoveTree, Chunks
<1>5. ASSUME NEW s \in Session, WriteChunk(s) PROVE Chunks'
  <2>1. op.body \in 1..Parts
    BY <1>0, <1>5 DEF WriteChunk, Holds, Commanded, ObjectLifecycleConstantsOK
  <2> QED
    BY <1>0, <1>5, <2>1 DEF WriteChunk, Chunks, Whole
<1>6. ASSUME NEW s \in Session, WriteManifest(s) PROVE Chunks'
  BY <1>0, <1>6 DEF WriteManifest, Chunks, Whole
<1> QED
  BY <1>1, <1>2, <1>3, <1>4, <1>5, <1>6 DEF Next, Attaching

LEMMA ReadingsStep ==
  ASSUME ObjectLifecycleConstantsOK, LifeTypes, [Next]_vars
  PROVE  Readings'
<1>0. Readings /\ Stock /\ reading = [s \in Session |-> reading[s]]
      /\ \A s \in Session : reading[s] # None => Read(reading[s])
  BY DEF LifeTypes, Readings
<1>1. ASSUME UNCHANGED reading PROVE Readings'
  BY <1>0, <1>1 DEF Readings
<1>2. ASSUME NEW s \in Session, NEW seen, seen = None \/ Read(seen), reading' = [reading EXCEPT ![s] = seen]
      PROVE  Readings'
  BY <1>0, <1>2 DEF Readings
<1>3. CASE UNCHANGED vars \/ TimePasses
  BY <1>1, <1>3 DEF vars, TimePasses
<1>4. ASSUME NEW s \in Session,
             \/ Put(s) \/ ArchiveRevision(s) \/ Remove(s) \/ RemoveObject(s) \/ Retaining(s) \/ Purging(s)
             \/ Attaching(s)
      PROVE  Readings'
  <2>1. UNCHANGED reading
    BY <1>4 DEF Put, ArchiveRevision, Remove, RemoveObject, Retaining, SetRetentionPolicy, SweepRetention,
      ApplyRetention, EndSweep, Purging, Purge, RemoveHistory, EndPurge, Attaching, PutAttachment, WriteChunk,
      WriteManifest, RemoveAttachment, RemoveTree
  <2> QED
    BY <1>1, <2>1
<1>5. ASSUME NEW s \in Session, PutRead(s) \/ WriteObject(s) \/ Close(s) \/ Die(s) PROVE Readings'
  <2>1. reading' = reading \/ reading' = [reading EXCEPT ![s] = None]
    BY <1>5 DEF PutRead, WriteObject, Close, Die, Forget
  <2> QED
    BY <1>1, <1>2, <2>1
<1>6. ASSUME NEW s \in Session, Rename(s) PROVE Readings'
  <2>1. PICK o \in Object : live[o] # None /\ reading' = [reading EXCEPT ![s] =
            [o |-> o, body |-> live[o].body, base |-> live[o].rev, checked |-> o \in CanvasId]]
    BY <1>6 DEF Rename
  <2>2. live[o].body \in TextOf(o) /\ live[o].rev \in Nat
    BY <1>0, <2>1, BodyFacts, LatestFacts
  <2>3. Read([o |-> o, body |-> live[o].body, base |-> live[o].rev, checked |-> o \in CanvasId])
    BY <2>2 DEF Read
  <2> QED
    BY <1>2, <2>1, <2>3
<1>7. ASSUME NEW s \in Session, Restore(s) PROVE Readings'
  <2>0. PICK o \in Object : \E body \in Bodies(o) :
          reading' = [reading EXCEPT ![s] = [o |-> o, body |-> body, base |-> None, checked |-> TRUE]]
    BY <1>7 DEF Restore
  <2>1. PICK body \in Bodies(o) :
          reading' = [reading EXCEPT ![s] = [o |-> o, body |-> body, base |-> None, checked |-> TRUE]]
    BY <2>0
  <2>2. body \in TextOf(o)
    BY <1>0, BodyFacts
  <2>3. Read([o |-> o, body |-> body, base |-> None, checked |-> TRUE])
    BY <2>2 DEF Read
  <2> QED
    BY <1>2, <2>1, <2>3
<1>8. ASSUME NEW s \in Session, RestoreBase(s) PROVE Readings'
  <2>1. reading[s] # None /\ reading' = [reading EXCEPT ![s].base = LatestRevision(reading[s].o)]
    BY <1>8 DEF RestoreBase
  <2>2. Read(reading[s])
    BY <1>0, <2>1
  <2>3. LatestRevision(reading[s].o) \in Nat
    BY <1>0, <2>2, LatestFacts DEF Read
  <2> DEFINE seen == [reading[s] EXCEPT !.base = LatestRevision(reading[s].o)]
  <2>4. reading' = [reading EXCEPT ![s] = seen]
    BY <2>1
  <2>5. Read(seen)
    BY <2>2, <2>3 DEF Read
  <2> HIDE DEF seen
  <2> QED
    BY <1>2, <2>4, <2>5
<1> QED
  BY <1>3, <1>4, <1>5, <1>6, <1>7, <1>8 DEF Next, Editing

\* A command that starts.
LEMMA CommandStarts ==
  ASSUME NEW s \in Session, NEW task, NEW step, NEW o, NEW c, c = Command(s, task, step, o)
  PROVE  Shape(c) /\ c.by = s /\ c.task = task /\ c.step = step /\ c.o = o /\ c.doom = {} /\ c.body = None
BY DEF Command, Shape

LEMMA DoomedFacts ==
  ASSUME ObjectLifecycleConstantsOK, Stock, NEW p
  PROVE  /\ AllDoomed(p) \subseteq Object \X Nat
         /\ \A o \in Object : \A h : DOMAIN h \subseteq Nat => {o} \X Doomed(o, h, p) \subseteq Object \X Nat
         /\ \A d \in AllDoomed(p) : d[1] \in Object /\ d[2] \in Doomed(d[1], history[d[1]], p)
<1>1. ASSUME NEW o \in Object, NEW h, DOMAIN h \subseteq Nat PROVE Doomed(o, h, p) \subseteq Nat
  BY <1>1 DEF Doomed
<1>2. \A o \in Object : DOMAIN history[o] \subseteq Nat
  BY LatestFacts DEF Archived
<1>3. ASSUME NEW d \in AllDoomed(p)
      PROVE  d \in Object \X Nat /\ d[1] \in Object /\ d[2] \in Doomed(d[1], history[d[1]], p)
  <2>1. PICK o \in Object : d \in {o} \X Doomed(o, history[o], p)
    BY DEF AllDoomed
  <2>2. d[1] = o /\ d[2] \in Doomed(o, history[o], p) /\ d = <<d[1], d[2]>>
    BY <2>1
  <2>3. d[2] \in Nat
    BY <1>1, <1>2, <2>2
  <2> QED
    BY <2>2, <2>3
<1> QED
  BY <1>1, <1>3

LEMMA CommandedStep ==
  ASSUME ObjectLifecycleConstantsOK, LifeTypes, [Next]_vars
  PROVE  Commanded'
<1>0. Commanded /\ Stock /\ Readings /\ live = [o \in Object |-> live[o]]
  BY DEF LifeTypes, Stock
<1>1. ASSUME op' = None PROVE Commanded'
  BY <1>1 DEF Commanded
<1>2. ASSUME UNCHANGED <<op, live>> PROVE Commanded'
  BY <1>0, <1>2 DEF Commanded
<1>3. CASE UNCHANGED vars \/ TimePasses
  BY <1>2, <1>3 DEF vars, objects, TimePasses
<1>4. ASSUME NEW s \in Session,
             Rename(s) \/ Restore(s) \/ RestoreBase(s) \/ RemoveHistory(s) \/ Close(s)
      PROVE  Commanded'
  <2>1. UNCHANGED <<op, live>>
    BY <1>4 DEF Rename, Restore, RestoreBase, RemoveHistory, Close, objects
  <2> QED
    BY <1>2, <2>1
<1>5. ASSUME NEW s \in Session,
             \/ WriteObject(s) \/ RemoveObject(s) \/ EndSweep(s) \/ EndPurge(s) \/ WriteManifest(s) \/ Die(s)
      PROVE  Commanded'
  <2>1. op' = None
    BY <1>5 DEF WriteObject, RemoveObject, EndSweep, EndPurge, WriteManifest, Die
  <2> QED
    BY <1>1, <2>1
<1>6. ASSUME NEW s \in Session, Put(s) PROVE Commanded'
  <2>1. PICK o \in Object : live[o] # None /\ op' = [Command(s, "put", "archive", o) EXCEPT !.body = <<o, writes + 1>>]
    BY <1>6 DEF Put
  <2>2. PICK c : c = Command(s, "put", "archive", o)
    OBVIOUS
  <2>3. Shape(c) /\ c.by = s /\ c.task = "put" /\ c.step = "archive" /\ c.o = o /\ c.doom = {}
    BY <2>2, CommandStarts
  <2>4. op' = [c EXCEPT !.body = <<o, writes + 1>>]
    BY <2>1, <2>2
  <2>5. /\ Shape(op') /\ op'.by = s /\ op'.task = "put" /\ op'.step = "archive" /\ op'.o = o
        /\ op'.doom = {} /\ op'.body = <<o, writes + 1>>
    BY <2>3, <2>4 DEF Shape
  <2>6. live' = live /\ <<o, writes + 1>> \in TextOf(o)
    BY <1>0, <1>6 DEF Put, objects, Stock, TextOf
  <2> QED
    BY <2>1, <2>5, <2>6 DEF Commanded, Steps
<1>7. ASSUME NEW s \in Session, PutRead(s) PROVE Commanded'
  <2>1. live' = live
    BY <1>7 DEF PutRead, objects
  <2>2. CASE op' = op
    BY <1>2, <2>1, <2>2
  <2>3. CASE op' # op
    <3> DEFINE seen == reading[s]
               step == IF live[seen.o] = None THEN "prune" ELSE "archive"
    <3>1. seen # None /\ op' = [Command(s, "put", step, seen.o) EXCEPT !.body = seen.body]
      BY <1>7, <2>3 DEF PutRead
    <3>2. Read(seen)
      BY <1>0, <3>1 DEF Readings
    <3>3. step \in {"prune", "archive"} /\ (step = "archive" => live[seen.o] # None)
      OBVIOUS
    <3> HIDE DEF step, seen
    <3>4. PICK c : c = Command(s, "put", step, seen.o)
      OBVIOUS
    <3>5. Shape(c) /\ c.by = s /\ c.task = "put" /\ c.step = step /\ c.o = seen.o /\ c.doom = {}
      BY <3>4, CommandStarts
    <3>6. op' = [c EXCEPT !.body = seen.body]
      BY <3>1, <3>4
    <3>7. /\ Shape(op') /\ op'.by = s /\ op'.task = "put" /\ op'.step = step /\ op'.o = seen.o
          /\ op'.doom = {} /\ op'.body = seen.body
      BY <3>5, <3>6 DEF Shape
    <3> QED
      BY <2>1, <3>2, <3>3, <3>7 DEF Commanded, Steps, Read
  <2> QED
    BY <2>2, <2>3
<1>8. ASSUME NEW s \in Session, Remove(s) PROVE Commanded'
  <2>1. PICK o \in Object : live[o] # None /\ op' = Command(s, "remove", "archive", o)
    BY <1>8 DEF Remove
  <2>2. Shape(op') /\ op'.by = s /\ op'.task = "remove" /\ op'.step = "archive" /\ op'.o = o /\ op'.doom = {}
    BY <2>1 DEF Command, Shape
  <2>3. live' = live
    BY <1>8 DEF Remove, objects
  <2> QED
    BY <2>1, <2>2, <2>3 DEF Commanded, Steps
<1>9. ASSUME NEW s \in Session, SetRetentionPolicy(s) \/ SweepRetention(s) PROVE Commanded'
  <2>1. PICK p : op' = [Command(s, "sweep", "prune", None) EXCEPT !.doom = AllDoomed(p)]
    BY <1>9 DEF SetRetentionPolicy, SweepRetention
  <2>2. PICK c : c = Command(s, "sweep", "prune", None)
    OBVIOUS
  <2>3. Shape(c) /\ c.by = s /\ c.task = "sweep" /\ c.step = "prune"
    BY <2>2, CommandStarts
  <2>4. op' = [c EXCEPT !.doom = AllDoomed(p)]
    BY <2>1, <2>2
  <2>5. Shape(op') /\ op'.by = s /\ op'.task = "sweep" /\ op'.step = "prune" /\ op'.doom = AllDoomed(p)
    BY <2>3, <2>4 DEF Shape
  <2>6. AllDoomed(p) \subseteq Object \X Nat
    BY <1>0, DoomedFacts
  <2> QED
    BY <2>5, <2>6 DEF Commanded, Steps
<1>10. ASSUME NEW s \in Session, ApplyRetention(s) PROVE Commanded'
  <2>1. PICK d \in op.doom : op' = [op EXCEPT !.doom = @ \ {d}]
    BY <1>10 DEF ApplyRetention
  <2>2. op # None /\ op.step = "prune" /\ live' = live
    BY <1>10 DEF ApplyRetention
  <2>3. /\ Shape(op') /\ op'.by = op.by /\ op'.task = op.task /\ op'.step = op.step /\ op'.o = op.o
        /\ op'.doom = op.doom \ {d} /\ op'.body = op.body
    BY <1>0, <2>1, <2>2, CommandFacts DEF Shape
  <2> QED
    BY <1>0, <2>2, <2>3 DEF Commanded
<1>11. ASSUME NEW s \in Session, ArchiveRevision(s) PROVE Commanded'
  <2>1. op # None /\ op.step = "archive" /\ live' = live
    BY <1>11 DEF ArchiveRevision
  <2>2. /\ op.task \in {"put", "remove"} /\ op.o \in Object /\ live[op.o] # None /\ Shape(op) /\ op.by \in Session
        /\ op.doom = {}
        /\ op.task = "put" => op.body \in TextOf(op.o)
    BY <1>0, <2>1, CommandFacts
  <2> DEFINE h == Filed(history[op.o], live[op.o])
             doom == {op.o} \X Doomed(op.o, h, RetentionPolicy(s))
  <2>3. op' = [op EXCEPT !.step = "prune"] \/ op' = [op EXCEPT !.step = "prune", !.doom = doom]
    BY <1>11 DEF ArchiveRevision
  <2>4. doom \subseteq Object \X Nat
    <3>1. DOMAIN h = DOMAIN history[op.o] \cup {live[op.o].rev}
      BY DEF Filed
    <3>2. live[op.o].rev \in Nat /\ DOMAIN history[op.o] \subseteq Nat
      BY <1>0, <2>2, LatestFacts DEF Archived
    <3>3. DOMAIN h \subseteq Nat
      BY <3>1, <3>2
    <3> HIDE DEF h
    <3> QED
      BY <1>0, <2>2, <3>3, DoomedFacts
  <2> HIDE DEF doom
  <2>5. /\ Shape(op') /\ op'.by = op.by /\ op'.task = op.task /\ op'.step = "prune" /\ op'.o = op.o
        /\ op'.doom \in {{}, doom} /\ op'.body = op.body
    BY <2>2, <2>3 DEF Shape
  <2> QED
    BY <2>1, <2>2, <2>4, <2>5 DEF Commanded, Steps
<1>12. ASSUME NEW s \in Session, Purge(s) PROVE Commanded'
  <2>1. PICK o \in Object : op' = Command(s, "purge", "clear", o) /\ live' = [live EXCEPT ![o] = None]
    BY <1>12 DEF Purge
  <2>2. Shape(op') /\ op'.by = s /\ op'.task = "purge" /\ op'.step = "clear" /\ op'.o = o /\ op'.doom = {}
    BY <2>1 DEF Command, Shape
  <2>3. live'[o] = None
    BY <1>0, <2>1
  <2> QED
    BY <2>2, <2>3 DEF Commanded, Steps
<1>13. ASSUME NEW s \in Session, PutAttachment(s) PROVE Commanded'
  <2>1. live' = live
    BY <1>13 DEF PutAttachment, objects
  <2>2. CASE op' = op
    BY <1>2, <2>1, <2>2
  <2>3. CASE op' # op
    <3>1. op' = [Command(s, "attach", "chunk", None) EXCEPT !.body = 1]
      BY <1>13, <2>3 DEF PutAttachment
    <3>2. PICK c : c = Command(s, "attach", "chunk", None)
      OBVIOUS
    <3>3. Shape(c) /\ c.by = s /\ c.task = "attach" /\ c.step = "chunk" /\ c.doom = {}
      BY <3>2, CommandStarts
    <3>4. op' = [c EXCEPT !.body = 1]
      BY <3>1, <3>2
    <3>5. Shape(op') /\ op'.by = s /\ op'.task = "attach" /\ op'.step = "chunk" /\ op'.doom = {} /\ op'.body = 1
      BY <3>3, <3>4 DEF Shape
    <3> QED
      BY <3>5 DEF Commanded, Steps, ObjectLifecycleConstantsOK
  <2> QED
    BY <2>2, <2>3
<1>14. ASSUME NEW s \in Session, WriteChunk(s) PROVE Commanded'
  <2>1. op # None /\ op.task = "attach" /\ op.body <= Parts /\ op' = [op EXCEPT !.body = @ + 1]
    BY <1>14 DEF WriteChunk, Holds
  <2>2. Shape(op) /\ op.body \in 1..(Parts + 1)
    BY <1>0, <2>1 DEF Commanded
  <2>3. /\ Shape(op') /\ op'.by = op.by /\ op'.task = op.task /\ op'.step = op.step /\ op'.o = op.o
        /\ op'.doom = op.doom /\ op'.body = op.body + 1
    BY <2>1, <2>2 DEF Shape
  <2>4. op'.body \in 1..(Parts + 1)
    BY <2>1, <2>2, <2>3 DEF ObjectLifecycleConstantsOK
  <2>5. op.step = "chunk"
    BY <1>0, <2>1, CommandFacts
  <2> QED
    BY <1>0, <2>1, <2>3, <2>4, <2>5 DEF Commanded
<1>15. ASSUME NEW s \in Session, RemoveAttachment(s) PROVE Commanded'
  <2>1. op' = Command(s, "detach", "tree", None)
    BY <1>15 DEF RemoveAttachment
  <2>2. Shape(op') /\ op'.by = s /\ op'.task = "detach" /\ op'.step = "tree" /\ op'.doom = {}
    BY <2>1 DEF Command, Shape
  <2> QED
    BY <2>2 DEF Commanded, Steps
<1>16. ASSUME NEW s \in Session, RemoveTree(s) PROVE Commanded'
  <2>1. (op' = None \/ op' = op) /\ live' = live
    BY <1>16 DEF RemoveTree, objects
  <2> QED
    BY <1>1, <1>2, <2>1
<1> QED
  BY <1>3, <1>4, <1>5, <1>6, <1>7, <1>8, <1>9, <1>10, <1>11, <1>12, <1>13, <1>14, <1>15, <1>16
  DEF Next, Editing, Retaining, Purging, Attaching

LEMMA TypesInit ==
  ASSUME ObjectLifecycleConstantsOK, Init
  PROVE  LifeTypes
<1>1. Stock
  <2>1. ASSUME NEW o \in Object PROVE Aging(live[o], history[o], o, writes)
    <3>1. live[o] = [rev |-> 1, body |-> <<o, 0>>] /\ history[o] = << >> /\ writes = 0
      BY DEF Init
    <3>2. live[o] \in Revision(o, 0)
      BY <3>1 DEF Revision, TextOf
    <3>3. DOMAIN history[o] = {} /\ history[o] = [r \in DOMAIN history[o] |-> history[o][r]]
      BY <3>1
    <3> QED
      BY <3>1, <3>2, <3>3 DEF Aging
  <2> QED
    BY <2>1 DEF Init, Stock
<1>2. Policies /\ Chunks /\ Readings /\ Commanded
  BY DEF Init, Policies, Chunks, Readings, Commanded, ObjectLifecycleConstantsOK
<1> QED
  BY <1>1, <1>2 DEF LifeTypes

LEMMA TypesStep ==
  ASSUME ObjectLifecycleConstantsOK, LifeTypes, [Next]_vars
  PROVE  LifeTypes'
BY StockStep, PoliciesStep, ChunksStep, ReadingsStep, CommandedStep DEF LifeTypes

\* Whatever overlaps, what is stored, read and done keeps its shape: an archive holds revisions
\* the object had, none newer than its own, and the one of that number has its text
\* (archiveRevision, putIntoIndex, nextRevision).
THEOREM LifecycleTypeSafety ==
  ASSUME ObjectLifecycleConstantsOK
  PROVE  Spec => []LifeTypes
<1>1. Init => LifeTypes
  BY TypesInit
<1>2. LifeTypes /\ [Next]_vars => LifeTypes'
  BY TypesStep
<1> QED
  BY <1>1, <1>2, PTL DEF Spec
-----------------------------------------------------------------------------
(* A purged object stays gone. *)

\* What a command in the lock was started for.
LEMMA GoneStarts ==
  ASSUME ObjectLifecycleConstantsOK, "restore" \notin Overlap, "rename" \notin Overlap, PurgeInv, [Next]_vars,
         op' # None, op'.task \in {"put", "remove"}
  PROVE  op'.o \notin purged
<1>0. LifeTypes /\ Gone /\ Stock /\ Commanded
  BY DEF PurgeInv, LifeTypes
<1>1. ASSUME op # None, op'.task = op.task, op'.o = op.o PROVE op'.o \notin purged
  BY <1>0, <1>1 DEF Gone
<1>2. CASE UNCHANGED vars \/ TimePasses
  BY <1>1, <1>2 DEF vars, TimePasses
<1>3. ASSUME NEW s \in Session,
             \/ Rename(s) \/ Restore(s) \/ RestoreBase(s) \/ RemoveHistory(s) \/ Close(s) \/ RemoveTree(s)
      PROVE  op'.o \notin purged
  <2>1. op' = op
    BY <1>3 DEF Rename, Restore, RestoreBase, RemoveHistory, Close, RemoveTree
  <2> QED
    BY <1>1, <2>1
<1>4. ASSUME NEW s \in Session, ApplyRetention(s) \/ ArchiveRevision(s) \/ WriteChunk(s) PROVE op'.o \notin purged
  <2>1. op # None /\ Shape(op)
    BY <1>0, <1>4, CommandFacts DEF ApplyRetention, ArchiveRevision, WriteChunk, Holds
  <2>2. \/ \E x : op' = [op EXCEPT !.doom = x]
        \/ op' = [op EXCEPT !.step = "prune"]
        \/ \E x : op' = [op EXCEPT !.step = "prune", !.doom = x]
        \/ \E x : op' = [op EXCEPT !.body = x]
    BY <1>4 DEF ApplyRetention, ArchiveRevision, WriteChunk
  <2>3. op'.task = op.task /\ op'.o = op.o
    BY <2>1, <2>2 DEF Shape
  <2> QED
    BY <1>1, <2>1, <2>3
<1>5. ASSUME NEW s \in Session,
             \/ WriteObject(s) \/ RemoveObject(s) \/ EndSweep(s) \/ EndPurge(s) \/ WriteManifest(s) \/ Die(s)
      PROVE  FALSE
  BY <1>5 DEF WriteObject, RemoveObject, EndSweep, EndPurge, WriteManifest, Die
<1>6. ASSUME NEW s \in Session, Put(s) \/ Remove(s) PROVE op'.o \notin purged
  <2>1. PICK o \in Object : /\ live[o] # None
                            /\ \E task : \/ op' = Command(s, task, "archive", o)
                                         \/ \E x : op' = [Command(s, task, "archive", o) EXCEPT !.body = x]
    BY <1>6 DEF Put, Remove
  <2>2. op'.o = o
    BY <2>1 DEF Command
  <2> QED
    BY <1>0, <2>1, <2>2 DEF Gone
<1>7. ASSUME NEW s \in Session, PutRead(s) PROVE op'.o \notin purged
  <2>1. CASE op' = op
    BY <1>1, <2>1
  <2>2. CASE op' # op
    <3> DEFINE seen == reading[s]
    <3>1. seen # None /\ seen.base # None
      BY <1>7 DEF PutRead
    <3>2. /\ ~RevisionConflict(seen)
          /\ Unless("rename", seen.checked \/ seen.base = LatestRevision(seen.o))
          /\ \E step : op' = [Command(s, "put", step, seen.o) EXCEPT !.body = seen.body]
      BY <1>7, <2>2 DEF PutRead
    <3>3. seen.base # 0 /\ seen.o \in Object
      BY <1>0, <3>1 DEF Gone, LifeTypes, Readings, Read
    <3>4. seen.base = LatestRevision(seen.o)
      BY <3>2 DEF RevisionConflict, Unless
    <3>5. seen.o \notin purged
      BY <1>0, <3>3, <3>4, LatestFacts DEF Gone
    <3>6. op'.o = seen.o
      BY <3>2 DEF Command
    <3> QED
      BY <3>5, <3>6
  <2> QED
    BY <2>1, <2>2
<1>8. ASSUME NEW s \in Session,
             SetRetentionPolicy(s) \/ SweepRetention(s) \/ Purge(s) \/ PutAttachment(s) \/ RemoveAttachment(s)
      PROVE  op'.o \notin purged
  <2>1. op' = op \/ op'.task \in {"sweep", "purge", "attach", "detach"}
    <3>1. ASSUME NEW x, op' = [Command(s, "sweep", "prune", None) EXCEPT !.doom = x] PROVE op'.task = "sweep"
      BY <3>1 DEF Command
    <3>2. CASE SetRetentionPolicy(s)
      <4>1. PICK x : op' = [Command(s, "sweep", "prune", None) EXCEPT !.doom = x]
        BY <3>2 DEF SetRetentionPolicy
      <4> QED
        BY <3>1, <4>1
    <3>3. CASE SweepRetention(s)
      <4>1. PICK x : op' = [Command(s, "sweep", "prune", None) EXCEPT !.doom = x]
        BY <3>3 DEF SweepRetention
      <4> QED
        BY <3>1, <4>1
    <3>4. CASE Purge(s)
      <4>1. PICK o \in Object : op' = Command(s, "purge", "clear", o)
        BY <3>4 DEF Purge
      <4> QED
        BY <4>1 DEF Command
    <3>5. CASE PutAttachment(s)
      <4>1. op' = op \/ op' = [Command(s, "attach", "chunk", None) EXCEPT !.body = 1]
        BY <3>5 DEF PutAttachment
      <4> QED
        BY <4>1 DEF Command
    <3>6. CASE RemoveAttachment(s)
      <4>1. op' = Command(s, "detach", "tree", None)
        BY <3>6 DEF RemoveAttachment
      <4> QED
        BY <4>1 DEF Command
    <3> QED
      BY <1>8, <3>2, <3>3, <3>4, <3>5, <3>6
  <2> QED
    BY <1>1, <2>1
<1> QED
  BY <1>2, <1>3, <1>4, <1>5, <1>6, <1>7, <1>8 DEF Next, Editing, Retaining, Purging, Attaching

\* No step writes or archives an object that was purged.
LEMMA GoneObjects ==
  ASSUME ObjectLifecycleConstantsOK, PurgeInv, [Next]_vars, NEW o \in purged
  PROVE  o \in Object /\ live'[o] = None /\ Archived(o)' = {}
<1>0. /\ Gone /\ Commanded /\ live = [q \in Object |-> live[q]] /\ history = [q \in Object |-> history[q]]
      /\ o \in Object /\ live[o] = None /\ DOMAIN history[o] = {}
  BY DEF PurgeInv, LifeTypes, Stock, Gone, Archived
<1>1. ASSUME UNCHANGED <<live, history>> PROVE live'[o] = None /\ Archived(o)' = {}
  BY <1>0, <1>1 DEF Archived
<1>2. CASE UNCHANGED vars \/ TimePasses
  BY <1>0, <1>1, <1>2 DEF vars, objects, TimePasses
<1>3. ASSUME NEW s \in Session,
             \/ Put(s) \/ Rename(s) \/ Restore(s) \/ RestoreBase(s) \/ PutRead(s) \/ Remove(s)
             \/ SetRetentionPolicy(s) \/ SweepRetention(s) \/ EndSweep(s) \/ EndPurge(s)
             \/ Attaching(s) \/ Close(s) \/ Die(s)
      PROVE  live'[o] = None /\ Archived(o)' = {}
  <2>1. UNCHANGED <<live, history>>
    BY <1>3 DEF Put, Rename, Restore, RestoreBase, PutRead, Remove, SetRetentionPolicy, SweepRetention,
      EndSweep, EndPurge, Attaching, PutAttachment, WriteChunk, WriteManifest, RemoveAttachment, RemoveTree,
      Close, Die, objects
  <2> QED
    BY <1>1, <2>1
<1>4. ASSUME NEW s \in Session, ApplyRetention(s) \/ RemoveHistory(s) PROVE live'[o] = None /\ Archived(o)' = {}
  <2>1. PICK q, r : history' = [history EXCEPT ![q] = Restrict(@, Archived(q) \ {r})]
    BY <1>4 DEF ApplyRetention, RemoveHistory
  <2>2. live' = live
    BY <1>4 DEF ApplyRetention, RemoveHistory
  <2>3. history'[o] = history[o] \/ (o = q /\ history'[o] = Restrict(history[o], Archived(o) \ {r}))
    BY <1>0, <2>1
  <2>4. DOMAIN history'[o] = {}
    BY <1>0, <2>3 DEF Archived, Restrict
  <2> QED
    BY <1>0, <2>2, <2>4 DEF Archived
<1>5. ASSUME NEW s \in Session, ArchiveRevision(s) PROVE live'[o] = None /\ Archived(o)' = {}
  <2>1. op # None /\ op.task \in {"put", "remove"}
    BY <1>0, <1>5, CommandFacts DEF ArchiveRevision
  <2>2. o # op.o
    BY <1>0, <2>1 DEF Gone
  <2>3. live' = live /\ history'[o] = history[o]
    BY <1>0, <1>5, <2>2 DEF ArchiveRevision
  <2> QED
    BY <1>0, <2>3 DEF Archived
<1>6. ASSUME NEW s \in Session, WriteObject(s) PROVE live'[o] = None /\ Archived(o)' = {}
  <2>1. op # None /\ op.task = "put"
    BY <1>6 DEF WriteObject, Holds
  <2>2. o # op.o
    BY <1>0, <2>1 DEF Gone
  <2>3. history' = history /\ live'[o] = live[o]
    BY <1>0, <1>6, <2>2 DEF WriteObject
  <2> QED
    BY <1>0, <2>3 DEF Archived
<1>7. ASSUME NEW s \in Session, RemoveObject(s) \/ Purge(s) PROVE live'[o] = None /\ Archived(o)' = {}
  <2>1. PICK q : live' = [live EXCEPT ![q] = None] /\ history' = history
    BY <1>7 DEF RemoveObject, Purge
  <2> QED
    BY <1>0, <2>1 DEF Archived
<1> QED
  BY <1>0, <1>2, <1>3, <1>4, <1>5, <1>6, <1>7 DEF Next, Editing, Retaining, Purging

\* No restore or rename holds revision zero, the number of an object that was purged.
LEMMA GoneReads ==
  ASSUME ObjectLifecycleConstantsOK, "restore" \notin Overlap, PurgeInv, [Next]_vars,
         NEW s \in Session, reading'[s] # None
  PROVE  reading'[s].base # 0
<1>0. /\ Gone /\ Stock /\ Readings /\ reading = [t \in Session |-> reading[t]]
      /\ \A t \in Session : reading[t] # None => Read(reading[t]) /\ reading[t].base # 0
  BY DEF PurgeInv, LifeTypes, Gone, Readings
<1>1. ASSUME NEW t \in Session, NEW seen, reading' = [reading EXCEPT ![t] = seen], seen = None \/ seen.base # 0
      PROVE  reading'[s].base # 0
  <2>1. reading'[s] = reading[s] \/ reading'[s] = seen
    BY <1>0, <1>1
  <2> QED
    BY <1>0, <1>1, <2>1
<1>2. ASSUME UNCHANGED reading PROVE reading'[s].base # 0
  BY <1>0, <1>2
<1>3. CASE UNCHANGED vars \/ TimePasses
  BY <1>2, <1>3 DEF vars, TimePasses
<1>4. ASSUME NEW t \in Session,
             \/ Put(t) \/ ArchiveRevision(t) \/ Remove(t) \/ RemoveObject(t) \/ Retaining(t) \/ Purging(t)
             \/ Attaching(t)
      PROVE  reading'[s].base # 0
  <2>1. UNCHANGED reading
    BY <1>4 DEF Put, ArchiveRevision, Remove, RemoveObject, Retaining, SetRetentionPolicy, SweepRetention,
      ApplyRetention, EndSweep, Purging, Purge, RemoveHistory, EndPurge, Attaching, PutAttachment, WriteChunk,
      WriteManifest, RemoveAttachment, RemoveTree
  <2> QED
    BY <1>2, <2>1
<1>5. ASSUME NEW t \in Session, PutRead(t) \/ WriteObject(t) \/ Close(t) \/ Die(t) PROVE reading'[s].base # 0
  <2>1. reading' = reading \/ reading' = [reading EXCEPT ![t] = None]
    BY <1>5 DEF PutRead, WriteObject, Close, Die, Forget
  <2> QED
    BY <1>1, <1>2, <2>1
<1>6. ASSUME NEW t \in Session, Rename(t) PROVE reading'[s].base # 0
  <2>1. PICK o \in Object : live[o] # None /\ reading' = [reading EXCEPT ![t] =
            [o |-> o, body |-> live[o].body, base |-> live[o].rev, checked |-> o \in CanvasId]]
    BY <1>6 DEF Rename
  <2>2. live[o].rev # 0
    BY <1>0, <2>1, LatestFacts
  <2> QED
    BY <1>1, <2>1, <2>2
<1>7. ASSUME NEW t \in Session, Restore(t) PROVE reading'[s].base # 0
  <2>1. PICK o, body :
          reading' = [reading EXCEPT ![t] = [o |-> o, body |-> body, base |-> None, checked |-> TRUE]]
    BY <1>7 DEF Restore
  <2>2. None # 0
    BY DEF ObjectLifecycleConstantsOK
  <2> QED
    BY <1>1, <2>1, <2>2
<1>8. ASSUME NEW t \in Session, RestoreBase(t) PROVE reading'[s].base # 0
  <2>1. /\ reading[t] # None /\ reading' = [reading EXCEPT ![t].base = LatestRevision(reading[t].o)]
        /\ LatestRevision(reading[t].o) > 0
    BY <1>8 DEF RestoreBase, Unless
  <2>2. reading[t].o \in Object
    BY <1>0, <2>1 DEF Read
  <2>3. LatestRevision(reading[t].o) # 0
    BY <1>0, <2>1, <2>2, LatestFacts
  <2> QED
    BY <1>0, <2>1, <2>3
<1>9. ASSUME NEW t \in Session, Editing(t) PROVE reading'[s].base # 0
  BY <1>4, <1>5, <1>6, <1>7, <1>8, <1>9 DEF Editing
<1> QED
  BY <1>3, <1>4, <1>5, <1>9 DEF Next

LEMMA PurgeStep ==
  ASSUME ObjectLifecycleConstantsOK, "restore" \notin Overlap, "rename" \notin Overlap, PurgeInv, [Next]_vars
  PROVE  PurgeInv'
<1>0. LifeTypes' /\ Gone /\ Commanded
  BY TypesStep DEF PurgeInv, LifeTypes
<1>1. purged' = purged \/ \E s \in Session : EndPurge(s)
  <2>1. ASSUME NEW s \in Session, Editing(s) PROVE UNCHANGED purged
    BY <2>1 DEF Editing, Put, Rename, Restore, RestoreBase, PutRead, ArchiveRevision, WriteObject, Remove,
                RemoveObject
  <2>2. ASSUME NEW s \in Session, Retaining(s) PROVE UNCHANGED purged
    BY <2>2 DEF Retaining, SetRetentionPolicy, SweepRetention, ApplyRetention, EndSweep
  <2>3. ASSUME NEW s \in Session, Purging(s) PROVE purged' = purged \/ EndPurge(s)
    BY <2>3 DEF Purging, Purge, RemoveHistory
  <2>4. ASSUME NEW s \in Session, Attaching(s) \/ Close(s) \/ Die(s) PROVE UNCHANGED purged
    BY <2>4 DEF Attaching, PutAttachment, WriteChunk, WriteManifest, RemoveAttachment, RemoveTree, Close, Die
  <2>5. TimePasses \/ UNCHANGED vars => UNCHANGED purged
    BY DEF TimePasses, vars
  <2> QED
    BY <2>1, <2>2, <2>3, <2>4, <2>5 DEF Next
<1>2. ASSUME NEW o \in purged' PROVE o \in Object /\ live'[o] = None /\ Archived(o)' = {}
  <2>1. CASE o \in purged
    BY <2>1, GoneObjects
  <2>2. CASE o \notin purged
    <3>1. PICK s \in Session : EndPurge(s)
      BY <1>1, <2>2
    <3>2. o = op.o /\ op # None /\ op.task = "purge" /\ Archived(o) = {} /\ UNCHANGED <<live, history>>
      BY <2>2, <3>1 DEF EndPurge, Holds, objects
    <3> QED
      BY <1>0, <3>2, CommandFacts DEF Archived
  <2> QED
    BY <2>1, <2>2
<1>3. op' # None /\ op'.task \in {"put", "remove"} => op'.o \notin purged'
  <2>1. CASE purged' = purged
    BY <2>1, GoneStarts
  <2>2. ASSUME NEW s \in Session, EndPurge(s) PROVE op' = None
    BY <2>2 DEF EndPurge
  <2> QED
    BY <1>1, <2>1, <2>2
<1>4. Gone'
  BY <1>2, <1>3, GoneReads DEF Gone
<1> QED
  BY <1>0, <1>4 DEF PurgeInv

LEMMA PurgeInvariance ==
  ASSUME ObjectLifecycleConstantsOK, "restore" \notin Overlap, "rename" \notin Overlap
  PROVE  Spec => []PurgeInv
<1>1. Init => PurgeInv
  BY TypesInit DEF Init, PurgeInv, Gone
<1>2. PurgeInv /\ [Next]_vars => PurgeInv'
  BY PurgeStep
<1> QED
  BY <1>1, <1>2, PTL DEF Spec

\* An object whose purge has ended stays gone, through every restore, rename, removal and death
\* whose overlap with a purge the code does not leave open (purgeNote, purgeCanvas, putIntoIndex).
THEOREM LifecyclePurgedStaysGone ==
  ASSUME ObjectLifecycleConstantsOK, "restore" \notin Overlap, "rename" \notin Overlap
  PROVE  Spec => []PurgedStaysGone
<1>1. PurgeInv => PurgedStaysGone
  BY DEF PurgeInv, Gone, PurgedStaysGone
<1> QED
  BY <1>1, PurgeInvariance, PTL
-----------------------------------------------------------------------------
(* No text is lost. *)

LEMMA CachedStep ==
  ASSUME ObjectLifecycleConstantsOK, "stale_policy" \notin Overlap, LifeTypes, Cached, [Next]_vars
  PROVE  Cached'
<1>0. cache \in [Session -> Policy \cup {Unread}] /\ \A s \in Session : cache[s] \in {Unread, Unlimited, policy}
  BY DEF LifeTypes, Policies, Cached
<1>1. ASSUME UNCHANGED <<policy, cache>> PROVE Cached'
  BY <1>0, <1>1 DEF Cached
<1>2. CASE UNCHANGED vars \/ TimePasses
  BY <1>1, <1>2 DEF vars, retention, TimePasses
<1>3. ASSUME NEW s \in Session, SetRetentionPolicy(s) PROVE Cached'
  <2>1. PICK p \in Policy \ {policy} :
          /\ \A t \in Session \ {s} : cache[t] \in {Unread, Unlimited, p}
          /\ policy' = p /\ cache' = [cache EXCEPT ![s] = p]
    BY <1>3 DEF SetRetentionPolicy, Unless
  <2> QED
    BY <1>0, <2>1 DEF Cached
<1>4. ASSUME NEW s \in Session, SweepRetention(s) \/ ArchiveRevision(s) PROVE Cached'
  <2>1. policy' = policy /\ (cache' = cache \/ cache' = [cache EXCEPT ![s] = RetentionPolicy(s)])
    BY <1>4 DEF SweepRetention, ArchiveRevision
  <2>2. RetentionPolicy(s) \in {Unlimited, policy}
    BY <1>0 DEF RetentionPolicy
  <2> QED
    BY <1>0, <2>1, <2>2 DEF Cached
<1>5. ASSUME NEW s \in Session, Close(s) \/ Die(s) PROVE Cached'
  BY <1>0, <1>5 DEF Close, Die, Forget, Cached
<1>6. ASSUME NEW s \in Session,
             \/ Put(s) \/ Rename(s) \/ Restore(s) \/ RestoreBase(s) \/ PutRead(s) \/ WriteObject(s)
             \/ Remove(s) \/ RemoveObject(s) \/ ApplyRetention(s) \/ EndSweep(s) \/ Purging(s) \/ Attaching(s)
      PROVE  Cached'
  <2>1. UNCHANGED retention
    BY <1>6 DEF Put, Rename, Restore, RestoreBase, PutRead, WriteObject, Remove, RemoveObject, ApplyRetention,
      EndSweep, Purging, Purge, RemoveHistory, EndPurge, Attaching, PutAttachment, WriteChunk, WriteManifest,
      RemoveAttachment, RemoveTree
  <2> QED
    BY <1>1, <2>1 DEF retention
<1> QED
  BY <1>2, <1>3, <1>4, <1>5, <1>6 DEF Next, Editing, Retaining

\* The number of revisions after one of a finite set, from the number before it.
LEMMA AfterAndBefore ==
  ASSUME NEW n \in Nat, NEW T \in SUBSET (1..n), NEW r \in T
  PROVE  /\ Cardinality({q \in T : q < r}) \in Nat /\ Cardinality({q \in T : q > r}) \in Nat
         /\ Cardinality(T) = Cardinality({q \in T : q < r}) + 1 + Cardinality({q \in T : q > r})
<1> DEFINE before == {q \in T : q < r}
           after == {q \in T : q > r}
<1>1. IsFiniteSet(T)
  <2>1. IsFiniteSet(1..n)
    BY FS_Interval
  <2> QED
    BY <2>1, FS_Subset
<1>2. IsFiniteSet(before) /\ IsFiniteSet(after)
  <2>1. before \in SUBSET T /\ after \in SUBSET T
    OBVIOUS
  <2> QED
    BY <1>1, <2>1, FS_Subset
<1>3. r \notin before /\ (before \cup {r}) \cap after = {} /\ (before \cup {r}) \cup after = T
  <2>1. \A q \in T : q \in Nat /\ (q < r \/ q = r \/ q > r) /\ ~(q < r /\ q > r)
    OBVIOUS
  <2>2. \A q : q \in before <=> q \in T /\ q < r
    OBVIOUS
  <2>3. \A q : q \in after <=> q \in T /\ q > r
    OBVIOUS
  <2>4. r \notin before /\ r \notin after
    BY <2>1, <2>2, <2>3
  <2> HIDE DEF before, after
  <2> QED
    BY <2>1, <2>2, <2>3, <2>4
<1> HIDE DEF before, after
<1>4. Cardinality(before) \in Nat /\ Cardinality(after) \in Nat
  BY <1>2, FS_CardinalityType
<1>5. IsFiniteSet(before \cup {r}) /\ Cardinality(before \cup {r}) = Cardinality(before) + 1
  BY <1>2, <1>3, FS_AddElement
<1>6. Cardinality((before \cup {r}) \cup after)
        = Cardinality(before \cup {r}) + Cardinality(after) - Cardinality((before \cup {r}) \cap after)
  BY <1>2, <1>5, FS_Union
<1>7. Cardinality({}) = 0
  BY FS_EmptySet
<1>8. Cardinality((before \cup {r}) \cap after) = 0 /\ Cardinality((before \cup {r}) \cup after) = Cardinality(T)
  BY <1>3, <1>7
<1>9. Cardinality(T) = Cardinality(before) + 1 + Cardinality(after)
  <2> DEFINE most == Cardinality(before \cup {r})
  <2>1. most = Cardinality(before) + 1 /\ Cardinality(T) = most + Cardinality(after) - 0
    BY <1>5, <1>6, <1>8
  <2> HIDE DEF most
  <2> QED
    BY <1>4, <2>1
<1> QED
  BY <1>4, <1>9 DEF before, after

LEMMA MayDropLets ==
  ASSUME NEW o, NEW r
  PROVE  MayDrop(o, r) <=> Lets(policy, DOMAIN history[o], aged[o], r)
BY DEF MayDrop, Lets, Archived

LEMMA DoomedLets ==
  ASSUME ObjectLifecycleConstantsOK, NEW p \in Policy, NEW n \in Nat, NEW o, NEW h, DOMAIN h \in SUBSET (1..n),
         NEW r \in Doomed(o, h, p)
  PROVE  p # Unlimited /\ r \in DOMAIN h /\ Lets(p, DOMAIN h, aged[o], r)
<1>0. /\ r \in DOMAIN h
      /\ \/ p.keep # None /\ Cardinality(DOMAIN h) > p.keep
            /\ Cardinality({q \in DOMAIN h : q < r}) < Cardinality(DOMAIN h) - p.keep
         \/ p.days /\ r <= aged[o]
  BY DEF Doomed
<1>1. p # Unlimited
  BY <1>0 DEF Unlimited
<1>2. p.keep # None => p.keep \in Nat
  BY DEF ObjectLifecycleConstantsOK
<1> DEFINE before == Cardinality({q \in DOMAIN h : q < r})
           after == Cardinality({q \in DOMAIN h : q > r})
<1>3. before \in Nat /\ after \in Nat /\ Cardinality(DOMAIN h) = before + 1 + after
  <2>1. DOMAIN h \in SUBSET (1..n) /\ r \in DOMAIN h
    BY <1>0
  <2> QED
    BY <2>1, AfterAndBefore
<1>4. CASE p.keep # None /\ before < Cardinality(DOMAIN h) - p.keep
  <2> HIDE DEF before, after
  <2>1. after >= p.keep
    BY <1>2, <1>3, <1>4
  <2> QED
    BY <1>0, <1>1, <1>4, <2>1 DEF Lets, after
<1>5. CASE p.days /\ r <= aged[o]
  BY <1>0, <1>1, <1>5 DEF Lets
<1> QED
  BY <1>0, <1>4, <1>5

\* The policy a session prunes by is the stored one, or drops nothing.
LEMMA SessionLets ==
  ASSUME ObjectLifecycleConstantsOK, LifeTypes, Cached, NEW s \in Session, NEW n \in Nat, NEW o, NEW h,
         DOMAIN h \in SUBSET (1..n), NEW r \in Doomed(o, h, RetentionPolicy(s))
  PROVE  r \in DOMAIN h /\ Lets(policy, DOMAIN h, aged[o], r)
<1>1. RetentionPolicy(s) \in {Unlimited, policy} /\ RetentionPolicy(s) \in Policy
  BY PolicyFacts DEF LifeTypes, Cached, RetentionPolicy
<1>2. PICK p \in Policy : p = RetentionPolicy(s)
  BY <1>1
<1>3. p # Unlimited /\ r \in DOMAIN h /\ Lets(p, DOMAIN h, aged[o], r)
  BY <1>2, DoomedLets
<1> QED
  BY <1>1, <1>2, <1>3

\* An age stays reached, and a revision that goes before others leaves those their newer ones.
LEMMA LetsStays ==
  ASSUME NEW p, NEW T \in SUBSET Nat, NEW a \in Nat, NEW b \in Nat, a <= b, NEW r \in T, NEW q \in T, q < r,
         Lets(p, T, a, r)
  PROVE  Lets(p, T, b, r) /\ Lets(p, T \ {q}, a, r)
<1>1. {x \in T \ {q} : x > r} = {x \in T : x > r}
  OBVIOUS
<1>2. p.days /\ r <= a => r <= b
  OBVIOUS
<1> QED
  BY <1>1, <1>2 DEF Lets

LEMMA LetsLater ==
  ASSUME NEW p, NEW T, NEW a \in Nat, NEW b \in Nat, a <= b, NEW r \in Nat, Lets(p, T, a, r)
  PROVE  Lets(p, T, b, r)
BY DEF Lets

LEMMA PrunesStep ==
  ASSUME ObjectLifecycleConstantsOK, LifeTypes, Cached, Prunes, [Next]_vars
  PROVE  Prunes'
<1>0. /\ Stock /\ Commanded /\ history = [o \in Object |-> history[o]] /\ aged \in [Object -> Nat] /\ writes \in Nat
      /\ \A o \in Object : DOMAIN history[o] \in SUBSET (1..(writes + 1))
  BY LatestFacts DEF LifeTypes, Stock, Archived
<1>1. ASSUME op' = None \/ op'.doom = {} PROVE Prunes'
  BY <1>1 DEF Prunes
<1>2. ASSUME UNCHANGED <<history, aged, policy>>, op' = op \/ (op # None /\ op'.doom \subseteq op.doom)
      PROVE  Prunes'
  BY <1>2 DEF Prunes, Archived
<1>3. CASE UNCHANGED vars
  BY <1>2, <1>3 DEF vars, objects, retention
<1>4. CASE TimePasses
  <2>1. PICK o \in Object : aged[o] < LatestRevision(o) /\ aged' = [aged EXCEPT ![o] = LatestRevision(o)]
    BY <1>4 DEF TimePasses
  <2>2. op' = op /\ history' = history /\ policy' = policy
    BY <1>4 DEF TimePasses, retention
  <2>3. LatestRevision(o) \in Nat
    BY <1>0, LatestFacts
  <2>4. ASSUME NEW q \in Object PROVE aged[q] \in Nat /\ aged'[q] \in Nat /\ aged[q] <= aged'[q]
    BY <1>0, <2>1, <2>3
  <2>5. ASSUME op # None, NEW d \in op.doom
        PROVE  d[2] \in DOMAIN history[d[1]] /\ Lets(policy, DOMAIN history[d[1]], aged'[d[1]], d[2])
    <3>1. d[1] \in Object /\ d[2] \in Nat
      BY <1>0, <2>5, CommandFacts
    <3>2. d[2] \in DOMAIN history[d[1]] /\ Lets(policy, DOMAIN history[d[1]], aged[d[1]], d[2])
      BY <2>5 DEF Prunes, Archived
    <3> QED
      BY <2>4, <3>1, <3>2, LetsLater
  <2> QED
    BY <2>2, <2>5 DEF Prunes, Archived
<1>5. ASSUME NEW s \in Session, SetRetentionPolicy(s) PROVE Prunes'
  <2>1. PICK p \in Policy : policy' = p /\ op' = [Command(s, "sweep", "prune", None) EXCEPT !.doom = AllDoomed(p)]
    BY <1>5 DEF SetRetentionPolicy
  <2>2. UNCHANGED <<history, aged>>
    BY <1>5 DEF SetRetentionPolicy, objects
  <2>3. op'.doom = AllDoomed(p)
    BY <2>1 DEF Command
  <2>4. ASSUME NEW d \in AllDoomed(p)
        PROVE  d[2] \in DOMAIN history[d[1]] /\ Lets(p, DOMAIN history[d[1]], aged[d[1]], d[2])
    <3>1. d[1] \in Object /\ d[2] \in Doomed(d[1], history[d[1]], p)
      BY <1>0, DoomedFacts
    <3>2. PICK n \in Nat : n = writes + 1
      BY <1>0
    <3> QED
      BY <1>0, <3>1, <3>2, DoomedLets
  <2> QED
    BY <2>1, <2>2, <2>3, <2>4 DEF Prunes, Archived
<1>6. ASSUME NEW s \in Session, SweepRetention(s) PROVE Prunes'
  <2>1. op' = [Command(s, "sweep", "prune", None) EXCEPT !.doom = AllDoomed(RetentionPolicy(s))]
    BY <1>6 DEF SweepRetention
  <2>2. UNCHANGED <<history, aged, policy>>
    BY <1>6 DEF SweepRetention, objects
  <2>3. op'.doom = AllDoomed(RetentionPolicy(s))
    BY <2>1 DEF Command
  <2>4. ASSUME NEW d \in AllDoomed(RetentionPolicy(s))
        PROVE  d[2] \in DOMAIN history[d[1]] /\ Lets(policy, DOMAIN history[d[1]], aged[d[1]], d[2])
    <3>1. d[1] \in Object /\ d[2] \in Doomed(d[1], history[d[1]], RetentionPolicy(s))
      BY <1>0, DoomedFacts
    <3>2. PICK n \in Nat : n = writes + 1
      BY <1>0
    <3> QED
      BY <1>0, <3>1, <3>2, SessionLets
  <2> QED
    BY <2>2, <2>3, <2>4 DEF Prunes, Archived
<1>7. ASSUME NEW s \in Session, ArchiveRevision(s) PROVE Prunes'
  <2>1. op # None /\ op.o \in Object /\ live[op.o] # None /\ Shape(op) /\ op.doom = {}
    BY <1>0, <1>7, CommandFacts DEF ArchiveRevision
  <2>2. PICK o \in Object : o = op.o
    BY <2>1
  <2>3. PICK h : h = Filed(history[o], live[o])
    OBVIOUS
  <2>4. UNCHANGED <<aged, policy>>
    BY <1>7 DEF ArchiveRevision
  <2>5. CASE op' = [op EXCEPT !.step = "prune"]
    BY <1>1, <2>1, <2>5 DEF Shape
  <2>6. CASE /\ history' = [history EXCEPT ![o] = h]
             /\ op' = [op EXCEPT !.step = "prune", !.doom = {o} \X Doomed(o, h, RetentionPolicy(s))]
    <3>1. op'.doom = {o} \X Doomed(o, h, RetentionPolicy(s))
      BY <2>1, <2>6 DEF Shape
    <3>2. history'[o] = h
      BY <1>0, <2>6
    <3>3. Aging(live[o], history[o], o, writes)
      BY <1>0 DEF Stock
    <3>4. Aging(live[o], h, o, writes)
      BY <1>0, <2>1, <2>2, <2>3, <3>3, AgingFiles
    <3>5. DOMAIN h \in SUBSET (1..(writes + 1))
      BY <3>4 DEF Aging
    <3>6. PICK n \in Nat : n = writes + 1
      BY <1>0
    <3>7. ASSUME NEW d \in op'.doom
          PROVE  d[2] \in DOMAIN history'[d[1]] /\ Lets(policy, DOMAIN history'[d[1]], aged[d[1]], d[2])
      <4>1. d[1] = o /\ d[2] \in Doomed(o, h, RetentionPolicy(s))
        BY <3>1
      <4>2. PICK r \in Doomed(o, h, RetentionPolicy(s)) : r = d[2]
        BY <4>1
      <4>3. r \in DOMAIN h /\ Lets(policy, DOMAIN h, aged[o], r)
        BY <3>5, <3>6, SessionLets
      <4> QED
        BY <3>2, <4>1, <4>2, <4>3
    <3> QED
      BY <2>4, <3>7 DEF Prunes, Archived
  <2> QED
    BY <1>7, <2>2, <2>3, <2>5, <2>6 DEF ArchiveRevision
<1>8. ASSUME NEW s \in Session, ApplyRetention(s) PROVE Prunes'
  <2>1. op # None
    BY <1>8 DEF ApplyRetention
  <2>2. PICK d \in op.doom : /\ \A e \in op.doom : e[1] = d[1] => d[2] <= e[2]
                             /\ history' = [history EXCEPT ![d[1]] = Restrict(@, Archived(d[1]) \ {d[2]})]
                             /\ op' = [op EXCEPT !.doom = @ \ {d}]
    BY <1>8 DEF ApplyRetention
  <2>3. UNCHANGED <<aged, policy>>
    BY <1>8 DEF ApplyRetention, retention
  <2>4. op'.doom = op.doom \ {d} /\ op.doom \subseteq Object \X Nat
    BY <1>0, <2>1, <2>2, CommandFacts DEF Shape
  <2>5. ASSUME NEW e \in op'.doom
        PROVE  e[2] \in DOMAIN history'[e[1]] /\ Lets(policy, DOMAIN history'[e[1]], aged[e[1]], e[2])
    <3>1. /\ e \in op.doom /\ e # d /\ e[1] \in Object /\ e[2] \in Nat /\ e = <<e[1], e[2]>>
          /\ d[1] \in Object /\ d[2] \in Nat /\ d = <<d[1], d[2]>>
      BY <2>4
    <3>2. /\ e[2] \in DOMAIN history[e[1]] /\ Lets(policy, DOMAIN history[e[1]], aged[e[1]], e[2])
          /\ d[2] \in DOMAIN history[d[1]]
      BY <2>1, <3>1 DEF Prunes, Archived
    <3>3. CASE e[1] # d[1]
      <4>1. history'[e[1]] = history[e[1]]
        BY <1>0, <2>2, <3>1, <3>3
      <4> QED
        BY <3>2, <4>1
    <3>4. CASE e[1] = d[1]
      <4>1. d[2] < e[2]
        BY <2>2, <3>1, <3>4
      <4>2. PICK T, x : T = DOMAIN history[e[1]] /\ x = d[2]
        OBVIOUS
      <4>3. history'[e[1]] = Restrict(history[e[1]], T \ {x})
        BY <1>0, <2>2, <3>1, <3>4, <4>2 DEF Archived
      <4>4. DOMAIN history'[e[1]] = T \ {x}
        BY <4>3 DEF Restrict
      <4>5. T \in SUBSET Nat /\ aged[e[1]] \in Nat
        BY <1>0, <3>1, <4>2
      <4>6. Lets(policy, T \ {x}, aged[e[1]], e[2])
        BY <3>1, <3>2, <3>4, <4>1, <4>2, <4>5, LetsStays
      <4> QED
        BY <3>1, <3>2, <4>1, <4>2, <4>4, <4>6
    <3> QED
      BY <3>3, <3>4
  <2> QED
    BY <2>3, <2>5 DEF Prunes, Archived
<1>9. ASSUME NEW s \in Session,
             \/ WriteObject(s) \/ RemoveObject(s) \/ EndSweep(s) \/ EndPurge(s) \/ WriteManifest(s) \/ Die(s)
      PROVE  Prunes'
  <2>1. op' = None
    BY <1>9 DEF WriteObject, RemoveObject, EndSweep, EndPurge, WriteManifest, Die
  <2> QED
    BY <1>1, <2>1
<1>10. ASSUME NEW s \in Session,
              \/ Put(s) \/ Rename(s) \/ Restore(s) \/ RestoreBase(s) \/ PutRead(s) \/ Remove(s)
              \/ PutAttachment(s) \/ WriteChunk(s) \/ RemoveAttachment(s) \/ RemoveTree(s) \/ Close(s)
       PROVE  Prunes'
  <2>1. UNCHANGED <<history, aged, policy>>
    BY <1>10 DEF Put, Rename, Restore, RestoreBase, PutRead, Remove, PutAttachment, WriteChunk, RemoveAttachment,
      RemoveTree, Close, objects, retention
  <2>2. CASE op' = op \/ op' = None
    BY <1>1, <1>2, <2>1, <2>2
  <2>3. CASE WriteChunk(s)
    <3>1. op # None /\ Shape(op) /\ op' = [op EXCEPT !.body = @ + 1]
      BY <1>0, <2>3, CommandFacts DEF WriteChunk, Holds
    <3>2. op'.doom = op.doom
      BY <3>1 DEF Shape
    <3> QED
      BY <1>2, <2>1, <3>1, <3>2
  <2>4. CASE op' # op /\ op' # None /\ ~WriteChunk(s)
    <3>1. PICK task, step, o : \/ op' = Command(s, task, step, o)
                               \/ \E x : op' = [Command(s, task, step, o) EXCEPT !.body = x]
      <4>1. CASE PutRead(s)
        <5> DEFINE step == IF live[reading[s].o] = None THEN "prune" ELSE "archive"
        <5>1. op' = [Command(s, "put", step, reading[s].o) EXCEPT !.body = reading[s].body]
          BY <2>4, <4>1 DEF PutRead
        <5> HIDE DEF step
        <5> QED
          BY <5>1
      <4>2. CASE Put(s)
        <5>1. PICK o \in Object : op' = [Command(s, "put", "archive", o) EXCEPT !.body = <<o, writes + 1>>]
          BY <4>2 DEF Put
        <5>2. PICK x : x = <<o, writes + 1>>
          OBVIOUS
        <5>3. op' = [Command(s, "put", "archive", o) EXCEPT !.body = x]
          BY <5>1, <5>2
        <5> QED
          BY <5>3
      <4>5. CASE PutAttachment(s)
        <5>1. op' = [Command(s, "attach", "chunk", None) EXCEPT !.body = 1]
          BY <2>4, <4>5 DEF PutAttachment
        <5> QED
          BY <5>1
      <4>3. CASE Remove(s) \/ RemoveAttachment(s)
        BY <2>4, <4>3 DEF Remove, RemoveAttachment
      <4>4. CASE Rename(s) \/ Restore(s) \/ RestoreBase(s) \/ RemoveTree(s) \/ Close(s)
        BY <2>4, <4>4 DEF Rename, Restore, RestoreBase, RemoveTree, Close
      <4> QED
        BY <1>10, <2>4, <4>1, <4>2, <4>3, <4>4, <4>5
    <3>2. op'.doom = {}
      BY <3>1 DEF Command
    <3> QED
      BY <1>1, <3>2
  <2> QED
    BY <2>2, <2>3, <2>4
<1>11. ASSUME NEW s \in Session, Purge(s) PROVE Prunes'
  <2>1. op'.doom = {}
    BY <1>11 DEF Purge, Command
  <2> QED
    BY <1>1, <2>1
<1>12. ASSUME NEW s \in Session, RemoveHistory(s) PROVE Prunes'
  <2>1. op # None /\ op.step = "clear" /\ op' = op
    BY <1>12 DEF RemoveHistory, Holds
  <2>2. op'.doom = {}
    BY <1>0, <2>1 DEF Commanded
  <2> QED
    BY <1>1, <2>2
<1> QED
  BY <1>3, <1>4, <1>5, <1>6, <1>7, <1>8, <1>9, <1>10, <1>11, <1>12
  DEF Next, Editing, Retaining, Purging, Attaching

LEMMA ArchiveFacts ==
  ASSUME NEW h, NEW b, InArchive(h, b)
  PROVE  /\ \A l, g : g = Filed(h, l) /\ l.rev \notin DOMAIN h => InArchive(g, b)
         /\ \A r, g : g = Restrict(h, DOMAIN h \ {r}) /\ b # h[r] => InArchive(g, b)
<1>1. PICK x \in DOMAIN h : b = h[x]
  BY DEF InArchive
<1>2. ASSUME NEW l, NEW g, g = Filed(h, l), l.rev \notin DOMAIN h PROVE InArchive(g, b)
  <2>1. x \in DOMAIN g /\ g[x] = h[x]
    BY <1>2, FilingFacts
  <2> QED
    BY <1>1, <2>1 DEF InArchive
<1>3. ASSUME NEW r, NEW g, g = Restrict(h, DOMAIN h \ {r}), b # h[r] PROVE InArchive(g, b)
  <2>1. x # r
    BY <1>1, <1>3
  <2>2. x \in DOMAIN g /\ g[x] = h[x]
    BY <1>3, <2>1 DEF Restrict
  <2> QED
    BY <1>1, <2>2 DEF InArchive
<1> QED
  BY <1>2, <1>3

LEMMA TextsStep ==
  ASSUME ObjectLifecycleConstantsOK, LifeTypes, Prunes, TextsKept, [Next]_vars
  PROVE  TextsKept'
<1>0. /\ Stock /\ Commanded /\ live = [o \in Object |-> live[o]] /\ history = [o \in Object |-> history[o]]
      /\ \A o \in Object : Aging(live[o], history[o], o, writes)
      /\ \A b \in kept : b[1] \in Object /\ There(live[b[1]], history[b[1]], b)
  BY DEF LifeTypes, Stock, TextsKept
<1>1. ASSUME UNCHANGED <<live, history, kept>>,
             \/ op' = None \/ op' = op \/ op'.task \in {"sweep", "attach", "detach"} \/ op'.step = "archive"
      PROVE  TextsKept'
  <2>1. \A b \in kept' : b[1] \in Object /\ There(live'[b[1]], history'[b[1]], b)
    BY <1>0, <1>1
  <2>2. CASE op' = None \/ op' = op
    BY <1>1, <2>1, <2>2 DEF TextsKept
  <2>3. CASE op'.task \in {"sweep", "attach", "detach"}
    BY <2>1, <2>3 DEF TextsKept
  <2>4. CASE op'.step = "archive" /\ op'.task # "purge"
    BY <2>1, <2>4 DEF TextsKept
  <2>5. CASE op'.step = "archive" /\ op' # None /\ op'.task = "purge"
    <3>1. Commanded'
      BY CommandedStep
    <3> QED
      BY <2>5, <3>1 DEF Commanded, Steps
  <2> QED
    BY <1>1, <2>2, <2>3, <2>4, <2>5
<1>2. CASE UNCHANGED vars \/ TimePasses
  BY <1>1, <1>2 DEF vars, objects, TimePasses
<1>3. ASSUME NEW s \in Session,
             \/ Rename(s) \/ Restore(s) \/ RestoreBase(s) \/ EndSweep(s) \/ EndPurge(s) \/ WriteManifest(s)
             \/ RemoveTree(s) \/ Close(s) \/ Die(s)
      PROVE  TextsKept'
  <2>1. UNCHANGED <<live, history, kept>> /\ (op' = op \/ op' = None)
    BY <1>3 DEF Rename, Restore, RestoreBase, EndSweep, EndPurge, WriteManifest, RemoveTree, Close, Die, objects
  <2> QED
    BY <1>1, <2>1
<1>4. ASSUME NEW s \in Session, Put(s) \/ Remove(s) PROVE TextsKept'
  <2>1. UNCHANGED <<live, history, kept>>
    BY <1>4 DEF Put, Remove, objects
  <2>2. op'.step = "archive"
    <3>1. CASE Put(s)
      BY <3>1 DEF Put, Command
    <3>2. CASE Remove(s)
      BY <3>2 DEF Remove, Command
    <3> QED
      BY <1>4, <3>1, <3>2
  <2> QED
    BY <1>1, <2>1, <2>2
<1>5. ASSUME NEW s \in Session,
             SetRetentionPolicy(s) \/ SweepRetention(s) \/ PutAttachment(s) \/ RemoveAttachment(s)
      PROVE  TextsKept'
  <2>1. UNCHANGED <<live, history, kept>>
    BY <1>5 DEF SetRetentionPolicy, SweepRetention, PutAttachment, RemoveAttachment, objects
  <2>2. CASE op' = op
    BY <1>1, <2>1, <2>2
  <2>3. CASE op' # op
    <3>1. op'.task \in {"sweep", "attach", "detach"}
      <4>1. CASE SetRetentionPolicy(s) \/ SweepRetention(s)
        BY <4>1 DEF SetRetentionPolicy, SweepRetention, Command
      <4>2. CASE PutAttachment(s)
        BY <2>3, <4>2 DEF PutAttachment, Command
      <4>3. CASE RemoveAttachment(s)
        BY <4>3 DEF RemoveAttachment, Command
      <4> QED
        BY <1>5, <4>1, <4>2, <4>3
    <3> QED
      BY <1>1, <2>1, <3>1
  <2> QED
    BY <2>2, <2>3
<1>6. ASSUME NEW s \in Session, WriteChunk(s) PROVE TextsKept'
  <2>1. UNCHANGED <<live, history, kept>> /\ op # None /\ op.task = "attach" /\ op' = [op EXCEPT !.body = @ + 1]
    BY <1>6 DEF WriteChunk, Holds, objects
  <2>2. Shape(op)
    BY <1>0, <2>1, CommandFacts
  <2>3. op'.task = "attach"
    BY <2>1, <2>2 DEF Shape
  <2> QED
    BY <1>1, <2>1, <2>3
<1>7. ASSUME NEW s \in Session, PutRead(s) PROVE TextsKept'
  <2>1. UNCHANGED <<live, history, kept>>
    BY <1>7 DEF PutRead, objects
  <2>2. CASE op' = op
    BY <1>1, <2>1, <2>2
  <2>3. CASE op' # op
    <3> DEFINE seen == reading[s]
    <3>1. op' = [Command(s, "put", IF live[seen.o] = None THEN "prune" ELSE "archive", seen.o) EXCEPT !.body = seen.body]
      BY <1>7, <2>3 DEF PutRead
    <3>2. op'.task = "put" /\ op'.o = seen.o /\ (op'.step = "archive" \/ live[seen.o] = None)
      BY <3>1 DEF Command
    <3>3. CASE op'.step = "archive"
      BY <1>1, <2>1, <3>3
    <3>4. CASE live[seen.o] = None
      <4>1. PICK o : o = seen.o
        OBVIOUS
      <4>2. \A b \in kept : b[1] = o => InArchive(history[o], b)
        BY <1>0, <3>4, <4>1 DEF There
      <4> QED
        BY <1>0, <2>1, <3>2, <4>1, <4>2 DEF TextsKept
    <3> QED
      BY <3>2, <3>3, <3>4
  <2> QED
    BY <2>2, <2>3
<1>8. ASSUME NEW s \in Session, ApplyRetention(s) PROVE TextsKept'
  <2>1. op # None /\ op.step = "prune" /\ Shape(op) /\ op.doom \subseteq Object \X Nat
    BY <1>0, <1>8, CommandFacts DEF ApplyRetention
  <2>2. PICK d \in op.doom :
          /\ history' = [history EXCEPT ![d[1]] = Restrict(@, Archived(d[1]) \ {d[2]})]
          /\ op' = [op EXCEPT !.doom = @ \ {d}]
          /\ kept' = IF MayDrop(d[1], d[2]) THEN kept \ {history[d[1]][d[2]]} ELSE kept
    BY <1>8 DEF ApplyRetention
  <2>3. MayDrop(d[1], d[2])
    BY <2>1, <2>2, MayDropLets DEF Prunes, Archived
  <2>4. PICK o \in Object, r \in Nat : o = d[1] /\ r = d[2]
    BY <2>1, <2>2
  <2>5. live' = live /\ kept' = kept \ {history[o][r]}
    BY <1>8, <2>2, <2>3, <2>4 DEF ApplyRetention
  <2>6. history'[o] = Restrict(history[o], DOMAIN history[o] \ {r}) /\ \A q \in Object : q # o => history'[q] = history[q]
    BY <1>0, <2>2, <2>4 DEF Archived
  <2>7. op'.task = op.task /\ op'.step = op.step /\ op'.o = op.o
    BY <2>1, <2>2 DEF Shape
  <2>8. ASSUME NEW q \in Object, NEW b \in kept', InArchive(history[q], b) PROVE InArchive(history'[q], b)
    <3>1. CASE q = o
      <4>1. PICK h, g : h = history[o] /\ g = history'[o]
        OBVIOUS
      <4>2. InArchive(h, b) /\ b # h[r] /\ g = Restrict(h, DOMAIN h \ {r})
        BY <2>5, <2>6, <2>8, <3>1, <4>1
      <4>3. InArchive(g, b)
        BY <4>2, ArchiveFacts
      <4> QED
        BY <3>1, <4>1, <4>3
    <3>2. CASE q # o
      BY <2>6, <2>8, <3>2
    <3> QED
      BY <3>1, <3>2
  <2>9. \A b \in kept' : b \in kept
    BY <2>5
  <2>10. \A b \in kept' : b[1] \in Object /\ There(live'[b[1]], history'[b[1]], b)
    BY <1>0, <2>5, <2>8, <2>9 DEF There
  <2>11. ASSUME op.task \in {"put", "remove"}, NEW b \in kept', b[1] = op.o PROVE InArchive(history'[op.o], b)
    <3>1. InArchive(history[op.o], b) /\ op.o \in Object
      BY <1>0, <2>1, <2>9, <2>11, CommandFacts DEF TextsKept
    <3> QED
      BY <2>8, <3>1
  <2>12. op.task # "purge"
    BY <1>0, <2>1, CommandFacts
  <2> QED
    BY <2>7, <2>10, <2>11, <2>12 DEF TextsKept
<1>9. ASSUME NEW s \in Session, ArchiveRevision(s) PROVE TextsKept'
  <2>1. op # None /\ op.task \in {"put", "remove"} /\ op.o \in Object /\ live[op.o] # None /\ Shape(op)
    BY <1>0, <1>9, CommandFacts DEF ArchiveRevision
  <2>2. PICK o \in Object : o = op.o
    BY <2>1
  <2>3. PICK l, h : l = live[o] /\ h = history[o]
    OBVIOUS
  <2>4. live' = live /\ kept' = kept
    BY <1>9 DEF ArchiveRevision
  <2>5. op'.task = op.task /\ op'.o = o
    BY <1>9, <2>1, <2>2 DEF ArchiveRevision, Shape
  <2>6. CASE l.rev \in DOMAIN h /\ history' = history
    <3>1. h[l.rev] = l.body
      BY <1>0, <2>1, <2>2, <2>3, <2>6 DEF Aging
    <3>2. \A b \in kept : b[1] = o => InArchive(h, b)
      BY <1>0, <2>3, <2>6, <3>1 DEF There, InArchive
    <3> QED
      BY <1>0, <2>1, <2>2, <2>3, <2>4, <2>5, <2>6, <3>2 DEF TextsKept
  <2>7. CASE l.rev \notin DOMAIN h /\ history' = [history EXCEPT ![o] = Filed(h, l)]
    <3>1. PICK g : g = Filed(h, l)
      OBVIOUS
    <3>2. history'[o] = g /\ \A q \in Object : q # o => history'[q] = history[q]
      BY <1>0, <2>7, <3>1
    <3>3. ASSUME NEW b, There(l, h, b) PROVE InArchive(g, b)
      <4>1. CASE b = l.body
        <5>1. l.rev \in DOMAIN g /\ g[l.rev] = l.body
          BY <3>1, FilingFacts
        <5> QED
          BY <4>1, <5>1 DEF InArchive
      <4>2. CASE InArchive(h, b)
        BY <2>7, <3>1, <4>2, ArchiveFacts
      <4> QED
        BY <3>3, <4>1, <4>2 DEF There
    <3>4. \A b \in kept' : b[1] = o => InArchive(history'[o], b)
      BY <1>0, <2>3, <2>4, <3>2, <3>3
    <3>5. \A b \in kept' : b[1] \in Object /\ There(live'[b[1]], history'[b[1]], b)
      BY <1>0, <2>4, <3>2, <3>4 DEF There
    <3> QED
      BY <2>1, <2>5, <3>4, <3>5 DEF TextsKept
  <2> QED
    BY <1>9, <2>2, <2>3, <2>6, <2>7 DEF ArchiveRevision, Archived
<1>10. ASSUME NEW s \in Session, WriteObject(s) PROVE TextsKept'
  <2>1. op # None /\ op.task = "put" /\ op.step = "prune" /\ op.o \in Object /\ op.body \in TextOf(op.o)
    BY <1>0, <1>10, CommandFacts DEF WriteObject, Holds
  <2>2. /\ live' = [live EXCEPT ![op.o] = [rev |-> LatestRevision(op.o) + 1, body |-> op.body]]
        /\ kept' = kept \cup {op.body} /\ history' = history /\ op' = None
    BY <1>10 DEF WriteObject
  <2>3. PICK m : m = [rev |-> LatestRevision(op.o) + 1, body |-> op.body]
    OBVIOUS
  <2>4. live'[op.o] = m /\ \A q \in Object : q # op.o => live'[q] = live[q]
    BY <1>0, <2>1, <2>2, <2>3
  <2>5. m.body = op.body /\ op.body[1] = op.o /\ m # None
    <3>1. LatestRevision(op.o) + 1 \in Nat
      BY <1>0, <2>1, LatestFacts DEF Stock
    <3>2. op.body[1] = op.o /\ op.body \in Object \X Nat
      BY <2>1 DEF TextOf
    <3>3. m \in [rev : Nat, body : Object \X Nat]
      BY <2>3, <3>1, <3>2
    <3> QED
      BY <2>3, <3>2, <3>3 DEF ObjectLifecycleConstantsOK
  <2>6. ASSUME NEW b \in kept' PROVE b[1] \in Object /\ There(live'[b[1]], history'[b[1]], b)
    <3>1. CASE b = op.body
      BY <2>1, <2>4, <2>5, <3>1 DEF There
    <3>2. CASE b \in kept /\ b[1] = op.o
      BY <2>1, <2>2, <3>2 DEF TextsKept, There
    <3>3. CASE b \in kept /\ b[1] # op.o
      BY <1>0, <2>2, <2>4, <3>3
    <3> QED
      BY <2>2, <3>1, <3>2, <3>3
  <2> QED
    BY <2>2, <2>6 DEF TextsKept
<1>11. ASSUME NEW s \in Session, RemoveObject(s) PROVE TextsKept'
  <2>1. op # None /\ op.task = "remove" /\ op.step = "prune"
    BY <1>11 DEF RemoveObject, Holds
  <2>2. live' = [live EXCEPT ![op.o] = None] /\ kept' = kept /\ history' = history /\ op' = None
    BY <1>11 DEF RemoveObject
  <2>3. ASSUME NEW b \in kept' PROVE b[1] \in Object /\ There(live'[b[1]], history'[b[1]], b)
    <3>1. CASE b[1] = op.o
      BY <1>0, <2>1, <2>2, <3>1 DEF TextsKept, There
    <3>2. CASE b[1] # op.o
      BY <1>0, <2>2, <3>2
    <3> QED
      BY <3>1, <3>2
  <2> QED
    BY <2>2, <2>3 DEF TextsKept
<1>12. ASSUME NEW s \in Session, Purge(s) PROVE TextsKept'
  <2>1. PICK o \in Object :
          /\ op' = Command(s, "purge", "clear", o) /\ live' = [live EXCEPT ![o] = None]
          /\ kept' = {b \in kept : b[1] # o}
    BY <1>12 DEF Purge
  <2>2. history' = history /\ op'.task = "purge" /\ op'.o = o
    BY <1>12, <2>1 DEF Purge, Command
  <2>3. \A b \in kept' : b \in kept /\ b[1] # o
    BY <2>1
  <2>4. \A b \in kept' : b[1] \in Object /\ There(live'[b[1]], history'[b[1]], b)
    BY <1>0, <2>1, <2>2, <2>3
  <2> QED
    BY <2>2, <2>3, <2>4 DEF TextsKept
<1>13. ASSUME NEW s \in Session, RemoveHistory(s) PROVE TextsKept'
  <2>1. op # None /\ op.task = "purge" /\ op' = op /\ live' = live /\ kept' = kept
    BY <1>13 DEF RemoveHistory, Holds
  <2>2. PICK r : history' = [history EXCEPT ![op.o] = Restrict(@, Archived(op.o) \ {r})]
    BY <1>13 DEF RemoveHistory
  <2>3. \A b \in kept : b[1] # op.o
    BY <2>1 DEF TextsKept
  <2>4. \A b \in kept' : b[1] \in Object /\ There(live'[b[1]], history'[b[1]], b)
    BY <1>0, <2>1, <2>2, <2>3
  <2> QED
    BY <2>1, <2>3, <2>4 DEF TextsKept
<1> QED
  BY <1>2, <1>3, <1>4, <1>5, <1>6, <1>7, <1>8, <1>9, <1>10, <1>11, <1>12, <1>13
  DEF Next, Editing, Retaining, Purging, Attaching

\* The commands on notes and canvases leave the attachment alone.
LEMMA FilesRest ==
  ASSUME Files, UNCHANGED attachment, op = None \/ op.task \notin {"attach", "detach"},
         op' = None \/ op'.task \notin {"attach", "detach"}
  PROVE  Files'
BY DEF Files, attachment

LEMMA FilesStep ==
  ASSUME ObjectLifecycleConstantsOK, "removal" \notin Overlap, LifeTypes, Files, [Next]_vars
  PROVE  Files'
<1>0. Chunks /\ Commanded /\ Files /\ Parts \in Nat /\ Parts > 0
  BY DEF LifeTypes, ObjectLifecycleConstantsOK
<1>1. ASSUME UNCHANGED attachment, op' = op PROVE Files'
  BY <1>0, <1>1 DEF Files, attachment
<1>2. CASE UNCHANGED vars \/ TimePasses
  BY <1>1, <1>2 DEF vars, TimePasses
<1>3. ASSUME NEW s \in Session, Rename(s) \/ Restore(s) \/ RestoreBase(s) \/ RemoveHistory(s) \/ Close(s) PROVE Files'
  <2>1. UNCHANGED attachment /\ op' = op
    BY <1>3 DEF Rename, Restore, RestoreBase, RemoveHistory, Close
  <2> QED
    BY <1>1, <2>1
<1>4. ASSUME NEW s \in Session,
             WriteObject(s) \/ RemoveObject(s) \/ EndSweep(s) \/ EndPurge(s)
      PROVE  Files'
  <2>1. UNCHANGED attachment /\ op' = None /\ op # None /\ op.task \in {"put", "remove", "sweep", "purge"}
    BY <1>4 DEF WriteObject, RemoveObject, EndSweep, EndPurge, Holds
  <2> QED
    BY <1>0, <2>1, FilesRest
<1>5. ASSUME NEW s \in Session,
             Put(s) \/ PutRead(s) \/ Remove(s) \/ SetRetentionPolicy(s) \/ SweepRetention(s) \/ Purge(s)
      PROVE  Files'
  <2>1. UNCHANGED attachment /\ op = None
    BY <1>5 DEF Put, PutRead, Remove, SetRetentionPolicy, SweepRetention, Purge
  <2>2. op' = op \/ op'.task \in {"put", "remove", "sweep", "purge"}
    <3>1. CASE Put(s)
      BY <3>1 DEF Put, Command
    <3>2. CASE PutRead(s)
      BY <3>2 DEF PutRead, Command
    <3>3. CASE Remove(s) \/ Purge(s)
      BY <3>3 DEF Remove, Purge, Command
    <3>4. CASE SetRetentionPolicy(s) \/ SweepRetention(s)
      BY <3>4 DEF SetRetentionPolicy, SweepRetention, Command
    <3> QED
      BY <1>5, <3>1, <3>2, <3>3, <3>4
  <2> QED
    BY <1>0, <1>1, <2>1, <2>2, FilesRest
<1>6. ASSUME NEW s \in Session, ApplyRetention(s) \/ ArchiveRevision(s) PROVE Files'
  <2>1. UNCHANGED attachment /\ op # None /\ op.step \in {"prune", "archive"}
    BY <1>6 DEF ApplyRetention, ArchiveRevision
  <2>2. Shape(op) /\ op.task \in {"put", "remove", "sweep"}
    BY <1>0, <2>1, CommandFacts
  <2>3. op'.task = op.task
    <3>1. \/ \E x : op' = [op EXCEPT !.doom = x]
          \/ op' = [op EXCEPT !.step = "prune"]
          \/ \E x : op' = [op EXCEPT !.step = "prune", !.doom = x]
      BY <1>6 DEF ApplyRetention, ArchiveRevision
    <3> QED
      BY <2>2, <3>1 DEF Shape
  <2> QED
    BY <1>0, <2>1, <2>2, <2>3, FilesRest
<1>7. ASSUME NEW s \in Session, PutAttachment(s) PROVE Files'
  <2>1. op = None /\ ~attached /\ files' = files
    BY <1>7 DEF PutAttachment
  <2>2. CASE Manifest \in files
    <3>1. attached' = TRUE /\ op' = op /\ files = Whole
      BY <1>0, <1>7, <2>1, <2>2 DEF PutAttachment, AlreadyStored, Files
    <3> QED
      BY <2>1, <3>1 DEF Files
  <2>3. CASE Manifest \notin files
    <3>1. op' = [Command(s, "attach", "chunk", None) EXCEPT !.body = 1] /\ attached' = attached
      BY <1>7, <2>3 DEF PutAttachment, AlreadyStored
    <3>2. op'.task = "attach" /\ op'.body = 1
      BY <3>1 DEF Command
    <3>3. 1..(op'.body - 1) = {}
      BY <3>2
    <3> QED
      BY <2>1, <2>3, <3>1, <3>2, <3>3 DEF Files
  <2> QED
    BY <2>2, <2>3
<1>8. ASSUME NEW s \in Session, WriteChunk(s) PROVE Files'
  <2>1. /\ op # None /\ op.task = "attach" /\ op.body <= Parts /\ op' = [op EXCEPT !.body = @ + 1]
        /\ files' = files \cup {op.body} /\ attached' = attached
    BY <1>8 DEF WriteChunk, Holds
  <2>2. Shape(op) /\ op.body \in 1..(Parts + 1)
    BY <1>0, <2>1 DEF Commanded
  <2>3. op'.task = "attach" /\ op'.body = op.body + 1
    BY <2>1, <2>2 DEF Shape
  <2>4. ~attached /\ Manifest \notin files /\ 1..(op.body - 1) \subseteq files
    BY <1>0, <2>1 DEF Files
  <2>5. Manifest \notin files'
    BY <2>1, <2>2, <2>4 DEF Manifest
  <2>6. 1..(op'.body - 1) \subseteq files'
    BY <2>1, <2>2, <2>3, <2>4
  <2> QED
    BY <2>1, <2>3, <2>4, <2>5, <2>6 DEF Files
<1>9. ASSUME NEW s \in Session, WriteManifest(s) PROVE Files'
  <2>1. /\ op # None /\ op.task = "attach" /\ op.body > Parts /\ op' = None
        /\ files' = files \cup {Manifest}
    BY <1>9 DEF WriteManifest, Holds
  <2>2. op.body \in 1..(Parts + 1) /\ 1..(op.body - 1) \subseteq files
    BY <1>0, <2>1 DEF Commanded, Files
  <2>3. op.body - 1 = Parts
    BY <1>0, <2>1, <2>2
  <2>4. files' = Whole
    BY <1>0, <2>1, <2>2, <2>3 DEF Chunks, Whole
  <2> QED
    BY <2>1, <2>4 DEF Files, Whole
<1>10. ASSUME NEW s \in Session, RemoveAttachment(s) PROVE Files'
  <2>1. op'.task = "detach" /\ attached' = FALSE /\ files' = files
    BY <1>10 DEF RemoveAttachment, Command
  <2>2. op = None
    BY <1>10 DEF RemoveAttachment
  <2> QED
    BY <1>0, <2>1, <2>2 DEF Files
<1>11. ASSUME NEW s \in Session, RemoveTree(s) PROVE Files'
  <2>1. op # None /\ op.task = "detach" /\ attached' = attached
    BY <1>11 DEF RemoveTree, Holds
  <2>2. PICK f \in files : files' = files \ {f} /\ op' = IF files = {f} THEN None ELSE op
    BY <1>11 DEF RemoveTree
  <2>3. ~attached
    BY <1>0, <2>1 DEF Files
  <2>4. CASE files = {f}
    <3>1. files' = {} /\ op' = None
      BY <2>2, <2>4
    <3> QED
      BY <2>1, <2>3, <3>1 DEF Files
  <2>5. CASE files # {f}
    BY <2>1, <2>2, <2>3, <2>5 DEF Files
  <2> QED
    BY <2>4, <2>5
<1>12. ASSUME NEW s \in Session, Die(s) PROVE Files'
  <2>1. /\ UNCHANGED attachment /\ op' = None /\ op # None
        /\ ~(op.task = "detach" /\ Manifest \in files /\ files # Whole)
    BY <1>12 DEF Die, Unless
  <2> QED
    BY <1>0, <2>1 DEF Files, attachment
<1> QED
  BY <1>2, <1>3, <1>4, <1>5, <1>6, <1>7, <1>8, <1>9, <1>10, <1>11, <1>12
  DEF Next, Editing, Retaining, Purging, Attaching

LEMMA KeptInvariance ==
  ASSUME ObjectLifecycleConstantsOK, "stale_policy" \notin Overlap, "removal" \notin Overlap
  PROVE  Spec => []KeptInv
<1>1. Init => KeptInv
  <2> SUFFICES ASSUME Init PROVE KeptInv
    OBVIOUS
  <2>1. LifeTypes
    BY TypesInit
  <2>2. Cached /\ Prunes /\ Files
    BY DEF Init, Cached, Prunes, Files
  <2>3. ASSUME NEW b \in kept PROVE b[1] \in Object /\ There(live[b[1]], history[b[1]], b)
    <3>1. PICK o \in Object : b = <<o, 0>>
      BY DEF Init
    <3>2. PICK l : l = [rev |-> 1, body |-> <<o, 0>>]
      OBVIOUS
    <3>3. b[1] = o /\ live[o] = l /\ l.body = b
      BY <3>1, <3>2 DEF Init
    <3>4. l # None
      <4>1. l \in [rev : Nat, body : Object \X Nat]
        BY <3>2
      <4> QED
        BY <4>1 DEF ObjectLifecycleConstantsOK
    <3> QED
      BY <3>3, <3>4 DEF There
  <2>4. TextsKept
    BY <2>3 DEF Init, TextsKept
  <2> QED
    BY <2>1, <2>2, <2>4 DEF KeptInv
<1>2. KeptInv /\ [Next]_vars => KeptInv'
  BY TypesStep, CachedStep, PrunesStep, TextsStep, FilesStep DEF KeptInv
<1> QED
  BY <1>1, <1>2, PTL DEF Spec

\* Every text that was acknowledged can be read until its purge, or until the stored policy lets it
\* go, and an added attachment is whole until its removal: for every number of sessions, objects,
\* policies, writes and deaths, unless a session holds a stale policy or dies in a removal whose
\* manifest outlives its chunks (archiveRevision, applyRetention, removeLocked, putAttachmentLocked).
THEOREM LifecycleEditsKept ==
  ASSUME ObjectLifecycleConstantsOK, "stale_policy" \notin Overlap, "removal" \notin Overlap
  PROVE  Spec => []EditsKept
<1>1. KeptInv => EditsKept
  <2> SUFFICES ASSUME KeptInv PROVE EditsKept
    OBVIOUS
  <2>1. ASSUME NEW b \in kept PROVE b \in Bodies(b[1])
    <3>1. There(live[b[1]], history[b[1]], b)
      BY DEF KeptInv, TextsKept
    <3> QED
      BY <3>1 DEF There, InArchive, Bodies, Archived
  <2> QED
    BY <2>1 DEF KeptInv, Files, EditsKept
<1> QED
  BY <1>1, KeptInvariance, PTL
=============================================================================
