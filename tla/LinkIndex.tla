----------------------------- MODULE LinkIndex -----------------------------
(***************************************************************************)
(* The link index of a document vault (src/documents.ts): who links to whom,*)
(* what a link resolves to, which links resolve to nothing and which boards *)
(* show which notes.  Every write changes the maps it can affect and no     *)
(* others; a rebuild derives them from the objects.  Both must agree.       *)
(*                                                                          *)
(* A link names a label.  A note answers to its path, to the last part of   *)
(* its path, to its title and to its aliases; the exact path goes first, the*)
(* other labels only count when a single note has them.                     *)
(* Writes hold the vault lock and the order of writes to disk is            *)
(* DocumentStore's; here an interrupted write is repaired by the next load. *)
(***************************************************************************)
EXTENDS Naturals, FiniteSets

CONSTANTS
  Note, Canvas,
  Nothing,  \* no note, no object, no target
  Label,    \* normalized link targets
  Path,     \* those of them a note can have as its path
  Base,     \* [Path -> Label]: basename
  Doc,      \* the notes that can be written: path, names (title and aliases) and links
  Board     \* the canvases that can be written: file nodes and the links of text nodes

VARIABLES
  object,   \* [Note -> the stored note or Nothing]
  board,    \* [Canvas -> the stored canvas or Nothing]
  index     \* the index a session holds and saves

indexVars == <<object, board, index>>

ASSUME LinkIndexConstantsOK ==
  /\ Path \subseteq Label /\ Base \in [Path -> Label]
  /\ Doc \subseteq [path : Path, names : SUBSET Label, links : SUBSET Label]
  /\ Board \subseteq [files : SUBSET Note, links : SUBSET Label]
  /\ Nothing \notin Note \cup Doc \cup Board \cup [refs : SUBSET Note, open : SUBSET Label]
  /\ IsFiniteSet(Note)

Live(ix) == {n \in Note : ix.notes[n] # Nothing}

\* identityLabels
Labels(doc) == {doc.path, Base[doc.path]} \cup doc.names
----------------------------------------------------------------------------
(* Owners and resolution. *)

\* addOwnerLabels and removeOwnerLabels
With(map, labels, n) == [l \in Label |-> IF l \in labels THEN map[l] \cup {n} ELSE map[l]]
Without(map, labels, n) == [l \in Label |-> IF l \in labels THEN map[l] \ {n} ELSE map[l]]

AddOwner(ix, n, doc) ==
  [ix EXCEPT !.paths = With(@, {doc.path}, n), !.bases = With(@, {Base[doc.path]}, n),
             !.names = With(@, doc.names, n)]
RemoveOwner(ix, n, doc) ==
  [ix EXCEPT !.paths = Without(@, {doc.path}, n), !.bases = Without(@, {Base[doc.path]}, n),
             !.names = Without(@, doc.names, n)]

\* resolveLinkTargetInIndex
Resolve(ix, label) ==
  LET exact == ix.paths[label] \cap Live(ix)
      named == (ix.names[label] \cup ix.bases[label]) \cap Live(ix)
  IN IF exact # {} THEN CHOOSE n \in exact : TRUE
     ELSE IF Cardinality(named) = 1 THEN CHOOSE n \in named : TRUE ELSE Nothing

\* addSourceToLinkMap and removeSourceFromLinkMap
AddSource(ix, n, doc) == [ix EXCEPT !.sources = With(@, doc.links, n)]
RemoveSource(ix, n, doc) == [ix EXCEPT !.sources = Without(@, doc.links, n)]

Linking(ix, labels) == UNION {ix.sources[l] : l \in labels}

\* clearResolvedSource and refreshResolvedSource for every source in S.
Pointed(resolved, s) == {r[2] : r \in resolved[s]} \ {Nothing}
Refresh(ix, S) ==
  LET resolved == [n \in Note |-> IF n \notin S THEN ix.resolved[n]
                                  ELSE IF ix.notes[n] = Nothing THEN {}
                                  ELSE {<<l, Resolve(ix, l)>> : l \in ix.notes[n].links}]
  IN [ix EXCEPT !.resolved = resolved,
                !.backlinks = [n \in Note |-> (@[n] \ {s \in S : n \in Pointed(ix.resolved, s)})
                                              \cup {s \in S \ {n} : n \in Pointed(resolved, s)}]]
----------------------------------------------------------------------------
(* Boards in the index. *)

\* indexCanvasEntry: file nodes, and the links of text nodes.
Entry(ix, b) == [refs |-> b.files \cup ({Resolve(ix, l) : l \in b.links} \ {Nothing}),
                 open |-> {l \in b.links : Resolve(ix, l) = Nothing}]

\* detachCanvas, then attachCanvas
Attach(ix, c, entry) ==
  [ix EXCEPT !.boards[c] = entry,
             !.shown = [n \in Note |->
                (@[n] \ {c}) \cup (IF entry # Nothing /\ n \in entry.refs THEN {c} ELSE {})]]

\* refreshCanvasesForNoteChange: boards that show the note or a note sharing a label with it,
\* and boards with an open link to one of its labels.
Touched(ix, n, labels) ==
  LET owners == UNION {ix.paths[l] \cup ix.names[l] \cup ix.bases[l] : l \in labels}
  IN (UNION {ix.shown[o] : o \in owners \cup {n}})
       \cup {c \in Canvas : ix.boards[c] # Nothing /\ ix.boards[c].open \cap labels # {}}

Reindex(ix, boards, C) ==
  LET entry == [c \in Canvas |-> IF c \in C /\ boards[c] # Nothing THEN Entry(ix, boards[c])
                                ELSE ix.boards[c]]
  IN [ix EXCEPT !.boards = entry,
                !.shown = [n \in Note |->
                   (@[n] \ C) \cup {c \in C : entry[c] # Nothing /\ n \in entry[c].refs}]]
----------------------------------------------------------------------------
(* The three ways a note gets into the index or out of it. *)

\* A slip: only the labels the note has now are looked at.
IndexNoteNew(ix, n, doc) ==
  LET old == ix.notes[n]
      bare == IF old = Nothing THEN ix ELSE RemoveSource(RemoveOwner(ix, n, old), n, old)
      placed == AddSource(AddOwner([bare EXCEPT !.notes[n] = doc], n, doc), n, doc)
      fresh == Refresh(placed, {n} \cup Linking(placed, Labels(doc)))
  IN Reindex(fresh, board, Touched(fresh, n, Labels(doc)))

\* applyIndexedNote
IndexNote(ix, n, doc) ==
  LET old == ix.notes[n]
      labels == Labels(doc) \cup (IF old = Nothing THEN {} ELSE Labels(old))
      bare == IF old = Nothing THEN ix ELSE RemoveSource(RemoveOwner(ix, n, old), n, old)
      placed == AddSource(AddOwner([bare EXCEPT !.notes[n] = doc], n, doc), n, doc)
      fresh == Refresh(placed, {n} \cup Linking(placed, labels))
  IN Reindex(fresh, board, Touched(fresh, n, labels))

\* applyNoteRemoval: the note's own links are cleared, its entry and its backlinks dropped.
DropNote(ix, n) ==
  LET old == ix.notes[n]
      affected == Linking(ix, Labels(old)) \ {n}
      bare == RemoveOwner(RemoveSource(ix, n, old), n, old)
      cleared == Refresh([bare EXCEPT !.notes[n] = Nothing], {n})
      fresh == Refresh([cleared EXCEPT !.backlinks[n] = {}], affected)
  IN Reindex(fresh, board, Touched(fresh, n, Labels(old)))

\* recoverFromJournal: the object as it is on disk, the links before and after, the boards
\* before the sources are refreshed.
RecoverNote(ix, n, doc) ==
  LET old == ix.notes[n]
      before == IF old = Nothing THEN {} ELSE Labels(old)
      after == IF doc = Nothing THEN {} ELSE Labels(doc)
      affected == Linking(ix, before)
      bare == IF old = Nothing THEN ix ELSE RemoveSource(RemoveOwner(ix, n, old), n, old)
      gone == [Refresh([bare EXCEPT !.notes[n] = Nothing], {n}) EXCEPT !.backlinks[n] = {}]
      placed == IF doc = Nothing THEN gone
                ELSE AddSource(AddOwner([bare EXCEPT !.notes[n] = doc], n, doc), n, doc)
      shown == Reindex(placed, board, Touched(placed, n, before \cup after))
      linking == affected \cup Linking(placed, after)
  IN Refresh(shown, IF doc = Nothing THEN linking \ {n} ELSE linking \cup {n})
----------------------------------------------------------------------------
(* A rebuild. *)

Empty == [notes |-> [n \in Note |-> Nothing], paths |-> [l \in Label |-> {}], names |-> [l \in Label |-> {}],
          bases |-> [l \in Label |-> {}], sources |-> [l \in Label |-> {}],
          resolved |-> [n \in Note |-> {}], backlinks |-> [n \in Note |-> {}],
          boards |-> [c \in Canvas |-> Nothing], shown |-> [n \in Note |-> {}]]

\* buildDerivedIndex and rebuildIndex: the notes first, then the boards over them.
Derived ==
  LET Having(P(_, _)) == [l \in Label |-> {n \in Note : object[n] # Nothing /\ P(object[n], l)}]
      owned == [Empty EXCEPT !.notes = object,
                             !.paths = Having(LAMBDA d, l : d.path = l),
                             !.names = Having(LAMBDA d, l : l \in d.names),
                             !.bases = Having(LAMBDA d, l : Base[d.path] = l),
                             !.sources = Having(LAMBDA d, l : l \in d.links)]
  IN Reindex(Refresh(owned, {n \in Note : object[n] # Nothing}), board, Canvas)
----------------------------------------------------------------------------
IndexInit ==
  /\ object = [n \in Note |-> Nothing] /\ board = [c \in Canvas |-> Nothing]
  /\ index = Empty

\* putIntoIndex: "Another note already uses path".  Rename, restore and import end here.
PathFree(n, doc) == index.paths[doc.path] \subseteq {n}

PutNote(n) ==
  /\ \E doc \in Doc : /\ PathFree(n, doc)
                      /\ object' = [object EXCEPT ![n] = doc]
                      /\ index' = IndexNote(index, n, doc)
  /\ UNCHANGED board

RemoveNote(n) ==
  /\ index.notes[n] # Nothing
  /\ object' = [object EXCEPT ![n] = Nothing]
  /\ index' = DropNote(index, n)
  /\ UNCHANGED board

PutCanvas(c) ==
  /\ \E b \in Board : /\ board' = [board EXCEPT ![c] = b]
                      /\ index' = Attach(index, c, Entry(index, b))
  /\ UNCHANGED object

RemoveCanvas(c) ==
  /\ index.boards[c] # Nothing
  /\ board' = [board EXCEPT ![c] = Nothing] /\ index' = Attach(index, c, Nothing)
  /\ UNCHANGED object

\* A write of one note that stopped between its object and the index, and the load after it.
Interrupted(n) ==
  /\ \E doc \in Doc \cup {Nothing} :
       /\ doc # Nothing => PathFree(n, doc)
       /\ object' = [object EXCEPT ![n] = doc]
       /\ index' = RecoverNote(index, n, doc)
  /\ UNCHANGED board

IndexNext ==
  \/ \E n \in Note : PutNote(n) \/ RemoveNote(n) \/ Interrupted(n)
  \/ \E c \in Canvas : PutCanvas(c) \/ RemoveCanvas(c)

IndexSpec == IndexInit /\ [][IndexNext]_indexVars
----------------------------------------------------------------------------
(* Properties. *)

\* After any writes, removals and repairs the maps are those a rebuild would make: no
\* resolved link, backlink, open link or board is stale because a note took, left or made
\* ambiguous a label somebody else links to.
IndexMatchesRebuild == index = Derived
============================================================================
