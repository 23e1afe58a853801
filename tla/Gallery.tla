------------------------------ MODULE Gallery ------------------------------
(* The gallery page of the dashboard (Snapshot.jsx): the list of one       *)
(* gallery, which is a tab of a module, the ticks of its selection mode,   *)
(* and the deletion of one file or of all ticked ones, one request after   *)
(* the other.                                                              *)
EXTENDS Naturals, Sequences, FiniteSetsExt, SequencesExt

CONSTANTS
  Galleries,    \* tabs of modules
  NoGallery,    \* the detections while no module is selected
  Files, GalleryOf,
  NoFile,
  Loads         \* bound: loads in flight

GalleryAssumption ==
  /\ NoGallery \notin Galleries /\ NoFile \notin Files
  /\ IsFiniteSet(Files) /\ GalleryOf \in [Files -> Galleries]

VARIABLES
  gallery, items, loading,     \* the list
  selectMode, selected,        \* the ticks
  preview, deleting,           \* the lightbox, a single deletion
  bulk, bulkOf,                \* files still to delete, and the gallery at
                               \* the time of the question
  loads, files,                \* requests in flight, the Stream Service
  ticked, late                 \* history, see the properties

list == <<items, loading, loads, late>>
ticks == <<selectMode, selected, ticked>>
deletions == <<preview, deleting, bulk, bulkOf>>
galleryVars == <<gallery, list, ticks, deletions, files>>

Places == Galleries \cup {NoGallery}
Quiet == [of |-> NoGallery, passed |-> FALSE]
NoDelete == [file |-> NoFile, of |-> NoGallery]

TypeOK ==
  /\ gallery \in Places /\ bulkOf \in Places
  /\ items \subseteq Files /\ files \subseteq Files
  /\ selected \subseteq Files /\ ticked \subseteq Files
  /\ preview \in Files \cup {NoFile}
  /\ deleting \in [file : Files \cup {NoFile}, of : Places]
  /\ bulk \in Seq(Files)
  /\ loading \in BOOLEAN /\ selectMode \in BOOLEAN /\ late \in BOOLEAN
  /\ loads \in [Loads -> [of : Places, passed : BOOLEAN]]

Init ==
  /\ gallery = NoGallery /\ items = {} /\ loading = FALSE
  /\ selectMode = FALSE /\ selected = {} /\ ticked = {}
  /\ preview = NoFile /\ deleting = NoDelete
  /\ bulk = <<>> /\ bulkOf = NoGallery
  /\ loads = [k \in Loads |-> Quiet]
  /\ files = Files
  /\ late = FALSE

-----------------------------------------------------------------------------
(* The list. *)

\* Without a module there are no detections to ask for.
StartLoad(g) ==
  IF g = NoGallery
  THEN /\ items' = {} /\ loading' = FALSE /\ late' = (g # gallery')
       /\ loads' = [k \in Loads |-> [loads[k] EXCEPT !.passed = loads[k] # Quiet]]
  ELSE /\ \E k \in Loads :
            /\ loads[k] = Quiet
            /\ loads' = [j \in Loads |->
                           IF j = k THEN [Quiet EXCEPT !.of = g]
                           ELSE [loads[j] EXCEPT !.passed = loads[j] # Quiet]]
       /\ loading' = TRUE
       /\ UNCHANGED <<items, late>>

\* Mutant: another gallery, with the ticks of the one before.
ChooseOnly(g) ==
  /\ g # gallery
  /\ gallery' = g
  /\ ticked' = {}
  /\ StartLoad(g)
  /\ UNCHANGED <<selected, selectMode, deletions, files>>

\* Another tab or another module: the ticks are cleared, the list is loaded.
Choose(g) ==
  /\ g # gallery
  /\ gallery' = g
  /\ selected' = {} /\ ticked' = {}
  /\ StartLoad(g)
  /\ UNCHANGED <<selectMode, deletions, files>>

Refresh ==
  /\ gallery' = gallery
  /\ StartLoad(gallery)
  /\ UNCHANGED <<ticks, deletions, files>>

\* Whatever is chosen by now, the list is shown; an error shows none.
ListArrives(k) ==
  /\ loads[k] # Quiet
  /\ items' \in {{f \in files : GalleryOf[f] = loads[k].of}, {}}
  /\ late' = (loads[k].passed \/ loads[k].of # gallery)
  /\ loading' = FALSE
  /\ loads' = [loads EXCEPT ![k] = Quiet]
  /\ UNCHANGED <<gallery, ticks, deletions, files>>

-----------------------------------------------------------------------------
(* Ticks and the lightbox. *)

Shown(f) == ~loading /\ f \in items

ToggleSelect(f) ==
  /\ selectMode /\ Shown(f)
  /\ selected' = (IF f \in selected THEN selected \ {f} ELSE selected \cup {f})
  /\ ticked' = ticked \cup {f}
  /\ UNCHANGED <<gallery, list, selectMode, deletions, files>>

ToggleSelectMode ==
  /\ selectMode' = ~selectMode
  /\ selected' = {} /\ ticked' = {}
  /\ UNCHANGED <<gallery, list, deletions, files>>

OpenPreview(f) ==
  /\ ~selectMode /\ Shown(f)
  /\ preview' = f
  /\ UNCHANGED <<gallery, list, ticks, deleting, bulk, bulkOf, files>>

ClosePreview ==
  /\ preview' = NoFile
  /\ UNCHANGED <<gallery, list, ticks, deleting, bulk, bulkOf, files>>

-----------------------------------------------------------------------------
(* Deleting. *)

PressDelete(f) ==
  /\ deleting = NoDelete     \* bound: one at a time
  /\ (~selectMode /\ Shown(f)) \/ preview = f
  /\ deleting' = [file |-> f, of |-> gallery]
  /\ UNCHANGED <<gallery, list, ticks, preview, bulk, bulkOf, files>>

\* The lightbox closes and the list is loaded, of the gallery that was
\* chosen when the button was pressed.
DeleteOk ==
  /\ deleting.file \in files
  /\ files' = files \ {deleting.file}
  /\ deleting' = NoDelete /\ preview' = NoFile
  /\ gallery' = gallery
  /\ StartLoad(deleting.of)
  /\ UNCHANGED <<ticks, bulk, bulkOf>>

\* The file is gone already, or the answer is an error or lost.
DeleteFails ==
  /\ deleting # NoDelete
  /\ files' \in {files, files \ {deleting.file}}
  /\ deleting' = NoDelete
  /\ UNCHANGED <<gallery, list, ticks, preview, bulk, bulkOf>>

\* The ticked files of the list, in its order.
PressDeleteSelected ==
  /\ selectMode /\ bulk = <<>>
  /\ items \cap selected # {}
  /\ bulk' = SetToSeq(items \cap selected)
  /\ bulkOf' = gallery
  /\ UNCHANGED <<gallery, list, ticks, preview, deleting, files>>

\* After the last one the ticks are cleared and the list is loaded.
BulkDeletes ==
  /\ bulk # <<>> /\ Head(bulk) \in files
  /\ files' = files \ {Head(bulk)}
  /\ bulk' = Tail(bulk)
  /\ IF Len(bulk) > 1 THEN UNCHANGED <<gallery, list, ticks, bulkOf>>
     ELSE /\ selectMode' = FALSE /\ selected' = {} /\ ticked' = {}
          /\ bulkOf' = NoGallery
          /\ gallery' = gallery
          /\ StartLoad(bulkOf)
  /\ UNCHANGED <<preview, deleting>>

\* The first failure ends it; the list and the ticks stay.
BulkFails ==
  /\ bulk # <<>>
  /\ files' \in {files, files \ {Head(bulk)}}
  /\ bulk' = <<>> /\ bulkOf' = NoGallery
  /\ UNCHANGED <<gallery, list, ticks, preview, deleting>>

-----------------------------------------------------------------------------
Next ==
  \/ \E g \in Places : Choose(g)
  \/ Refresh \/ \E k \in Loads : ListArrives(k)
  \/ ToggleSelectMode \/ ClosePreview
  \/ \E f \in Files : ToggleSelect(f) \/ OpenPreview(f) \/ PressDelete(f)
  \/ DeleteOk \/ DeleteFails
  \/ PressDeleteSelected \/ BulkDeletes \/ BulkFails

Spec == Init /\ [][Next]_galleryVars

-----------------------------------------------------------------------------
(* Properties. *)

\* A bulk deletion takes only files that the user has ticked since the
\* gallery was chosen and the selection begun, and takes them from one
\* gallery unless an answer came late (Snapshot.jsx:267-270, 294).
BulkTakesTheTicked ==
  (bulk = <<>> /\ bulk' # <<>>) =>
    /\ ToSet(bulk') \subseteq ticked
    /\ late \/ \A f \in ToSet(bulk') : GalleryOf[f] = gallery

\* What makes it inductive: what is selected was ticked, and what can be
\* deleted, now or once the list is there, is of the gallery.
Deletable == {f \in items : f \in selected \/ ~loading}
OwnFiles ==
  /\ selected \subseteq ticked
  /\ late \/ \A f \in Deletable : GalleryOf[f] = gallery
PicturesInv == TypeOK /\ OwnFiles
=============================================================================
