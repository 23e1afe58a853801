-------------------------- MODULE WebPagesProofs ----------------------------
(* Theorems about the other pages and about all of them together.          *)
EXTENDS ControlPanelProofs, MonitoringPagesProofs, NodePagesProofs

-----------------------------------------------------------------------------
(* The gallery.                                                            *)
(* Here s1 is gallery, s2 items, s3 loading, s4 selectMode, s5 selected,   *)
(* s6 preview, s7 deleting, s8 bulk, s9 bulkOf, s10 loads, s11 files, s12  *)
(* ticked, s13 late.                                                       *)

\* The instance means the same operators.
LEMMA PicturesMeans ==
  /\ \A S : Pictures!SetToSeq(S) = SetToSeq(S)
  /\ \A q : Pictures!ToSet(q) = ToSet(q)
  /\ \A S : Pictures!IsFiniteSet(S) = IsFiniteSet(S)
  <1>1. \A S : Pictures!SetToSeq(S) = SetToSeq(S)
    BY Zenon
    DEF Pictures!SetToSeq, SetToSeq, Pictures!IsInjective, IsInjective,
        Pictures!Cardinality, Cardinality, Pictures!IsFiniteSet, IsFiniteSet
  <1>2. \A q : Pictures!ToSet(q) = ToSet(q)
    BY Zenon DEF Pictures!ToSet, ToSet
  <1>3. \A S : Pictures!IsFiniteSet(S) = IsFiniteSet(S)
    BY Zenon DEF Pictures!IsFiniteSet, IsFiniteSet
  <1> QED BY <1>1, <1>2, <1>3

\* The page starts with no module and no files.
LEMMA PicturesInit ==
  ASSUME Pictures!GalleryAssumption, Pictures!Init
  PROVE  Pictures!PicturesInv
  <1>1. Pictures!Quiet \in [of : Pictures!Places, passed : BOOLEAN]
    BY DEF Pictures!Quiet, Pictures!Places
  <1>2. Pictures!NoDelete \in [file : Files \cup {None}, of : Pictures!Places]
    BY DEF Pictures!NoDelete, Pictures!Places
  <1>3. /\ s10 \in [Chains -> [of : Pictures!Places, passed : BOOLEAN]]
        /\ s7 \in [file : Files \cup {None}, of : Pictures!Places]
    BY <1>1, <1>2 DEF Pictures!Init
  <1>4. /\ s3 \in BOOLEAN /\ s4 \in BOOLEAN /\ s13 \in BOOLEAN
        /\ s1 \in Pictures!Places /\ s9 \in Pictures!Places /\ s8 \in Seq(Files)
    <2>1. /\ s3 = FALSE /\ s4 = FALSE /\ s13 = FALSE
          /\ s1 = None /\ s9 = None /\ s8 = <<>>
      BY DEF Pictures!Init
    <2>2. s3 \in BOOLEAN /\ s4 \in BOOLEAN /\ s13 \in BOOLEAN
      BY <2>1
    <2> QED BY <2>1, <2>2 DEF Pictures!Places
  <1>5. Pictures!TypeOK
    BY <1>3, <1>4 DEF Pictures!Init, Pictures!TypeOK
  <1>6. Pictures!OwnFiles
    BY DEF Pictures!Init, Pictures!OwnFiles, Pictures!Deletable
  <1> QED BY <1>5, <1>6 DEF Pictures!PicturesInv

\* A load of a gallery: it shows nothing yet, or nothing at all.
LEMMA PicturesLoadStarts ==
  ASSUME Pictures!TypeOK, NEW g \in Pictures!Places, Pictures!StartLoad(g)
  PROVE  /\ s2' \subseteq Files /\ s3' \in BOOLEAN /\ s13' \in BOOLEAN
         /\ s10' \in [Chains -> [of : Pictures!Places, passed : BOOLEAN]]
         /\ \/ s2' = {}
            \/ UNCHANGED <<s2, s13>> /\ s3' = TRUE
  <1>1. /\ s10 \in [Chains -> [of : Pictures!Places, passed : BOOLEAN]]
        /\ s2 \subseteq Files /\ s13 \in BOOLEAN
    BY DEF Pictures!TypeOK
  <1> DEFINE Passed(k) == [s10[k] EXCEPT !.passed = s10[k] # Pictures!Quiet]
  <1>2. \A k \in Chains : Passed(k) \in [of : Pictures!Places, passed : BOOLEAN]
    <2>1. \A k \in Chains : (s10[k] # Pictures!Quiet) \in BOOLEAN
      OBVIOUS
    <2> QED BY <1>1, <2>1
  <1>3. [Pictures!Quiet EXCEPT !.of = g]
          \in [of : Pictures!Places, passed : BOOLEAN]
    BY DEF Pictures!Quiet
  <1>4. CASE g = None
    <2>1. s2' = {} /\ s10' = [k \in Chains |-> Passed(k)]
      BY <1>4 DEF Pictures!StartLoad
    <2>2. s3' \in BOOLEAN /\ s13' \in BOOLEAN
      <3>1. s3' = FALSE /\ s13' = (g # s1')
        BY <1>4 DEF Pictures!StartLoad
      <3> QED BY <3>1
    <2>3. s10' \in [Chains -> [of : Pictures!Places, passed : BOOLEAN]]
      BY <1>2, <2>1
    <2> QED BY <2>1, <2>2, <2>3
  <1>5. CASE g # None
    <2>1. PICK k \in Chains :
            s10' = [j \in Chains |->
                      IF j = k THEN [Pictures!Quiet EXCEPT !.of = g]
                               ELSE Passed(j)]
      BY <1>5 DEF Pictures!StartLoad
    <2>2. s3' = TRUE /\ UNCHANGED <<s2, s13>>
      BY <1>5 DEF Pictures!StartLoad
    <2> HIDE DEF Passed
    <2>3. s10' \in [Chains -> [of : Pictures!Places, passed : BOOLEAN]]
      BY <1>2, <1>3, <2>1
    <2> QED BY <1>1, <2>2, <2>3
  <1> QED BY <1>4, <1>5

\* The list of the page: another gallery, a load, an answer.
LEMMA PicturesListKeeps ==
  ASSUME Pictures!GalleryAssumption, Pictures!PicturesInv,
         \/ \E g \in Pictures!Places : Pictures!Choose(g)
         \/ Pictures!Refresh \/ \E k \in Chains : Pictures!ListArrives(k)
  PROVE  Pictures!PicturesInv'
  <1>1. ASSUME NEW g \in Pictures!Places, Pictures!Choose(g)
        PROVE  Pictures!PicturesInv'
    <2>1. /\ s1' = g /\ s5' = {} /\ s12' = {} /\ Pictures!StartLoad(g)
          /\ UNCHANGED <<s4, Pictures!deletions, s11>>
      BY <1>1 DEF Pictures!Choose
    <2>2. /\ s2' \subseteq Files /\ s3' \in BOOLEAN /\ s13' \in BOOLEAN
          /\ s10' \in [Chains -> [of : Pictures!Places, passed : BOOLEAN]]
          /\ \/ s2' = {}
             \/ UNCHANGED <<s2, s13>> /\ s3' = TRUE
      BY <2>1, PicturesLoadStarts DEF Pictures!PicturesInv
    <2>3. Pictures!TypeOK'
      BY <2>1, <2>2
      DEF Pictures!PicturesInv, Pictures!TypeOK, Pictures!deletions
    <2>4. Pictures!OwnFiles'
      BY <2>1, <2>2 DEF Pictures!OwnFiles, Pictures!Deletable
    <2> QED BY <2>3, <2>4 DEF Pictures!PicturesInv
  <1>2. CASE Pictures!Refresh
    <2>1. /\ s1' = s1 /\ Pictures!StartLoad(s1) /\ s1 \in Pictures!Places
          /\ UNCHANGED <<Pictures!ticks, Pictures!deletions, s11>>
      BY <1>2 DEF Pictures!Refresh, Pictures!PicturesInv, Pictures!TypeOK
    <2>2. /\ s2' \subseteq Files /\ s3' \in BOOLEAN /\ s13' \in BOOLEAN
          /\ s10' \in [Chains -> [of : Pictures!Places, passed : BOOLEAN]]
          /\ \/ s2' = {}
             \/ UNCHANGED <<s2, s13>> /\ s3' = TRUE
      BY <2>1, PicturesLoadStarts DEF Pictures!PicturesInv
    <2>3. Pictures!TypeOK'
      BY <2>1, <2>2
      DEF Pictures!PicturesInv, Pictures!TypeOK, Pictures!ticks,
          Pictures!deletions
    <2>4. Pictures!OwnFiles'
      BY <2>1, <2>2
      DEF Pictures!PicturesInv, Pictures!OwnFiles, Pictures!Deletable,
          Pictures!ticks
    <2> QED BY <2>3, <2>4 DEF Pictures!PicturesInv
  <1>3. ASSUME NEW k \in Chains, Pictures!ListArrives(k)
        PROVE  Pictures!PicturesInv'
    <2>1. /\ s2' \in {{f \in s11 : GalleryOf[f] = s10[k].of}, {}}
          /\ s13' = (s10[k].passed \/ s10[k].of # s1)
          /\ s3' = FALSE /\ s10' = [s10 EXCEPT ![k] = Pictures!Quiet]
          /\ UNCHANGED <<s1, Pictures!ticks, Pictures!deletions, s11>>
      BY <1>3 DEF Pictures!ListArrives
    <2>2. /\ s10 \in [Chains -> [of : Pictures!Places, passed : BOOLEAN]]
          /\ s11 \subseteq Files
      BY DEF Pictures!PicturesInv, Pictures!TypeOK
    <2>3. Pictures!Quiet \in [of : Pictures!Places, passed : BOOLEAN]
      BY DEF Pictures!Quiet, Pictures!Places
    <2>4. s10' \in [Chains -> [of : Pictures!Places, passed : BOOLEAN]]
      BY <2>1, <2>2, <2>3
    <2>5. s3' \in BOOLEAN /\ s13' \in BOOLEAN
      BY <2>1
    <2>6. s2' \subseteq Files
      BY <2>1, <2>2
    <2>7. Pictures!TypeOK'
      BY <2>1, <2>4, <2>5, <2>6
      DEF Pictures!PicturesInv, Pictures!TypeOK, Pictures!ticks,
          Pictures!deletions
    <2>8. s13' \/ \A f \in s2' : GalleryOf[f] = s1'
      BY <2>1
    <2>9. Pictures!OwnFiles'
      BY <2>1, <2>8
      DEF Pictures!PicturesInv, Pictures!OwnFiles, Pictures!Deletable,
          Pictures!ticks
    <2> QED BY <2>7, <2>9 DEF Pictures!PicturesInv
  <1> QED BY <1>1, <1>2, <1>3

\* The ticks of the selection, and the lightbox.
LEMMA TicksKeep ==
  ASSUME Pictures!GalleryAssumption, Pictures!PicturesInv,
         \/ Pictures!ToggleSelectMode \/ Pictures!ClosePreview
         \/ \E f \in Files : \/ Pictures!ToggleSelect(f)
                             \/ Pictures!OpenPreview(f)
                             \/ Pictures!PressDelete(f)
  PROVE  Pictures!PicturesInv'
  <1>1. CASE Pictures!ToggleSelectMode
    <2>1. /\ s4' = ~s4 /\ s5' = {} /\ s12' = {}
          /\ UNCHANGED <<s1, Pictures!list, Pictures!deletions, s11>>
      BY <1>1 DEF Pictures!ToggleSelectMode
    <2>2. s4' \in BOOLEAN
      BY <2>1
    <2>3. Pictures!TypeOK'
      BY <2>1, <2>2
      DEF Pictures!PicturesInv, Pictures!TypeOK, Pictures!list,
          Pictures!deletions
    <2>4. Pictures!OwnFiles'
      BY <2>1
      DEF Pictures!PicturesInv, Pictures!OwnFiles, Pictures!Deletable,
          Pictures!list
    <2> QED BY <2>3, <2>4 DEF Pictures!PicturesInv
  <1>2. ASSUME NEW f \in Files, Pictures!ToggleSelect(f)
        PROVE  Pictures!PicturesInv'
    <2>1. /\ ~s3 /\ f \in s2
          /\ s5' = IF f \in s5 THEN s5 \ {f}
                   ELSE s5 \cup {f}
          /\ s12' = s12 \cup {f}
          /\ UNCHANGED <<s1, Pictures!list, s4, Pictures!deletions, s11>>
      BY <1>2 DEF Pictures!ToggleSelect, Pictures!Shown
    <2>2. s5' \subseteq s5 \cup {f}
      BY <2>1
    <2>3. Pictures!TypeOK'
      BY <2>1, <2>2
      DEF Pictures!PicturesInv, Pictures!TypeOK, Pictures!list,
          Pictures!deletions
    <2>4. Pictures!OwnFiles'
      BY <2>1, <2>2
      DEF Pictures!PicturesInv, Pictures!OwnFiles, Pictures!Deletable,
          Pictures!list
    <2> QED BY <2>3, <2>4 DEF Pictures!PicturesInv
  <1>3. CASE Pictures!ClosePreview \/ \E f \in Files : Pictures!OpenPreview(f)
    BY <1>3
    DEF Pictures!ClosePreview, Pictures!OpenPreview, Pictures!PicturesInv,
        Pictures!TypeOK, Pictures!OwnFiles, Pictures!Deletable, Pictures!list,
        Pictures!ticks
  <1>4. ASSUME NEW f \in Files, Pictures!PressDelete(f)
        PROVE  Pictures!PicturesInv'
    BY <1>4
    DEF Pictures!PressDelete, Pictures!PicturesInv, Pictures!TypeOK,
        Pictures!OwnFiles, Pictures!Deletable, Pictures!list, Pictures!ticks
  <1> QED BY <1>1, <1>2, <1>3, <1>4

\* The deletion of one file.
LEMMA DeleteKeeps ==
  ASSUME Pictures!GalleryAssumption, Pictures!PicturesInv,
         Pictures!DeleteOk \/ Pictures!DeleteFails
  PROVE  Pictures!PicturesInv'
  <1>0. /\ Pictures!NoDelete
             \in [file : Files \cup {None}, of : Pictures!Places]
        /\ s7 \in [file : Files \cup {None}, of : Pictures!Places]
        /\ s11 \subseteq Files
    BY DEF Pictures!NoDelete, Pictures!Places, Pictures!PicturesInv,
           Pictures!TypeOK
  <1>1. CASE Pictures!DeleteOk
    <2>1. /\ s11' = s11 \ {s7.file} /\ s7' = Pictures!NoDelete
          /\ s6' = None /\ s1' = s1 /\ Pictures!StartLoad(s7.of)
          /\ UNCHANGED <<Pictures!ticks, s8, s9>>
      BY <1>1 DEF Pictures!DeleteOk
    <2>2. s7.of \in Pictures!Places
      BY <1>0
    <2>3. /\ s2' \subseteq Files /\ s3' \in BOOLEAN /\ s13' \in BOOLEAN
          /\ s10' \in [Chains -> [of : Pictures!Places, passed : BOOLEAN]]
          /\ \/ s2' = {}
             \/ UNCHANGED <<s2, s13>> /\ s3' = TRUE
      BY <2>1, <2>2, PicturesLoadStarts DEF Pictures!PicturesInv
    <2>4. Pictures!TypeOK'
      BY <1>0, <2>1, <2>3
      DEF Pictures!PicturesInv, Pictures!TypeOK, Pictures!ticks
    <2>5. Pictures!OwnFiles'
      BY <2>1, <2>3
      DEF Pictures!PicturesInv, Pictures!OwnFiles, Pictures!Deletable,
          Pictures!ticks
    <2> QED BY <2>4, <2>5 DEF Pictures!PicturesInv
  <1>2. CASE Pictures!DeleteFails
    <2>1. /\ s11' \in {s11, s11 \ {s7.file}} /\ s7' = Pictures!NoDelete
          /\ UNCHANGED <<s1, Pictures!list, Pictures!ticks, s6, s8, s9>>
      BY <1>2 DEF Pictures!DeleteFails
    <2>2. Pictures!TypeOK'
      BY <1>0, <2>1
      DEF Pictures!PicturesInv, Pictures!TypeOK, Pictures!list, Pictures!ticks
    <2>3. Pictures!OwnFiles'
      BY <2>1
      DEF Pictures!PicturesInv, Pictures!OwnFiles, Pictures!Deletable,
          Pictures!list, Pictures!ticks
    <2> QED BY <2>2, <2>3 DEF Pictures!PicturesInv
  <1> QED BY <1>1, <1>2

\* The deletion of the ticked files.
LEMMA BulkKeeps ==
  ASSUME Pictures!GalleryAssumption, Pictures!PicturesInv,
         \/ Pictures!PressDeleteSelected
         \/ Pictures!BulkDeletes
         \/ Pictures!BulkFails
  PROVE  Pictures!PicturesInv'
  <1>1. CASE Pictures!PressDeleteSelected
    <2>1. /\ s8' = SetToSeq(s2 \cap s5) /\ s9' = s1
          /\ UNCHANGED <<s1, Pictures!list, Pictures!ticks, s6, s7, s11>>
      BY <1>1, PicturesMeans DEF Pictures!PressDeleteSelected
    <2>2. s2 \cap s5 \in SUBSET Files /\ IsFiniteSet(Files)
      BY PicturesMeans
      DEF Pictures!PicturesInv, Pictures!TypeOK, Pictures!GalleryAssumption
    <2>3. s8' \in Seq(Files)
      <3>1. IsFiniteSet(s2 \cap s5)
        BY <2>2, FS_Subset
      <3>2. s8' \in Seq(s2 \cap s5)
        BY <2>1, <3>1, Sequenced
      <3> QED BY <2>2, <3>2
    <2>4. Pictures!TypeOK'
      BY <2>1, <2>3
      DEF Pictures!PicturesInv, Pictures!TypeOK, Pictures!list, Pictures!ticks
    <2>5. Pictures!OwnFiles'
      BY <2>1
      DEF Pictures!PicturesInv, Pictures!OwnFiles, Pictures!Deletable,
          Pictures!list, Pictures!ticks
    <2> QED BY <2>4, <2>5 DEF Pictures!PicturesInv
  <1>2. CASE Pictures!BulkDeletes
    <2>1. /\ s8 # <<>> /\ s11' = s11 \ {Head(s8)} /\ s8' = Tail(s8)
          /\ UNCHANGED <<s6, s7>>
          /\ s8 \in Seq(Files) /\ s9 \in Pictures!Places /\ s11 \subseteq Files
      BY <1>2 DEF Pictures!BulkDeletes, Pictures!PicturesInv, Pictures!TypeOK
    <2>2. s8' \in Seq(Files) /\ s11' \subseteq Files
      BY <2>1
    <2>3. CASE Len(s8) > 1
      <3>1. UNCHANGED <<s1, Pictures!list, Pictures!ticks, s9>>
        BY <1>2, <2>3 DEF Pictures!BulkDeletes
      <3>2. Pictures!TypeOK'
        BY <2>1, <2>2, <3>1
        DEF Pictures!PicturesInv, Pictures!TypeOK, Pictures!list,
            Pictures!ticks
      <3>3. Pictures!OwnFiles'
        BY <3>1
        DEF Pictures!PicturesInv, Pictures!OwnFiles, Pictures!Deletable,
            Pictures!list, Pictures!ticks
      <3> QED BY <3>2, <3>3 DEF Pictures!PicturesInv
    <2>4. CASE ~(Len(s8) > 1)
      <3>1. /\ s4' = FALSE /\ s5' = {} /\ s12' = {}
            /\ s9' = None /\ s1' = s1 /\ Pictures!StartLoad(s9)
        BY <1>2, <2>4 DEF Pictures!BulkDeletes
      <3>2. /\ s2' \subseteq Files /\ s3' \in BOOLEAN
            /\ s13' \in BOOLEAN
            /\ s10' \in [Chains -> [of : Pictures!Places, passed : BOOLEAN]]
            /\ \/ s2' = {}
               \/ UNCHANGED <<s2, s13>> /\ s3' = TRUE
        BY <2>1, <3>1, PicturesLoadStarts DEF Pictures!PicturesInv
      <3>3. s4' \in BOOLEAN /\ None \in Pictures!Places
        BY <3>1 DEF Pictures!Places
      <3>4. Pictures!TypeOK'
        BY <2>1, <2>2, <3>1, <3>2, <3>3
        DEF Pictures!PicturesInv, Pictures!TypeOK
      <3>5. Pictures!OwnFiles'
        BY <3>1, <3>2
        DEF Pictures!PicturesInv, Pictures!OwnFiles, Pictures!Deletable
      <3> QED BY <3>4, <3>5 DEF Pictures!PicturesInv
    <2> QED BY <2>3, <2>4
  <1>3. CASE Pictures!BulkFails
    <2>1. /\ s11' \in {s11, s11 \ {Head(s8)}} /\ s8' = <<>>
          /\ s9' = None
          /\ UNCHANGED <<s1, Pictures!list, Pictures!ticks, s6, s7>>
      BY <1>3 DEF Pictures!BulkFails
    <2>2. s8' \in Seq(Files) /\ s9' \in Pictures!Places /\ s11' \subseteq Files
      BY <2>1 DEF Pictures!Places, Pictures!PicturesInv, Pictures!TypeOK
    <2>3. Pictures!TypeOK'
      BY <2>1, <2>2
      DEF Pictures!PicturesInv, Pictures!TypeOK, Pictures!list, Pictures!ticks
    <2>4. Pictures!OwnFiles'
      BY <2>1
      DEF Pictures!PicturesInv, Pictures!OwnFiles, Pictures!Deletable,
          Pictures!list, Pictures!ticks
    <2> QED BY <2>3, <2>4 DEF Pictures!PicturesInv
  <1> QED BY <1>1, <1>2, <1>3

\* Every step keeps the invariant.
LEMMA PicturesStep ==
  ASSUME Pictures!GalleryAssumption, Pictures!PicturesInv,
         [Pictures!Next]_(Pictures!galleryVars)
  PROVE  Pictures!PicturesInv'
  <1>1. CASE UNCHANGED Pictures!galleryVars
    BY <1>1
    DEF Pictures!galleryVars, Pictures!list, Pictures!ticks,
        Pictures!deletions, Pictures!PicturesInv, Pictures!TypeOK,
        Pictures!OwnFiles, Pictures!Deletable
  <1>2. CASE Pictures!Next
    BY <1>2, PicturesListKeeps, TicksKeep, DeleteKeeps, BulkKeeps
    DEF Pictures!Next
  <1> QED BY <1>1, <1>2

\* Only the button of the selection begins a deletion of many files, of those
\* that it selects.
LEMMA PicturesFacts ==
  ASSUME Pictures!GalleryAssumption, Pictures!PicturesInv,
         [Pictures!Next]_(Pictures!galleryVars)
  PROVE  Pictures!BulkTakesTheTicked
  <1>1. SUFFICES ASSUME s8 = <<>>, s8' # <<>>
                 PROVE  /\ ToSet(s8') \subseteq s12
                        /\ s13 \/ \A f \in ToSet(s8') : GalleryOf[f] = s1
    BY PicturesMeans DEF Pictures!BulkTakesTheTicked
  <1>2. Pictures!PressDeleteSelected
    BY <1>1
    DEF Pictures!Next, Pictures!galleryVars, Pictures!deletions,
        Pictures!Choose, Pictures!Refresh, Pictures!ListArrives,
        Pictures!ToggleSelectMode, Pictures!ClosePreview,
        Pictures!ToggleSelect, Pictures!OpenPreview, Pictures!PressDelete,
        Pictures!DeleteOk, Pictures!DeleteFails, Pictures!BulkDeletes,
        Pictures!BulkFails
  <1>3. s8' = SetToSeq(s2 \cap s5)
    BY <1>2, PicturesMeans DEF Pictures!PressDeleteSelected
  <1>4. IsFiniteSet(s2 \cap s5)
    <2>1. s2 \cap s5 \in SUBSET Files /\ IsFiniteSet(Files)
      BY PicturesMeans
      DEF Pictures!PicturesInv, Pictures!TypeOK, Pictures!GalleryAssumption
    <2> QED BY <2>1, FS_Subset
  <1>5. ToSet(s8') \subseteq s2 \cap s5
    BY <1>3, <1>4, Sequenced
  <1> QED BY <1>5
          DEF Pictures!PicturesInv, Pictures!OwnFiles, Pictures!Deletable

\* The invariant of the gallery holds in every behaviour.
THEOREM GalleryInvariant ==
  PagesSpec => [](view = "gallery" => Pictures!PicturesInv)
  <1> DEFINE Inv == view = "gallery" => Pictures!PicturesInv
  <1>0. PagesInit => Inv
    BY PicturesInit, PagesAssumption DEF PagesInit, PagesAssumption
  <1>1. ASSUME Inv, [PagesNext]_pagesVars
        PROVE  Inv'
    <2>1. view' = view
      BY <1>1 DEF PagesNext, pagesVars
    <2>2. view = "gallery" => [Pictures!Next]_(Pictures!galleryVars)
      BY <1>1
      DEF PagesNext, Step, pagesVars, shared, analytics, Pictures!galleryVars,
          Pictures!list, Pictures!ticks, Pictures!deletions
    <2> QED BY <1>1, <2>1, <2>2, PicturesStep, PagesAssumption
            DEF PagesAssumption
  <1> QED BY <1>0, <1>1, PTL DEF PagesSpec

\* For any files, galleries and number of loads: a bulk deletion takes only
\* files that were ticked since the gallery was chosen and the selection
\* begun, all of that gallery unless an answer came late
\* (Snapshot.jsx:267-270, 294).
THEOREM BulkDeletesTheTicked == PagesSpec => BulkTakesTheTicked
  <1>1. ASSUME view = "gallery" => Pictures!PicturesInv, [PagesNext]_pagesVars
        PROVE  view = "gallery" => Pictures!BulkTakesTheTicked
    <2>1. view = "gallery" => [Pictures!Next]_(Pictures!galleryVars)
      BY <1>1
      DEF PagesNext, Step, pagesVars, shared, analytics, Pictures!galleryVars,
          Pictures!list, Pictures!ticks, Pictures!deletions
    <2> QED BY <1>1, <2>1, PicturesFacts, PagesAssumption DEF PagesAssumption
  <1> QED BY <1>1, GalleryInvariant, PTL DEF PagesSpec, BulkTakesTheTicked

-----------------------------------------------------------------------------
(* The export page.                                                        *)
(* Here s1 is module, s2 listed, s3 tab, s4 node, s5 offset, s6 total, s7  *)
(* flight, s8 loading.                                                     *)

\* Of two places of which one is two pages further, the page is too.
LEMMA TwoPages ==
  ASSUME NEW a \in Nat, NEW b \in Nat, NEW L \in Nat \ {0}, a + 2 * L <= b
  PROVE  (a \div L) + 2 <= b \div L
  <1> DEFINE p == a \div L
             q == b \div L
  <1>1. /\ p \in Int /\ L * p <= a /\ a < L * p + L
    OBVIOUS
  <1>2. /\ q \in Int /\ L * q <= b /\ b < L * q + L
    OBVIOUS
  <1> HIDE DEF p, q
  <1>3. L * p + L < L * q
    BY <1>1, <1>2
  <1>4. ASSUME q <= p + 1
        PROVE  L * q <= L * p + L
    BY <1>1, <1>2, <1>4
  <1>5. p + 2 <= q
    BY <1>1, <1>2, <1>3, <1>4
  <1> QED BY <1>5 DEF p, q

\* Every step keeps the types.
LEMMA ExportStep ==
  ASSUME Export!ExportAssumption, Export!TypeOK,
         [Export!Next]_(Export!exportVars)
  PROVE  Export!TypeOK'
  <1> USE DEF Export!ExportAssumption, Export!TypeOK
  <1>1. CASE UNCHANGED Export!exportVars
    BY <1>1 DEF Export!exportVars
  <1>2. CASE Export!NodesArrive
    BY <1>2 DEF Export!NodesArrive, Export!Sync, Export!Ask
  <1>3. CASE \E m \in Modules : Export!SelectModule(m)
    BY <1>3 DEF Export!SelectModule, Export!Sync, Export!Ask
  <1>4. CASE \E n \in Nodes \cup {None} : Export!SetFilter(n)
    BY <1>4 DEF Export!SetFilter, Export!Ask
  <1>5. CASE Export!SetOther
    BY <1>5 DEF Export!SetOther, Export!Ask
  <1>6. CASE \E t \in {"telemetry", "nodes"} : Export!SetTab(t)
    BY <1>6 DEF Export!SetTab, Export!Ask
  <1>7. CASE Export!PreviewArrives \/ Export!DownloadEnds
    <2>1. s8' \in BOOLEAN
      BY <1>7 DEF Export!PreviewArrives, Export!DownloadEnds
    <2>2. /\ s7 > 0 /\ s7' = s7 - 1 /\ s6' \in 0..MaxTotal
          /\ UNCHANGED <<s1, s2, s3, s4, s5>>
      BY <1>7 DEF Export!PreviewArrives, Export!DownloadEnds
    <2> QED BY <2>1, <2>2
  <1>8. CASE Export!Download
    BY <1>8 DEF Export!Download, Export!Ask
  <1>9. CASE Export!GoNext
    <2>1. s8' \in BOOLEAN /\ s7' \in 0..MaxPageLoads
      <3>1. \/ s8' = s8 /\ s7' = s7
            \/ s8' = TRUE /\ s7' = s7 + 1 /\ s7 < MaxPageLoads
        BY <1>9 DEF Export!GoNext, Export!Ask
      <3>2. s8' \in BOOLEAN
        BY <3>1
      <3>3. s7' \in 0..MaxPageLoads
        BY <3>1
      <3> QED BY <3>2, <3>3
    <2>2. s5' \in Nat
      BY <1>9 DEF Export!GoNext, Export!Minus
    <2> QED BY <1>9, <2>1, <2>2 DEF Export!GoNext
  <1>10. CASE Export!GoPrev
    BY <1>10 DEF Export!GoPrev, Export!Minus, Export!Ask
  <1> QED BY <1>1, <1>2, <1>3, <1>4, <1>5, <1>6, <1>7, <1>8, <1>9, <1>10
          DEF Export!Next

\* The page starts with types that are right.
LEMMA ExportInit ==
  ASSUME Export!ExportAssumption, Export!Init
  PROVE  Export!TypeOK
  <1>1. s2 \in BOOLEAN /\ s8 \in BOOLEAN
    BY DEF Export!Init
  <1> QED BY <1>1 DEF Export!ExportAssumption, Export!Init, Export!TypeOK

\* Next goes on by a page, or by less to the last one, and where it is not
\* shown there is no record after those of the page.
LEMMA ExportFacts ==
  ASSUME Export!ExportAssumption, Export!TypeOK
  PROVE  Export!NextReachesTheEnd
  <1>1. /\ s5 \in Nat /\ s6 \in Nat /\ PreviewRows \in Nat \ {0}
    BY DEF Export!ExportAssumption, Export!TypeOK
  <1>2. ASSUME Export!GoNext
        PROVE  /\ s5' <= s5 + PreviewRows
               /\ s5' > s5 \/ s5 + PreviewRows >= s6
    BY <1>1, <1>2 DEF Export!GoNext, Export!Minus
  <1>3. ASSUME ~s8, ~Export!NextShown
        PROVE  s5 + PreviewRows >= s6
    <2>1. SUFFICES ASSUME s5 + PreviewRows < s6
                   PROVE  FALSE
      BY <1>1
    <2>2. (s5 \div PreviewRows) + 2 <= (s6 + PreviewRows - 1) \div PreviewRows
      <3>1. /\ s6 + PreviewRows - 1 \in Nat
            /\ s5 + 2 * PreviewRows <= s6 + PreviewRows - 1
        BY <1>1, <2>1
      <3> QED BY <1>1, <3>1, TwoPages
    <2>3. ~(Export!CurrentPage < Export!TotalPages)
      BY <1>3 DEF Export!NextShown
    <2>4. /\ s5 \div PreviewRows \in Int
          /\ (s6 + PreviewRows - 1) \div PreviewRows \in Int
      BY <1>1
    <2> QED BY <2>2, <2>3, <2>4
            DEF Export!CurrentPage, Export!TotalPages, Export!AtLeast
  <1> QED BY <1>2, <1>3 DEF Export!NextReachesTheEnd

\* The invariant of the export page holds in every behaviour.
THEOREM ExportInvariant == PagesSpec => [](view = "export" => Export!TypeOK)
  <1> DEFINE Inv == view = "export" => Export!TypeOK
  <1>0. PagesInit => Inv
    BY ExportInit, PagesAssumption DEF PagesInit, PagesAssumption
  <1>1. ASSUME Inv, [PagesNext]_pagesVars
        PROVE  Inv'
    <2>1. view' = view
      BY <1>1 DEF PagesNext, pagesVars
    <2>2. view = "export" => [Export!Next]_(Export!exportVars)
      BY <1>1
      DEF PagesNext, Step, pagesVars, shared, analytics, Export!exportVars
    <2> QED BY <1>1, <2>1, <2>2, ExportStep, PagesAssumption
            DEF PagesAssumption
  <1> QED BY <1>0, <1>1, PTL DEF PagesSpec

\* For any number of records, whatever count the answers bring: Next leaves
\* no record out, and moves unless the page reaches the end, which it does
\* wherever Next cannot be pressed (Export.jsx:445-448).
THEOREM PreviewReachesTheEnd == PagesSpec => NextReachesTheEnd
  <1>1. ASSUME view = "export" => Export!TypeOK, [PagesNext]_pagesVars
        PROVE  view = "export" => Export!NextReachesTheEnd
    <2>1. view = "export" => [Export!Next]_(Export!exportVars)
      BY <1>1
      DEF PagesNext, Step, pagesVars, shared, analytics, Export!exportVars
    <2> QED BY <1>1, <2>1, ExportFacts, PagesAssumption DEF PagesAssumption
  <1> QED BY <1>1, ExportInvariant, PTL DEF PagesSpec, NextReachesTheEnd

-----------------------------------------------------------------------------
(* The accounts.                                                           *)
(* Here s1 is account, s2 users, s3 editing, s4 showAddForm, s5 busyId,    *)
(* s6 loading, s7 handler, s8 may.                                         *)

\* A set of accounts has any members.
LEMMA AccountsAreFunctions ==
  /\ \A s \in Accounts!Accounts :
       DOMAIN s \subseteq Users /\ s \in [DOMAIN s -> Accounts!Account]
  /\ \A D \in SUBSET Users :
       \A s \in [D -> Accounts!Account] : s \in Accounts!Accounts
  BY DEF Accounts!Accounts

\* Nothing under way has the type of a handler.
LEMMA IdleHandler ==
  /\ Accounts!Blank \in Accounts!Account
  /\ Accounts!NoAccounts \in Accounts!Accounts
  /\ Accounts!Idle \in Accounts!HandlerType
  /\ Accounts!Idle.fields = {}
  /\ Accounts!Idle.may = {}
  /\ None \in Users \cup {None}
  <1>1. Accounts!Blank \in Accounts!Account
    BY DEF Accounts!Blank, Accounts!Account
  <1>2. Accounts!NoAccounts \in Accounts!Accounts
    <2>1. /\ Accounts!NoAccounts \in [{} -> Accounts!Account]
          /\ {} \in SUBSET Users
      BY DEF Accounts!NoAccounts
    <2> QED BY <2>1, AccountsAreFunctions
  <1> QED BY <1>1, <1>2 DEF Accounts!Idle, Accounts!HandlerType

\* The page starts with a load.
LEMMA UsersInit ==
  ASSUME Accounts!UsersAssumption, Accounts!Init
  PROVE  Accounts!UsersInv
  <1>1. s1 \in Accounts!Accounts
    BY AccountsAreFunctions DEF Accounts!Init
  <1>2. /\ s2 = Accounts!NoAccounts
        /\ s3 = Accounts!Closed
        /\ s8 = {}
        /\ s5 = None
        /\ DOMAIN Accounts!NoAccounts = {} /\ s3.id = None
    BY DEF Accounts!Init, Accounts!Closed, Accounts!NoAccounts
  <1>3. s3 \in [id : Users \cup {None}, form : Accounts!Account]
    BY <1>2, IdleHandler DEF Accounts!Closed
  <1>4. s4 \in BOOLEAN /\ s6 \in BOOLEAN
    BY DEF Accounts!Init
  <1>5. PICK s \in Chains :
          s7 = [t \in Chains |->
            IF t = s
            THEN [Accounts!Idle EXCEPT !.kind = "load", !.step = "list"]
            ELSE Accounts!Idle]
    BY DEF Accounts!Init
  <1> DEFINE h == [Accounts!Idle EXCEPT !.kind = "load", !.step = "list"]
  <1>6. h \in Accounts!HandlerType /\ h.fields = {} /\ h.may = {}
    BY IdleHandler DEF Accounts!HandlerType, Accounts!Idle
  <1> HIDE DEF h
  <1>7. /\ s7 \in [Chains -> Accounts!HandlerType]
        /\ \A t \in Chains : s7[t].fields = {} /\ s7[t].may = {}
    BY <1>5, <1>6, IdleHandler DEF h
  <1>8. Accounts!TypeOK
    BY <1>1, <1>2, <1>3, <1>4, <1>7, IdleHandler DEF Accounts!TypeOK
  <1>9. Accounts!EditsAreKnown /\ Accounts!SentIsKnown
    BY <1>2, <1>7 DEF Accounts!EditsAreKnown, Accounts!SentIsKnown
  <1> QED BY <1>8, <1>9 DEF Accounts!UsersInv

\* The editor opens, is changed and closes.
LEMMA EditorKeeps ==
  ASSUME Accounts!UsersAssumption, Accounts!UsersInv,
         \/ Accounts!TickActive \/ Accounts!CloseEditor \/ Accounts!SaveNothing
         \/ \E r \in Roles : Accounts!ToggleRole(r)
         \/ \E u \in Users : Accounts!OpenEditor(u)
  PROVE  Accounts!UsersInv'
  <1>0. /\ s3 \in [id : Users \cup {None}, form : Accounts!Account]
        /\ s2 \in Accounts!Accounts /\ s8 \subseteq Accounts!Fields
    BY DEF Accounts!UsersInv, Accounts!TypeOK
  <1>1. ASSUME UNCHANGED <<s1, s2, s4, s5, s6, s7>>,
               s3' \in [id : Users \cup {None}, form : Accounts!Account],
               s8' \subseteq Accounts!Fields, Accounts!EditsAreKnown'
        PROVE  Accounts!UsersInv'
    BY <1>1 DEF Accounts!UsersInv, Accounts!TypeOK, Accounts!SentIsKnown
  <1>2. CASE Accounts!TickActive
    <2>1. /\ UNCHANGED <<s1, s2, s4, s5, s6, s7>>
          /\ s8' = s8 \cup {"on"}
          /\ s3' = [s3 EXCEPT !.form.on = ~@]
      BY <1>2 DEF Accounts!TickActive
    <2>2. (~s3.form.on) \in BOOLEAN
      OBVIOUS
    <2>3. s3' \in [id : Users \cup {None}, form : Accounts!Account]
      BY <1>0, <2>1, <2>2 DEF Accounts!Account
    <2>4. s3'.id = s3.id /\ s3'.form.roles = s3.form.roles
      BY <1>0, <2>1 DEF Accounts!Account
    <2>5. Accounts!EditsAreKnown'
      BY <2>1, <2>4
      DEF Accounts!UsersInv, Accounts!EditsAreKnown, Accounts!Fields
    <2>6. s8' \subseteq Accounts!Fields
      BY <1>0, <2>1 DEF Accounts!Fields
    <2> QED BY <1>1, <2>1, <2>3, <2>5, <2>6
  <1>3. ASSUME NEW r \in Roles, Accounts!ToggleRole(r)
        PROVE  Accounts!UsersInv'
    <2> DEFINE new == IF r \in s3.form.roles THEN s3.form.roles \ {r}
                      ELSE s3.form.roles \cup {r}
    <2>1. /\ UNCHANGED <<s1, s2, s4, s5, s6, s7>>
          /\ s8' = s8 \cup {"roles"}
          /\ s3' = [s3 EXCEPT !.form.roles = new]
      BY <1>3 DEF Accounts!ToggleRole
    <2>2. new \subseteq Roles
      BY <1>0 DEF Accounts!Account
    <2> HIDE DEF new
    <2>3. s3' \in [id : Users \cup {None}, form : Accounts!Account]
      BY <1>0, <2>1, <2>2 DEF Accounts!Account
    <2>4. s3'.id = s3.id /\ s3'.form.on = s3.form.on
      BY <1>0, <2>1 DEF Accounts!Account
    <2>5. Accounts!EditsAreKnown'
      BY <2>1, <2>4
      DEF Accounts!UsersInv, Accounts!EditsAreKnown, Accounts!Fields
    <2>6. s8' \subseteq Accounts!Fields
      BY <1>0, <2>1 DEF Accounts!Fields
    <2> QED BY <1>1, <2>1, <2>3, <2>5, <2>6
  <1>4. CASE Accounts!CloseEditor \/ Accounts!SaveNothing
    <2>1. /\ UNCHANGED <<s1, s2, s4, s5, s6, s7>>
          /\ s3' = Accounts!Closed /\ s8' = {}
      BY <1>4 DEF Accounts!CloseEditor, Accounts!SaveNothing
    <2>2. /\ s3' \in [id : Users \cup {None}, form : Accounts!Account]
          /\ s3'.id = None
      BY <2>1, IdleHandler DEF Accounts!Closed
    <2>3. Accounts!EditsAreKnown'
      <3>1. DOMAIN s2' \subseteq Users
        BY <1>0, <2>1, AccountsAreFunctions
      <3>2. None \notin Users
        BY DEF Accounts!UsersAssumption
      <3> QED BY <2>2, <3>1, <3>2 DEF Accounts!EditsAreKnown
    <2> QED BY <1>1, <2>1, <2>2, <2>3
  <1>5. ASSUME NEW u \in Users, Accounts!OpenEditor(u)
        PROVE  Accounts!UsersInv'
    <2>1. /\ UNCHANGED <<s1, s2, s4, s5, s6, s7>>
          /\ s3' = [id |-> u, form |-> s2[u]] /\ s8' = {}
          /\ u \in DOMAIN s2
      BY <1>5 DEF Accounts!OpenEditor, Accounts!InTable
    <2>2. s2[u] \in Accounts!Account
      BY <1>0, <2>1, AccountsAreFunctions
    <2>3. s3' \in [id : Users \cup {None}, form : Accounts!Account]
      BY <2>1, <2>2
    <2>4. Accounts!EditsAreKnown'
      BY <2>1 DEF Accounts!EditsAreKnown
    <2> QED BY <1>1, <2>1, <2>3, <2>4
  <1> QED BY <1>2, <1>3, <1>4, <1>5

\* A command is sent.
LEMMA BeginKeeps ==
  ASSUME Accounts!UsersAssumption, Accounts!UsersInv,
         NEW h \in Accounts!HandlerType,
         h.fields \subseteq h.may,
         NEW row \in Users \cup {None, New}, Accounts!Begin(h, row),
         UNCHANGED <<s1, s2, Accounts!editor, s4, s6>>
  PROVE  Accounts!UsersInv'
  <1>1. PICK s \in Chains : s7' = [s7 EXCEPT ![s] = h]
    BY DEF Accounts!Begin
  <1>2. /\ s7 \in [Chains -> Accounts!HandlerType]
        /\ \A t \in Chains : s7[t].fields \subseteq s7[t].may
    BY DEF Accounts!UsersInv, Accounts!TypeOK, Accounts!SentIsKnown
  <1>3. /\ s7' \in [Chains -> Accounts!HandlerType] /\ s7'[s] = h
        /\ \A t \in Chains \ {s} : s7'[t] = s7[t]
    BY <1>1, <1>2
  <1>4. Accounts!TypeOK'
    BY <1>3
    DEF Accounts!UsersInv, Accounts!TypeOK, Accounts!Begin, Accounts!editor
  <1>5. Accounts!EditsAreKnown' /\ Accounts!SentIsKnown'
    BY <1>2, <1>3
    DEF Accounts!UsersInv, Accounts!EditsAreKnown, Accounts!SentIsKnown,
        Accounts!editor
  <1> QED BY <1>4, <1>5 DEF Accounts!UsersInv

\* The buttons of the table and of the forms.
LEMMA AccountsButtonsKeep ==
  ASSUME Accounts!UsersAssumption, Accounts!UsersInv,
         \/ Accounts!SaveEditor \/ Accounts!HandleAddUser
         \/ \E open \in BOOLEAN : Accounts!ShowAddForm(open)
         \/ \E u \in Users : Accounts!ToggleActive(u) \/ Accounts!Remove(u)
  PROVE  Accounts!UsersInv'
  <1>0. /\ s3 \in [id : Users \cup {None}, form : Accounts!Account]
        /\ s2 \in Accounts!Accounts /\ s8 \subseteq Accounts!Fields
    BY DEF Accounts!UsersInv, Accounts!TypeOK
  <1>1. CASE Accounts!SaveEditor
    <2> DEFINE h == [Accounts!Idle EXCEPT !.kind = "save", !.step = "sent",
                       !.id = s3.id, !.fields = Accounts!Changes,
                       !.form = s3.form, !.may = s8]
    <2>1. /\ s3.id \in DOMAIN s2 /\ Accounts!Begin(h, s3.id)
          /\ UNCHANGED <<s1, s2, Accounts!editor, s4, s6>>
      BY <1>1 DEF Accounts!SaveEditor
    <2>2. /\ Accounts!Changes \subseteq Accounts!Fields
          /\ Accounts!Changes \subseteq s8
      BY <2>1 DEF Accounts!Changes, Accounts!UsersInv, Accounts!EditsAreKnown
    <2>3. /\ h \in Accounts!HandlerType
          /\ h.fields = Accounts!Changes
          /\ h.may = s8
      BY <1>0, <2>2, IdleHandler DEF Accounts!HandlerType, Accounts!Idle
    <2> HIDE DEF h
    <2> QED BY <1>0, <2>1, <2>2, <2>3, BeginKeeps
  <1>2. CASE Accounts!HandleAddUser
    <2> DEFINE h == [Accounts!Idle EXCEPT !.kind = "add", !.step = "sent"]
    <2>1. /\ Accounts!Begin(h, New)
          /\ UNCHANGED <<s1, s2, Accounts!editor, s4, s6>>
      BY <1>2 DEF Accounts!HandleAddUser
    <2>2. h \in Accounts!HandlerType /\ h.fields = {}
      BY IdleHandler DEF Accounts!HandlerType, Accounts!Idle
    <2> HIDE DEF h
    <2> QED BY <2>1, <2>2, BeginKeeps
  <1>3. CASE \E open \in BOOLEAN : Accounts!ShowAddForm(open)
    BY <1>3
    DEF Accounts!ShowAddForm, Accounts!UsersInv, Accounts!TypeOK,
        Accounts!EditsAreKnown, Accounts!SentIsKnown, Accounts!editor
  <1>4. ASSUME NEW u \in Users, Accounts!ToggleActive(u)
        PROVE  Accounts!UsersInv'
    <2> DEFINE f == [s2[u] EXCEPT !.on = ~@]
               h == [Accounts!Idle EXCEPT
                       !.kind = "toggle", !.step = "sent", !.id = u,
                       !.fields = {"on"}, !.form = f, !.may = {"on"}]
    <2>1. /\ u \in DOMAIN s2 /\ Accounts!Begin(h, u)
          /\ UNCHANGED <<s1, s2, Accounts!editor, s4, s6>>
      BY <1>4 DEF Accounts!ToggleActive, Accounts!InTable
    <2>2. f \in Accounts!Account
      <3>1. s2[u] \in Accounts!Account
        BY <1>0, <2>1, AccountsAreFunctions
      <3>2. (~s2[u].on) \in BOOLEAN
        OBVIOUS
      <3> QED BY <3>1, <3>2 DEF Accounts!Account
    <2> HIDE DEF f
    <2>3. h \in Accounts!HandlerType /\ h.fields = {"on"} /\ h.may = {"on"}
      BY <2>2, IdleHandler
      DEF Accounts!HandlerType, Accounts!Idle, Accounts!Fields
    <2> HIDE DEF h
    <2> QED BY <2>1, <2>3, BeginKeeps
  <1>5. ASSUME NEW u \in Users, Accounts!Remove(u)
        PROVE  Accounts!UsersInv'
    <2> DEFINE h == [Accounts!Idle EXCEPT !.kind = "remove",
                                          !.step = "sent", !.id = u]
    <2>1. /\ Accounts!Begin(h, u)
          /\ UNCHANGED <<s1, s2, Accounts!editor, s4, s6>>
      BY <1>5 DEF Accounts!Remove
    <2>2. h \in Accounts!HandlerType /\ h.fields = {}
      BY IdleHandler DEF Accounts!HandlerType, Accounts!Idle
    <2> HIDE DEF h
    <2> QED BY <2>1, <2>2, BeginKeeps
  <1> QED BY <1>1, <1>2, <1>3, <1>4, <1>5

\* What the service makes of a command is a set of accounts.
LEMMA ServiceKeepsAccounts ==
  ASSUME s1 \in Accounts!Accounts, NEW h \in Accounts!HandlerType,
         \/ Accounts!AdminUpdateUser(h)
         \/ Accounts!AdminDeleteUser(h)
         \/ Accounts!Register(h)
  PROVE  s1' \in Accounts!Accounts
  <1>0. DOMAIN s1 \subseteq Users /\ s1 \in [DOMAIN s1 -> Accounts!Account]
    BY AccountsAreFunctions
  <1>1. CASE Accounts!AdminUpdateUser(h)
    <2>1. /\ h.id \in DOMAIN s1
          /\ s1' = [s1 EXCEPT ![h.id] = Accounts!Updated(s1[h.id], h)]
      BY <1>1 DEF Accounts!AdminUpdateUser
    <2>2. s1[h.id] \in Accounts!Account /\ h.form \in Accounts!Account
      BY <1>0, <2>1 DEF Accounts!HandlerType
    <2>3. Accounts!Updated(s1[h.id], h) \in Accounts!Account
      <3> DEFINE on == IF "on" \in h.fields THEN h.form.on ELSE s1[h.id].on
                 roles == IF "roles" \in h.fields /\ h.form.roles # {}
                          THEN h.form.roles ELSE s1[h.id].roles
      <3>1. on \in BOOLEAN /\ roles \subseteq Roles
        BY <2>2 DEF Accounts!Account
      <3> HIDE DEF on, roles
      <3>2. Accounts!Updated(s1[h.id], h) = [on |-> on, roles |-> roles]
        BY DEF Accounts!Updated, on, roles
      <3> QED BY <3>1, <3>2 DEF Accounts!Account
    <2>4. s1' \in [DOMAIN s1 -> Accounts!Account]
      BY <1>0, <2>1, <2>3
    <2> QED BY <1>0, <2>4, AccountsAreFunctions
  <1>2. CASE Accounts!AdminDeleteUser(h)
    <2>1. s1' \in [DOMAIN s1 \ {h.id} -> Accounts!Account]
      BY <1>0, <1>2 DEF Accounts!AdminDeleteUser, Accounts!Without
    <2> QED BY <1>0, <2>1, AccountsAreFunctions
  <1>3. CASE Accounts!Register(h)
    <2>1. PICK u \in Users, r \in SUBSET Roles :
            s1' = [v \in DOMAIN s1 \cup {u} |->
                     IF v = u THEN [on |-> TRUE, roles |-> r] ELSE s1[v]]
      BY <1>3 DEF Accounts!Register
    <2>2. [on |-> TRUE, roles |-> r] \in Accounts!Account
      BY DEF Accounts!Account
    <2>3. s1' \in [DOMAIN s1 \cup {u} -> Accounts!Account]
      BY <1>0, <2>1, <2>2
    <2> QED BY <1>0, <2>3, AccountsAreFunctions
  <1> QED BY <1>1, <1>2, <1>3

\* A handler goes on or ends: it sends no other command.
LEMMA AccountsHandlerKeeps ==
  ASSUME Accounts!UsersAssumption, Accounts!UsersInv, NEW s \in Chains,
         NEW h \in Accounts!HandlerType,
         h.fields \subseteq h.may, s7' = [s7 EXCEPT ![s] = h]
  PROVE  s7' \in [Chains -> Accounts!HandlerType] /\ Accounts!SentIsKnown'
  <1>1. /\ s7 \in [Chains -> Accounts!HandlerType]
        /\ \A t \in Chains : s7[t].fields \subseteq s7[t].may
    BY DEF Accounts!UsersInv, Accounts!TypeOK, Accounts!SentIsKnown
  <1>2. /\ s7' \in [Chains -> Accounts!HandlerType] /\ s7'[s] = h
        /\ \A t \in Chains \ {s} : s7'[t] = s7[t]
    BY <1>1
  <1> QED BY <1>1, <1>2 DEF Accounts!SentIsKnown

\* The answers to commands.
LEMMA AnswersKeep ==
  ASSUME Accounts!UsersAssumption, Accounts!UsersInv, NEW s \in Chains,
         Accounts!CommandOk(s) \/ Accounts!CommandFails(s)
  PROVE  Accounts!UsersInv'
  <1>0. /\ s7[s] \in Accounts!HandlerType /\ s1 \in Accounts!Accounts
        /\ s7[s].fields \subseteq s7[s].may
        /\ s2 \in Accounts!Accounts /\ None \notin Users
    BY DEF Accounts!UsersInv, Accounts!TypeOK, Accounts!SentIsKnown,
           Accounts!UsersAssumption
  <1>1. CASE Accounts!CommandOk(s)
    <2> DEFINE h == [Accounts!Idle EXCEPT !.kind = "reload", !.step = "list"]
    <2>1. /\ Accounts!Served(s) /\ s6' = TRUE
          /\ \/ s3' = Accounts!Closed /\ s8' = {}
             \/ UNCHANGED Accounts!editor
          /\ s7' = [s7 EXCEPT ![s] = h]
          /\ UNCHANGED <<s2, s5>>
      BY <1>1 DEF Accounts!CommandOk
    <2>2. h \in Accounts!HandlerType /\ h.fields = {}
      BY IdleHandler DEF Accounts!HandlerType, Accounts!Idle
    <2> HIDE DEF h
    <2>3. s7' \in [Chains -> Accounts!HandlerType] /\ Accounts!SentIsKnown'
      BY <2>1, <2>2, AccountsHandlerKeeps
    <2>4. s1' \in Accounts!Accounts
      BY <1>0, <2>1, ServiceKeepsAccounts DEF Accounts!Served
    <2>5. s4' \in BOOLEAN /\ s6' \in BOOLEAN
      BY <1>1 DEF Accounts!CommandOk
    <2>6. /\ s3' \in [id : Users \cup {None}, form : Accounts!Account]
          /\ s8' \subseteq Accounts!Fields
      BY <2>1, IdleHandler
      DEF Accounts!UsersInv, Accounts!TypeOK, Accounts!Closed, Accounts!editor
    <2>7. Accounts!EditsAreKnown'
      <3>1. CASE s3' = Accounts!Closed
        <4>1. s3'.id \notin DOMAIN s2'
          BY <1>0, <2>1, <3>1, AccountsAreFunctions DEF Accounts!Closed
        <4> QED BY <4>1 DEF Accounts!EditsAreKnown
      <3>2. CASE UNCHANGED Accounts!editor
        BY <2>1, <3>2
        DEF Accounts!UsersInv, Accounts!EditsAreKnown, Accounts!editor
      <3> QED BY <2>1, <3>1, <3>2
    <2>8. Accounts!TypeOK'
      BY <2>1, <2>3, <2>4, <2>5, <2>6 DEF Accounts!UsersInv, Accounts!TypeOK
    <2> QED BY <2>3, <2>7, <2>8 DEF Accounts!UsersInv
  <1>2. CASE Accounts!CommandFails(s)
    <2> DEFINE h == [s7[s] EXCEPT !.fields = @ \ {"on"}]
    <2>1. /\ Accounts!Served(s) \/ Accounts!AdminUpdateUser(h) \/ UNCHANGED s1
          /\ s7' = [s7 EXCEPT ![s] = Accounts!Idle] /\ s5' = None
          /\ UNCHANGED <<s2, Accounts!editor, s4, s6>>
      BY <1>2 DEF Accounts!CommandFails
    <2>2. h \in Accounts!HandlerType
      BY <1>0 DEF Accounts!HandlerType
    <2> HIDE DEF h
    <2>3. s1' \in Accounts!Accounts
      BY <1>0, <2>1, <2>2, ServiceKeepsAccounts DEF Accounts!Served
    <2>4. s7' \in [Chains -> Accounts!HandlerType] /\ Accounts!SentIsKnown'
      BY <2>1, IdleHandler, AccountsHandlerKeeps
    <2>5. Accounts!TypeOK'
      BY <2>1, <2>3, <2>4
      DEF Accounts!UsersInv, Accounts!TypeOK, Accounts!editor
    <2>6. Accounts!EditsAreKnown'
      BY <2>1 DEF Accounts!UsersInv, Accounts!EditsAreKnown, Accounts!editor
    <2> QED BY <2>4, <2>5, <2>6 DEF Accounts!UsersInv
  <1> QED BY <1>1, <1>2

\* The loads of the list.
LEMMA AccountsListsKeep ==
  ASSUME Accounts!UsersAssumption, Accounts!UsersInv, NEW s \in Chains,
         \/ Accounts!AdminListUsers(s)
         \/ Accounts!ListArrives(s)
         \/ Accounts!ListFails(s)
  PROVE  Accounts!UsersInv'
  <1>0. /\ s7[s] \in Accounts!HandlerType /\ s1 \in Accounts!Accounts
        /\ s7[s].fields \subseteq s7[s].may
        /\ s2 \in Accounts!Accounts /\ None \notin Users
        /\ s5 \in Users \cup {None, New}
        /\ s3 \in [id : Users \cup {None}, form : Accounts!Account]
    BY DEF Accounts!UsersInv, Accounts!TypeOK, Accounts!SentIsKnown,
           Accounts!UsersAssumption
  <1>1. CASE Accounts!AdminListUsers(s)
    <2> DEFINE h == [s7[s] EXCEPT !.step = "read", !.read = s1]
    <2>1. /\ s7' = [s7 EXCEPT ![s] = h]
          /\ UNCHANGED <<s1, s2, Accounts!editor, s4, s5, s6>>
      BY <1>1 DEF Accounts!AdminListUsers
    <2>2. /\ h \in Accounts!HandlerType
          /\ h.fields = s7[s].fields
          /\ h.may = s7[s].may
      BY <1>0 DEF Accounts!HandlerType
    <2> HIDE DEF h
    <2>3. s7' \in [Chains -> Accounts!HandlerType] /\ Accounts!SentIsKnown'
      BY <1>0, <2>1, <2>2, AccountsHandlerKeeps
    <2>4. Accounts!TypeOK'
      BY <2>1, <2>3 DEF Accounts!UsersInv, Accounts!TypeOK, Accounts!editor
    <2>5. Accounts!EditsAreKnown'
      BY <2>1 DEF Accounts!UsersInv, Accounts!EditsAreKnown, Accounts!editor
    <2> QED BY <2>3, <2>4, <2>5 DEF Accounts!UsersInv
  <1>2. ASSUME Accounts!EndLoad(s)
        PROVE  /\ s6' \in BOOLEAN /\ s5' \in Users \cup {None, New}
               /\ s7' \in [Chains -> Accounts!HandlerType]
               /\ Accounts!SentIsKnown'
    <2>1. /\ s6' = FALSE /\ s5' \in {s5, None}
          /\ s7' = [s7 EXCEPT ![s] = Accounts!Idle]
      BY <1>2 DEF Accounts!EndLoad
    <2>2. s7' \in [Chains -> Accounts!HandlerType] /\ Accounts!SentIsKnown'
      BY <2>1, IdleHandler, AccountsHandlerKeeps
    <2>3. s6' \in BOOLEAN
      BY <2>1
    <2> QED BY <1>0, <2>1, <2>2, <2>3
  <1>3. CASE Accounts!ListArrives(s)
    <2>1. /\ s2' = s7[s].read /\ Accounts!EndLoad(s)
          /\ s8' = IF s3.id = None THEN {} ELSE Accounts!Fields
          /\ UNCHANGED <<s1, s3, s4>>
      BY <1>3 DEF Accounts!ListArrives
    <2>2. s2' \in Accounts!Accounts /\ s8' \subseteq Accounts!Fields
      BY <1>0, <2>1 DEF Accounts!HandlerType
    <2>3. Accounts!TypeOK'
      BY <1>2, <2>1, <2>2 DEF Accounts!UsersInv, Accounts!TypeOK
    <2>4. Accounts!EditsAreKnown'
      <3>1. None \notin DOMAIN s2'
        BY <1>0, <2>2, AccountsAreFunctions
      <3> QED BY <2>1, <3>1 DEF Accounts!EditsAreKnown
    <2> QED BY <1>2, <2>1, <2>3, <2>4 DEF Accounts!UsersInv
  <1>4. CASE Accounts!ListFails(s)
    <2>1. Accounts!EndLoad(s) /\ UNCHANGED <<s1, s2, Accounts!editor, s4>>
      BY <1>4 DEF Accounts!ListFails
    <2>2. Accounts!TypeOK'
      BY <1>2, <2>1 DEF Accounts!UsersInv, Accounts!TypeOK, Accounts!editor
    <2>3. Accounts!EditsAreKnown'
      BY <2>1 DEF Accounts!UsersInv, Accounts!EditsAreKnown, Accounts!editor
    <2> QED BY <1>2, <2>1, <2>2, <2>3 DEF Accounts!UsersInv
  <1> QED BY <1>1, <1>3, <1>4

\* Another administrator changes or deletes an account.
LEMMA AccountsOthersKeep ==
  ASSUME Accounts!UsersAssumption, Accounts!UsersInv, NEW u \in Users,
         Accounts!OtherAdministrator(u)
  PROVE  Accounts!UsersInv'
  <1>1. s1 \in Accounts!Accounts /\ u \in DOMAIN s1
    BY DEF Accounts!UsersInv, Accounts!TypeOK, Accounts!OtherAdministrator
  <1>2. DOMAIN s1 \subseteq Users /\ s1 \in [DOMAIN s1 -> Accounts!Account]
    BY <1>1, AccountsAreFunctions
  <1>3. \/ s1' \in [DOMAIN s1 -> Accounts!Account]
        \/ s1' \in [DOMAIN s1 \ {u} -> Accounts!Account]
    BY <1>2 DEF Accounts!OtherAdministrator, Accounts!Without
  <1>4. s1' \in Accounts!Accounts
    BY <1>2, <1>3, AccountsAreFunctions
  <1>5. UNCHANGED <<s2, Accounts!editor, s4, s5, s6, s7>>
    BY DEF Accounts!OtherAdministrator
  <1> QED BY <1>4, <1>5
          DEF Accounts!UsersInv, Accounts!TypeOK, Accounts!EditsAreKnown,
              Accounts!SentIsKnown, Accounts!editor

\* Every step keeps the invariant.
LEMMA UsersStep ==
  ASSUME Accounts!UsersAssumption, Accounts!UsersInv,
         [Accounts!Next]_(Accounts!usersVars)
  PROVE  Accounts!UsersInv'
  <1>1. CASE UNCHANGED Accounts!usersVars
    BY <1>1
    DEF Accounts!usersVars, Accounts!editor, Accounts!UsersInv,
        Accounts!TypeOK, Accounts!EditsAreKnown, Accounts!SentIsKnown
  <1>2. CASE Accounts!Next
    BY <1>2, EditorKeeps, AccountsButtonsKeep, AnswersKeep, AccountsListsKeep,
       AccountsOthersKeep DEF Accounts!Next
  <1> QED BY <1>1, <1>2

\* What a command changes is what it has sent.
LEMMA UsersFacts ==
  ASSUME Accounts!UsersInv
  PROVE  Accounts!SaveKeepsTheRest
  <1> SUFFICES ASSUME NEW s \in Chains, Accounts!Served(s),
                      s7[s].kind \in {"save", "toggle"},
                      NEW f \in Accounts!Fields \ s7[s].may
               PROVE  s1'[s7[s].id][f] = s1[s7[s].id][f]
    BY DEF Accounts!SaveKeepsTheRest
  <1> DEFINE h == s7[s]
  <1>1. /\ h.id \in DOMAIN s1
        /\ s1' = [s1 EXCEPT ![h.id] = Accounts!Updated(s1[h.id], h)]
    BY DEF Accounts!Served, Accounts!AdminUpdateUser,
           Accounts!AdminDeleteUser, Accounts!Register
  <1>2. f \notin h.fields
    BY DEF Accounts!UsersInv, Accounts!SentIsKnown
  <1>3. s1'[h.id] = Accounts!Updated(s1[h.id], h)
    BY <1>1, AccountsAreFunctions DEF Accounts!UsersInv, Accounts!TypeOK
  <1>4. Accounts!Updated(s1[h.id], h)[f] = s1[h.id][f]
    BY <1>2 DEF Accounts!Updated, Accounts!Fields
  <1> QED BY <1>3, <1>4

\* The invariant of the page of accounts holds in every behaviour.
THEOREM UsersInvariant == PagesSpec => [](view = "users" => Accounts!UsersInv)
  <1> DEFINE Inv == view = "users" => Accounts!UsersInv
  <1>0. PagesInit => Inv
    BY UsersInit, PagesAssumption DEF PagesInit, PagesAssumption
  <1>1. ASSUME Inv, [PagesNext]_pagesVars
        PROVE  Inv'
    <2>1. view' = view
      BY <1>1 DEF PagesNext, pagesVars
    <2>2. view = "users" => [Accounts!Next]_(Accounts!usersVars)
      BY <1>1
      DEF PagesNext, Step, pagesVars, shared, analytics, Accounts!usersVars,
          Accounts!editor
    <2> QED BY <1>1, <2>1, <2>2, UsersStep, PagesAssumption
            DEF PagesAssumption
  <1> QED BY <1>0, <1>1, PTL DEF PagesSpec

\* Whatever other administrators change meanwhile, a command changes of an
\* account no more than what the operator changed in the editor, unless the
\* list was loaded again while the editor was open (UserManagement.jsx,
\* saveEditor).
THEOREM SavesKeepTheRest == PagesSpec => SaveKeepsTheRest
  <1>1. ASSUME view = "users" => Accounts!UsersInv, [PagesNext]_pagesVars
        PROVE  view = "users" => Accounts!SaveKeepsTheRest
    <2>1. view = "users" => [Accounts!Next]_(Accounts!usersVars)
      BY <1>1
      DEF PagesNext, Step, pagesVars, shared, analytics, Accounts!usersVars,
          Accounts!editor
    <2> QED BY <1>1, <2>1, UsersFacts, PagesAssumption DEF PagesAssumption
  <1> QED BY <1>1, UsersInvariant, PTL DEF PagesSpec, SaveKeepsTheRest

-----------------------------------------------------------------------------
(* The modules.                                                            *)
(* Here s1 is stored, s2 fresh, s3 modules, s4 selectedModule, s5          *)
(* loadingModules, s6 saved, s7 form, s8 isSaving, s9 nodesOf, s10         *)
(* handler.                                                                *)

\* The instance means the same operators.
LEMMA ScopeMeans ==
  /\ \A q : Scope!IsInjective(q) = IsInjective(q)
  /\ \A q, i : Scope!RemoveAt(q, i) = RemoveAt(q, i)
  /\ \A q : Scope!ToSet(q) = ToSet(q)
  <1>1. \A q : Scope!IsInjective(q) = IsInjective(q)
    BY Zenon DEF Scope!IsInjective, IsInjective
  <1>2. \A q, i : Scope!RemoveAt(q, i) = RemoveAt(q, i)
    BY Zenon DEF Scope!RemoveAt, RemoveAt
  <1>3. \A q : Scope!ToSet(q) = ToSet(q)
    BY Zenon DEF Scope!ToSet, ToSet
  <1> QED BY <1>1, <1>2, <1>3

\* What is under way has the type of a handler.
LEMMA Handlers ==
  /\ Scope!Idle \in Scope!HandlerType /\ Scope!Fetching \in Scope!HandlerType
  /\ Scope!Closed \in [open : BOOLEAN, id : Modules \cup {NoModule}]
  <1>1. Scope!Idle \in Scope!HandlerType
    BY DEF Scope!Idle, Scope!HandlerType, Scope!Lists
  <1>2. Scope!Fetching \in Scope!HandlerType
    BY <1>1 DEF Scope!Fetching, Scope!Idle, Scope!HandlerType
  <1> QED BY <1>1, <1>2 DEF Scope!Closed

\* The application starts, or starts again.
LEMMA Fetches ==
  ASSUME NEW h,
         \E s \in Chains :
           h = [t \in Chains |-> IF t = s THEN Scope!Fetching
                                          ELSE Scope!Idle]
  PROVE  h \in [Chains -> Scope!HandlerType]
  BY Handlers

\* The invariant holds when the application starts.
LEMMA ScopeInit ==
  ASSUME Scope!ScopeAssumption, Scope!Init
  PROVE  Scope!ScopeInv
  <1>1. s1 \in Scope!Lists
    <2>1. PICK n \in 0..2 : s1 \in [1..n -> Modules]
      BY ScopeMeans DEF Scope!Init
    <2>2. n \in Nat
      OBVIOUS
    <2> QED BY <2>1, <2>2, SeqDef DEF Scope!Lists
  <1>2. s10 \in [Chains -> Scope!HandlerType]
    BY Fetches, ScopeMeans DEF Scope!Init
  <1>3. s5 \in BOOLEAN /\ s8 \in BOOLEAN /\ s3 \in Scope!Lists
    <2>1. s5 = TRUE /\ s8 = FALSE /\ s3 = <<>>
      BY ScopeMeans DEF Scope!Init
    <2>2. s5 \in BOOLEAN /\ s8 \in BOOLEAN
      BY <2>1
    <2> QED BY <2>1, <2>2 DEF Scope!Lists
  <1>4. /\ IsInjective(s1) /\ s2 = Modules \ ToSet(s1)
        /\ s4 = s6 /\ s6 \in Modules \cup {NoModule}
        /\ s7 = Scope!Closed /\ s9 = NoModule
    BY ScopeMeans DEF Scope!Init
  <1>5. Scope!TypeOK
    BY <1>1, <1>2, <1>3, <1>4, Handlers, ScopeMeans DEF Scope!TypeOK
  <1> QED BY <1>4, <1>5 DEF Scope!ScopeInv, Scope!ChoiceIsSaved

\* The Module Service makes or deletes a module.
LEMMA ServiceKeeps ==
  ASSUME Scope!TypeOK,
         \/ \E m \in Modules : Scope!CreateModule(m)
         \/ \E m : Scope!DeleteModule(m)
         \/ UNCHANGED Scope!service
  PROVE  /\ s1' \in Scope!Lists /\ IsInjective(s1')
         /\ s2' \subseteq Modules /\ s2' \cap ToSet(s1') = {}
  <1>0. /\ s1 \in Seq(Modules) /\ IsInjective(s1)
        /\ s2 \subseteq Modules /\ s2 \cap ToSet(s1) = {}
    BY ScopeMeans DEF Scope!TypeOK, Scope!Lists
  <1>1. ASSUME NEW m \in Modules, Scope!CreateModule(m)
        PROVE  /\ s1' \in Seq(Modules) /\ IsInjective(s1')
               /\ s2' \subseteq Modules /\ s2' \cap ToSet(s1') = {}
    <2>1. m \in s2 /\ s2' = s2 \ {m} /\ s1' = <<m>> \o s1
      BY <1>1 DEF Scope!CreateModule
    <2>2. m \notin ToSet(s1)
      BY <1>0, <2>1
    <2>3. /\ s1' \in Seq(Modules) /\ IsInjective(s1')
          /\ ToSet(s1') \subseteq ToSet(s1) \cup {m}
      BY <1>0, <2>1, <2>2, OneComes
    <2> QED BY <1>0, <2>1, <2>3
  <1>2. ASSUME NEW m, Scope!DeleteModule(m)
        PROVE  /\ s1' \in Seq(Modules) /\ IsInjective(s1')
               /\ s2' \subseteq Modules /\ s2' \cap ToSet(s1') = {}
    <2>1. PICK i \in DOMAIN s1 : s1' = RemoveAt(s1, i)
      BY <1>2, ScopeMeans DEF Scope!DeleteModule
    <2>2. s2' = s2
      BY <1>2, ScopeMeans DEF Scope!DeleteModule
    <2>3. DOMAIN s1 = 1..Len(s1)
      BY <1>0, LenProperties
    <2>4. /\ s1' \in Seq(Modules) /\ IsInjective(s1')
          /\ ToSet(s1') \subseteq ToSet(s1)
      BY <1>0, <2>1, <2>3, OneGoes, RemoveAtShifts
    <2> QED BY <1>0, <2>2, <2>4
  <1>3. CASE UNCHANGED Scope!service
    BY <1>0, <1>3 DEF Scope!service, Scope!Lists
  <1> QED BY <1>1, <1>2, <1>3 DEF Scope!Lists

\* A handler begins or goes on.
LEMMA HandlerGoesOn ==
  ASSUME Scope!TypeOK, NEW s \in Chains, NEW h \in Scope!HandlerType,
         s10' = [s10 EXCEPT ![s] = h]
  PROVE  s10' \in [Chains -> Scope!HandlerType]
  BY ScopeMeans DEF Scope!TypeOK

\* The operator picks a module, or opens and closes a page.
LEMMA PagesKeep ==
  ASSUME Scope!ScopeAssumption, Scope!ScopeInv,
         \/ \E m \in Modules : Scope!PickModule(m) \/ Scope!OpenNodes(m)
         \/ \E id \in Modules \cup {NoModule} : Scope!OpenForm(id)
         \/ Scope!CloseForm
  PROVE  Scope!ScopeInv'
  <1>1. ASSUME NEW m \in Modules, Scope!PickModule(m)
        PROVE  Scope!ScopeInv'
    BY <1>1, ScopeMeans
    DEF Scope!PickModule, Scope!ScopeInv, Scope!TypeOK, Scope!ChoiceIsSaved,
        Scope!service, Scope!page, Scope!Lists
  <1>2. ASSUME NEW m \in Modules, Scope!OpenNodes(m)
        PROVE  Scope!ScopeInv'
    BY <1>2, ScopeMeans
    DEF Scope!OpenNodes, Scope!ScopeInv, Scope!TypeOK, Scope!ChoiceIsSaved,
        Scope!service, Scope!context
  <1>3. CASE \/ Scope!CloseForm
             \/ \E id \in Modules \cup {NoModule} : Scope!OpenForm(id)
    <2>1. UNCHANGED <<Scope!service, Scope!context, s8, s9, s10>>
      BY <1>3, ScopeMeans DEF Scope!CloseForm, Scope!OpenForm
    <2>2. \/ s7' = [s7 EXCEPT !.open = FALSE]
          \/ \E id \in Modules \cup {NoModule} :
               s7' = [open |-> TRUE, id |-> id]
      BY <1>3, ScopeMeans DEF Scope!CloseForm, Scope!OpenForm
    <2>3. s7' \in [open : BOOLEAN, id : Modules \cup {NoModule}]
      <3>1. s7 \in [open : BOOLEAN, id : Modules \cup {NoModule}]
        BY ScopeMeans DEF Scope!ScopeInv, Scope!TypeOK
      <3>2. CASE s7' = [s7 EXCEPT !.open = FALSE]
        BY <3>1, <3>2
      <3>3. ASSUME NEW id \in Modules \cup {NoModule},
                   s7' = [open |-> TRUE, id |-> id]
            PROVE  s7' \in [open : BOOLEAN, id : Modules \cup {NoModule}]
        BY <3>3
      <3> QED BY <2>2, <3>2, <3>3
    <2> QED BY <2>1, <2>3, ScopeMeans
            DEF Scope!ScopeInv, Scope!TypeOK, Scope!ChoiceIsSaved,
                Scope!service, Scope!context
  <1> QED BY <1>1, <1>2, <1>3

\* The operator saves or deletes a module, or comes back from its nodes.
LEMMA CommandsKeep ==
  ASSUME Scope!ScopeAssumption, Scope!ScopeInv,
         \/ Scope!HandleSave
         \/ Scope!BackFromNodes
         \/ \E m \in Modules : Scope!HandleDelete(m)
  PROVE  Scope!ScopeInv'
  <1>1. ASSUME NEW h \in Scope!HandlerType, Scope!Fetch(h)
        PROVE  s10' \in [Chains -> Scope!HandlerType]
    BY <1>1, HandlerGoesOn DEF Scope!Fetch, Scope!ScopeInv
  <1>2. CASE Scope!HandleSave
    <2> DEFINE h == [Scope!Idle EXCEPT !.kind = "save", !.step = "sent",
                                       !.id = s7.id]
    <2>1. /\ s8' = TRUE /\ Scope!Fetch(h)
          /\ UNCHANGED <<Scope!service, Scope!context, s7, s9>>
      BY <1>2 DEF Scope!HandleSave
    <2>2. h \in Scope!HandlerType
      BY Handlers, ScopeMeans
      DEF Scope!HandlerType, Scope!Idle, Scope!ScopeInv, Scope!TypeOK
    <2> HIDE DEF h
    <2>3. s10' \in [Chains -> Scope!HandlerType]
      BY <1>1, <2>1, <2>2
    <2> QED BY <2>1, <2>3, ScopeMeans
            DEF Scope!ScopeInv, Scope!TypeOK, Scope!ChoiceIsSaved,
                Scope!service, Scope!context
  <1>3. CASE Scope!BackFromNodes
    <2>1. /\ s9' = NoModule /\ s5' = TRUE /\ Scope!Fetch(Scope!Fetching)
          /\ UNCHANGED <<Scope!service, s3, s4, s6, s7, s8>>
      BY <1>3 DEF Scope!BackFromNodes
    <2>2. s10' \in [Chains -> Scope!HandlerType]
      BY <1>1, <2>1, Handlers
    <2> QED BY <2>1, <2>2, ScopeMeans
            DEF Scope!ScopeInv, Scope!TypeOK, Scope!ChoiceIsSaved,
                Scope!service
  <1>4. ASSUME NEW m \in Modules, Scope!HandleDelete(m)
        PROVE  Scope!ScopeInv'
    <2> DEFINE h == [Scope!Idle EXCEPT !.kind = "delete", !.step = "sent",
                                       !.id = m]
    <2>1. /\ Scope!Fetch(h)
          /\ UNCHANGED <<Scope!service, Scope!context, Scope!page>>
      BY <1>4, ScopeMeans DEF Scope!HandleDelete
    <2>2. h \in Scope!HandlerType
      BY Handlers DEF Scope!HandlerType, Scope!Idle
    <2> HIDE DEF h
    <2>3. s10' \in [Chains -> Scope!HandlerType]
      BY <1>1, <2>1, <2>2
    <2> QED BY <2>1, <2>3, ScopeMeans
            DEF Scope!ScopeInv, Scope!TypeOK, Scope!ChoiceIsSaved,
                Scope!service, Scope!context, Scope!page
  <1> QED BY <1>2, <1>3, <1>4

\* A fetch reads the list, shows it or fails.
LEMMA FetchKeeps ==
  ASSUME Scope!ScopeAssumption, Scope!ScopeInv, NEW s \in Chains,
         Scope!ListModules(s) \/ Scope!ListArrives(s) \/ Scope!ListFails(s)
  PROVE  Scope!ScopeInv'
  <1>0. s10[s] \in Scope!HandlerType /\ s1 \in Scope!Lists
    BY ScopeMeans DEF Scope!ScopeInv, Scope!TypeOK
  <1>1. CASE Scope!ListModules(s)
    <2> DEFINE h == [s10[s] EXCEPT !.step = "read", !.read = s1]
    <2>1. /\ s10' = [s10 EXCEPT ![s] = h]
          /\ UNCHANGED <<Scope!service, Scope!context, Scope!page>>
      BY <1>1 DEF Scope!ListModules
    <2>2. h \in Scope!HandlerType
      BY <1>0 DEF Scope!HandlerType
    <2> HIDE DEF h
    <2>3. s10' \in [Chains -> Scope!HandlerType]
      BY <2>1, <2>2, HandlerGoesOn DEF Scope!ScopeInv
    <2> QED BY <2>1, <2>3, ScopeMeans
            DEF Scope!ScopeInv, Scope!TypeOK, Scope!ChoiceIsSaved,
                Scope!service, Scope!context, Scope!page
  <1>2. ASSUME Scope!End(s)
        PROVE  /\ s5' \in BOOLEAN /\ s8' \in BOOLEAN
               /\ s7' \in [open : BOOLEAN, id : Modules \cup {NoModule}]
               /\ s9' = s9 /\ s10' \in [Chains -> Scope!HandlerType]
    <2>1. /\ s5' = FALSE /\ s10' = [s10 EXCEPT ![s] = Scope!Idle]
          /\ s9' = s9
          /\ \/ s7' = Scope!Closed /\ s8' = FALSE
             \/ s7' = s7 /\ s8' = s8
      BY <1>2 DEF Scope!End
    <2>2. s10' \in [Chains -> Scope!HandlerType]
      BY <2>1, Handlers, HandlerGoesOn DEF Scope!ScopeInv
    <2>3. s5' \in BOOLEAN /\ s8' \in BOOLEAN
      BY <2>1, ScopeMeans DEF Scope!ScopeInv, Scope!TypeOK
    <2>4. s7' \in [open : BOOLEAN, id : Modules \cup {NoModule}]
      BY <2>1, Handlers, ScopeMeans DEF Scope!ScopeInv, Scope!TypeOK
    <2> QED BY <2>1, <2>2, <2>3, <2>4
  <1>3. CASE Scope!ListArrives(s)
    <2> DEFINE m == Scope!Kept(s4, s10[s].read)
    <2>1. /\ s3' = s10[s].read /\ s4' = m /\ s6' = m
          /\ Scope!End(s) /\ UNCHANGED Scope!service
      BY <1>3 DEF Scope!ListArrives
    <2>2. s3' \in Scope!Lists
      BY <1>0, <2>1 DEF Scope!HandlerType
    <2>3. m \in Modules \cup {NoModule}
      <3>1. s10[s].read \in Seq(Modules)
        BY <1>0 DEF Scope!HandlerType, Scope!Lists
      <3>2. s10[s].read # <<>> => Head(s10[s].read) \in Modules
        BY <3>1
      <3>3. s4 \in Modules \cup {NoModule}
        BY ScopeMeans DEF Scope!ScopeInv, Scope!TypeOK
      <3> QED BY <3>2, <3>3, ScopeMeans DEF Scope!Kept
    <2> HIDE DEF m
    <2> QED BY <1>2, <2>1, <2>2, <2>3, ScopeMeans
            DEF Scope!ScopeInv, Scope!TypeOK, Scope!ChoiceIsSaved,
                Scope!service
  <1>4. CASE Scope!ListFails(s)
    <2>1. /\ s3' = <<>> /\ s4' = NoModule
          /\ Scope!End(s) /\ UNCHANGED <<Scope!service, s6>>
      BY <1>4 DEF Scope!ListFails
    <2>2. s3' \in Scope!Lists
      BY <2>1 DEF Scope!Lists
    <2> QED BY <1>2, <2>1, <2>2, ScopeMeans
            DEF Scope!ScopeInv, Scope!TypeOK, Scope!ChoiceIsSaved,
                Scope!service
  <1> QED BY <1>1, <1>3, <1>4

\* The service answers a save or a deletion.
LEMMA ScopeAnswerKeeps ==
  ASSUME Scope!ScopeAssumption, Scope!ScopeInv, NEW s \in Chains,
         Scope!CommandOk(s) \/ Scope!CommandFails(s)
  PROVE  Scope!ScopeInv'
  <1>0. s10[s] \in Scope!HandlerType /\ Scope!TypeOK
    BY ScopeMeans DEF Scope!ScopeInv, Scope!TypeOK
  <1>1. Scope!Served(s10[s]) \/ UNCHANGED Scope!service
    BY DEF Scope!CommandOk, Scope!CommandFails
  <1>2. /\ s1' \in Scope!Lists /\ IsInjective(s1')
        /\ s2' \subseteq Modules /\ s2' \cap ToSet(s1') = {}
    BY <1>0, <1>1, ServiceKeeps, ScopeMeans DEF Scope!Served
  <1>3. CASE Scope!CommandOk(s)
    <2> DEFINE h == [s10[s] EXCEPT !.step = "list", !.id = NoModule]
    <2>1. /\ s5' = TRUE /\ s10' = [s10 EXCEPT ![s] = h]
          /\ UNCHANGED <<s3, s4, s6, Scope!page>>
      BY <1>3 DEF Scope!CommandOk
    <2>2. h \in Scope!HandlerType
      BY <1>0 DEF Scope!HandlerType
    <2> HIDE DEF h
    <2>3. s10' \in [Chains -> Scope!HandlerType]
      BY <1>0, <2>1, <2>2, HandlerGoesOn
    <2> QED BY <1>2, <2>1, <2>3, ScopeMeans
            DEF Scope!ScopeInv, Scope!TypeOK, Scope!ChoiceIsSaved, Scope!page
  <1>4. CASE Scope!CommandFails(s)
    <2>1. /\ s10' = [s10 EXCEPT ![s] = Scope!Idle]
          /\ UNCHANGED <<Scope!context, s7, s9>>
      BY <1>4 DEF Scope!CommandFails
    <2>2. s8' \in BOOLEAN
      BY <1>4 DEF Scope!CommandFails
    <2>3. s10' \in [Chains -> Scope!HandlerType]
      BY <1>0, <2>1, Handlers, HandlerGoesOn
    <2> QED BY <1>2, <2>1, <2>2, <2>3, ScopeMeans
            DEF Scope!ScopeInv, Scope!TypeOK, Scope!ChoiceIsSaved,
                Scope!context
  <1> QED BY <1>3, <1>4

\* Another operator makes or deletes a module, and the page is loaded again.
LEMMA RestKeeps ==
  ASSUME Scope!ScopeAssumption, Scope!ScopeInv,
         Scope!OtherOperator \/ Scope!Reload
  PROVE  Scope!ScopeInv'
  <1>1. CASE Scope!OtherOperator
    <2>1. /\ s1' \in Scope!Lists /\ IsInjective(s1')
          /\ s2' \subseteq Modules /\ s2' \cap ToSet(s1') = {}
      BY <1>1, ServiceKeeps DEF Scope!OtherOperator, Scope!ScopeInv
    <2>2. UNCHANGED <<Scope!context, Scope!page, s10>>
      BY <1>1 DEF Scope!OtherOperator
    <2> QED BY <2>1, <2>2, ScopeMeans
            DEF Scope!ScopeInv, Scope!TypeOK, Scope!ChoiceIsSaved,
                Scope!context, Scope!page
  <1>2. CASE Scope!Reload
    <2>1. /\ s3' = <<>> /\ s4' = s6 /\ s7' = Scope!Closed
          /\ s9' = NoModule /\ UNCHANGED <<Scope!service, s6>>
      BY <1>2 DEF Scope!Reload, Scope!Start
    <2>2. s5' \in BOOLEAN /\ s8' \in BOOLEAN
      BY <1>2 DEF Scope!Reload, Scope!Start
    <2>3. s10' \in [Chains -> Scope!HandlerType]
      BY <1>2, Fetches DEF Scope!Reload, Scope!Start
    <2>4. s3' \in Scope!Lists
      BY <2>1 DEF Scope!Lists
    <2> QED BY <2>1, <2>2, <2>3, <2>4, Handlers, ScopeMeans
            DEF Scope!ScopeInv, Scope!TypeOK, Scope!ChoiceIsSaved,
                Scope!service
  <1> QED BY <1>1, <1>2

\* Every step keeps the invariant.
LEMMA ScopeStep ==
  ASSUME Scope!ScopeAssumption, Scope!ScopeInv, [Scope!Next]_(Scope!scopeVars)
  PROVE  Scope!ScopeInv'
  <1>1. CASE UNCHANGED Scope!scopeVars
    BY <1>1, ScopeMeans
    DEF Scope!scopeVars, Scope!service, Scope!context, Scope!page,
        Scope!ScopeInv, Scope!TypeOK, Scope!ChoiceIsSaved
  <1>2. CASE Scope!Next
    BY <1>2, PagesKeep, CommandsKeep, FetchKeeps, ScopeAnswerKeeps, RestKeeps
    DEF Scope!Next
  <1> QED BY <1>1, <1>2

\* The steps that may change the choice.
LEMMA ScopeFacts ==
  ASSUME Scope!ScopeInv, [Scope!Next]_(Scope!scopeVars)
  PROVE  Scope!ChoiceStays
  <1> SUFFICES ASSUME s4 # NoModule, s4' # s4
               PROVE  \/ \E m \in Modules : Scope!PickModule(m)
                      \/ \E s \in Chains :
                           \/ Scope!ListFails(s)
                           \/ /\ Scope!ListArrives(s)
                              /\ s4 \notin ToSet(s10[s].read)
    BY ScopeMeans DEF Scope!ChoiceStays
  <1>1. s6 = s4
    BY DEF Scope!ScopeInv, Scope!ChoiceIsSaved
  <1>2. ~Scope!Reload
    BY <1>1 DEF Scope!Reload, Scope!Start
  <1>3. \/ \E m \in Modules : Scope!PickModule(m)
        \/ \E s \in Chains : Scope!ListFails(s) \/ Scope!ListArrives(s)
    BY <1>2, ScopeMeans
    DEF Scope!Next, Scope!scopeVars, Scope!context, Scope!HandleDelete,
        Scope!OpenNodes, Scope!OpenForm, Scope!CloseForm, Scope!HandleSave,
        Scope!BackFromNodes, Scope!OtherOperator, Scope!ListModules,
        Scope!CommandOk, Scope!CommandFails
  <1>4. ASSUME NEW s \in Chains, Scope!ListArrives(s), s4 \in ToSet(s10[s].read)
        PROVE  FALSE
    BY <1>4, ScopeMeans DEF Scope!ListArrives, Scope!Kept
  <1> QED BY <1>3, <1>4

\* The invariant of the page of modules holds in every behaviour.
THEOREM ModulesInvariant == PagesSpec => [](view = "modules" => Scope!ScopeInv)
  <1> DEFINE Inv == view = "modules" => Scope!ScopeInv
  <1>0. PagesInit => Inv
    BY ScopeInit, PagesAssumption DEF PagesInit, PagesAssumption
  <1>1. ASSUME Inv, [PagesNext]_pagesVars
        PROVE  Inv'
    <2>1. view' = view
      BY <1>1 DEF PagesNext, pagesVars
    <2>2. view = "modules" => [Scope!Next]_(Scope!scopeVars)
      BY <1>1
      DEF PagesNext, Step, pagesVars, shared, analytics, Scope!scopeVars,
          Scope!service, Scope!context, Scope!page
    <2> QED BY <1>1, <2>1, <2>2, ScopeStep, PagesAssumption
            DEF PagesAssumption
  <1> QED BY <1>0, <1>1, PTL DEF PagesSpec

\* The chosen module changes only when the operator picks another one, when a
\* fetch fails or when the list that arrives lacks it; a reload of the page
\* brings the same choice back (ModuleContext.jsx).
THEOREM ChoiceIsStable == PagesSpec => ChoiceStays
  <1>1. ASSUME view = "modules" => Scope!ScopeInv, [PagesNext]_pagesVars
        PROVE  view = "modules" => Scope!ChoiceStays
    <2>1. view = "modules" => [Scope!Next]_(Scope!scopeVars)
      BY <1>1
      DEF PagesNext, Step, pagesVars, shared, analytics, Scope!scopeVars,
          Scope!service, Scope!context, Scope!page
    <2> QED BY <1>1, <2>1, ScopeFacts, PagesAssumption DEF PagesAssumption
  <1> QED BY <1>1, ModulesInvariant, PTL DEF PagesSpec, ChoiceStays

-----------------------------------------------------------------------------
(* The form of thresholds.                                                 *)
(* Here s1 is stored, s2 rows, s3 mounting, s4 form, s5 busy, s6 target,   *)
(* s7 own.                                                                 *)

\* The page loads its thresholds.
LEMMA PanelInit ==
  ASSUME Thresholds!Init
  PROVE  Thresholds!PanelInv
  BY DEF Thresholds!Init, Thresholds!PanelInv, Thresholds!TypeOK,
         Thresholds!OneForm, Thresholds!Forms

\* Every step keeps the types, and a form of a threshold that is open during
\* a save is the one being saved.
LEMMA PanelStep ==
  ASSUME Thresholds!FormAssumption, Thresholds!PanelInv,
         [Thresholds!Next]_(Thresholds!panelVars)
  PROVE  Thresholds!PanelInv'
  <1> USE DEF Thresholds!PanelInv, Thresholds!TypeOK, Thresholds!OneForm,
              Thresholds!Forms
  <1>1. CASE UNCHANGED Thresholds!panelVars
    BY <1>1 DEF Thresholds!panelVars
  <1>2. CASE Thresholds!MountLoaded
    <2>1. /\ s2' \subseteq ThresholdIds
          /\ s3' = [going |-> FALSE, read |-> s3.read]
      BY <1>2 DEF Thresholds!MountLoaded
    <2> QED BY <1>2, <2>1 DEF Thresholds!MountLoaded
  <1>3. CASE Thresholds!OpenCreate \/ Thresholds!CloseForm
    BY <1>3
    DEF Thresholds!FormAssumption, Thresholds!OpenCreate,
        Thresholds!CloseForm, Thresholds!Open
  <1>4. CASE Thresholds!Submit
    BY <1>4 DEF Thresholds!Submit
  <1>5. CASE Thresholds!SaveOk
    BY <1>5 DEF Thresholds!FormAssumption, Thresholds!SaveOk, Thresholds!Open
  <1>6. CASE Thresholds!RemoveOk
    BY <1>6 DEF Thresholds!RemoveOk
  <1>7. CASE Thresholds!Refused
    BY <1>7 DEF Thresholds!Refused
  <1>8. CASE Thresholds!Reloaded
    BY <1>8 DEF Thresholds!Reloaded
  <1>9. CASE \E t \in ThresholdIds : Thresholds!OpenEdit(t)
    BY <1>9 DEF Thresholds!OpenEdit, Thresholds!Open
  <1>10. CASE \E t \in ThresholdIds : Thresholds!Remove(t)
    BY <1>10 DEF Thresholds!Remove
  <1>11. CASE \E t \in ThresholdIds : Thresholds!OtherRemoves(t)
    BY <1>11 DEF Thresholds!OtherRemoves
  <1> QED BY <1>1, <1>2, <1>3, <1>4, <1>5, <1>6, <1>7, <1>8, <1>9, <1>10,
             <1>11 DEF Thresholds!Next

\* A save never closes the form of another threshold.
LEMMA PanelFacts ==
  ASSUME Thresholds!PanelInv
  PROVE  Thresholds!EditNotDiscarded
  BY DEF Thresholds!PanelInv, Thresholds!OneForm, Thresholds!EditNotDiscarded,
         Thresholds!SaveOk

\* The invariant of the threshold form holds in every behaviour.
THEOREM ThresholdsInvariant ==
  PagesSpec => [](view = "thresholds" => Thresholds!PanelInv)
  <1> DEFINE Inv == view = "thresholds" => Thresholds!PanelInv
  <1>0. PagesInit => Inv
    BY PanelInit, PagesAssumption DEF PagesInit, PagesAssumption
  <1>1. ASSUME Inv, [PagesNext]_pagesVars
        PROVE  Inv'
    <2>1. view' = view
      BY <1>1 DEF PagesNext, pagesVars
    <2>2. view = "thresholds" => [Thresholds!Next]_(Thresholds!panelVars)
      BY <1>1
      DEF PagesNext, Step, pagesVars, shared, analytics, Thresholds!panelVars
    <2> QED BY <1>1, <2>1, <2>2, PanelStep, PagesAssumption
            DEF PagesAssumption
  <1> QED BY <1>0, <1>1, PTL DEF PagesSpec

-----------------------------------------------------------------------------
(* The page of the webhook.                                                *)
(* Here s1 is tab, s2 pending, s3 loading, s4 saving, s5 testing, s6       *)
(* shown, s7 excused.                                                      *)

\* The page loads its settings.
LEMMA WebhookInit ==
  ASSUME Webhook!WebhookAssumption, Webhook!Init
  PROVE  Webhook!WebhookInv
  <1>1. /\ s2["settings"] = 1 /\ s2["logs"] = 0
        /\ s2 \in [Webhook!Kinds -> 0..MaxPageLoads]
    BY DEF Webhook!WebhookAssumption, Webhook!Init, Webhook!Kinds
  <1>2. s3 = TRUE /\ s7 = FALSE /\ s4 = FALSE /\ s5 = FALSE
        /\ s1 = "settings" /\ s6 = [loaded |-> FALSE, typed |-> FALSE]
    BY DEF Webhook!Init
  <1>3. Webhook!TypeOK
    <2>1. {s3, s4, s5, s7} \subseteq BOOLEAN
      BY <1>2
    <2>2. s6 \in [loaded : BOOLEAN, typed : BOOLEAN]
      BY <1>2
    <2> QED BY <1>1, <1>2, <2>1, <2>2
            DEF Webhook!TypeOK, Webhook!Tabs, Webhook!Kinds
  <1>4. Webhook!LoadsAreKnown
    BY <1>1, <1>2 DEF Webhook!LoadsAreKnown, Webhook!Busy, Webhook!Kinds
  <1> QED BY <1>3, <1>4 DEF Webhook!WebhookInv

\* What a load that begins leaves.
LEMMA LoadBegins ==
  ASSUME Webhook!WebhookAssumption, Webhook!WebhookInv,
         NEW k \in Webhook!Kinds, Webhook!StartLoad(k),
         s7' = Webhook!Busy
  PROVE  /\ s2' \in [Webhook!Kinds -> 0..MaxPageLoads] /\ s3' = TRUE
         /\ s7' \in BOOLEAN
         /\ s2'[k] > 0
         /\ ~s7' => \A j \in Webhook!Kinds : s2'[j] = IF j = k THEN 1 ELSE 0
  <1>1. /\ s2 \in [Webhook!Kinds -> 0..MaxPageLoads] /\ s2[k] < MaxPageLoads
        /\ s2' = [s2 EXCEPT ![k] = @ + 1] /\ s3' = TRUE
        /\ MaxPageLoads \in Nat
    BY DEF Webhook!WebhookInv, Webhook!TypeOK, Webhook!StartLoad,
           Webhook!WebhookAssumption
  <1>2. s7' \in BOOLEAN
    BY DEF Webhook!Busy
  <1>3. s2' \in [Webhook!Kinds -> 0..MaxPageLoads]
    BY <1>1
  <1>4. s2'[k] = s2[k] + 1 /\ \A j \in Webhook!Kinds \ {k} : s2'[j] = s2[j]
    BY <1>1
  <1>5. ~s7' => \A j \in Webhook!Kinds : s2[j] = 0
    BY <1>1 DEF Webhook!Busy
  <1> QED BY <1>1, <1>2, <1>3, <1>4, <1>5

\* Another tab: its settings or logs are loaded.
LEMMA TabKeeps ==
  ASSUME Webhook!WebhookAssumption, Webhook!WebhookInv,
         NEW t \in Webhook!Tabs, Webhook!OpenTab(t)
  PROVE  Webhook!WebhookInv'
  <1>1. /\ t # s1 /\ s1' = t /\ UNCHANGED <<s4, s5>>
        /\ s6' = IF t = "settings" THEN [s6 EXCEPT !.typed = FALSE] ELSE s6
    BY DEF Webhook!OpenTab
  <1>2. /\ s6' \in [loaded : BOOLEAN, typed : BOOLEAN]
        /\ s6'.loaded = s6.loaded
        /\ s6'.typed => (s6.typed /\ t # "settings")
    BY <1>1 DEF Webhook!WebhookInv, Webhook!TypeOK
  <1>3. CASE t \in Webhook!Kinds
    <2>1. Webhook!StartLoad(t) /\ s7' = Webhook!Busy
      BY <1>3 DEF Webhook!OpenTab
    <2>2. /\ s2' \in [Webhook!Kinds -> 0..MaxPageLoads] /\ s3' = TRUE
          /\ s7' \in BOOLEAN
          /\ s2'[t] > 0
          /\ ~s7' => \A j \in Webhook!Kinds : s2'[j] = IF j = t THEN 1 ELSE 0
      BY <1>3, <2>1, LoadBegins
    <2>3. Webhook!TypeOK'
      BY <1>1, <1>2, <2>2 DEF Webhook!WebhookInv, Webhook!TypeOK
    <2>4. Webhook!LoadsAreKnown'
      BY <1>1, <1>2, <1>3, <2>2
      DEF Webhook!LoadsAreKnown, Webhook!Busy, Webhook!Kinds
    <2> QED BY <2>3, <2>4 DEF Webhook!WebhookInv
  <1>4. CASE t \notin Webhook!Kinds
    <2>1. UNCHANGED <<s2, s3, s7>> /\ t # "settings"
      BY <1>4 DEF Webhook!OpenTab, Webhook!Kinds
    <2>2. Webhook!TypeOK'
      BY <1>1, <1>2, <2>1 DEF Webhook!WebhookInv, Webhook!TypeOK
    <2>3. Webhook!LoadsAreKnown'
      BY <1>1, <1>2, <2>1
      DEF Webhook!WebhookInv, Webhook!LoadsAreKnown, Webhook!Busy
    <2> QED BY <2>2, <2>3 DEF Webhook!WebhookInv
  <1> QED BY <1>3, <1>4

\* The end of a load.
LEMMA EndKeeps ==
  ASSUME Webhook!WebhookAssumption, Webhook!WebhookInv,
         Webhook!SettingsArrive \/ Webhook!SettingsFail \/ Webhook!LogsEnd
  PROVE  Webhook!WebhookInv'
  <1>1. ASSUME NEW k \in Webhook!Kinds, Webhook!EndLoad(k)
        PROVE  /\ s2' \in [Webhook!Kinds -> 0..MaxPageLoads] /\ s3' = FALSE
               /\ s3' \in BOOLEAN
               /\ ~s7 => \A j \in Webhook!Kinds : s2'[j] = 0
               /\ ~s7 => s2[k] > 0
    <2>1. /\ s2 \in [Webhook!Kinds -> 0..MaxPageLoads] /\ s2[k] > 0
          /\ s2' = [s2 EXCEPT ![k] = @ - 1] /\ MaxPageLoads \in Nat
      BY <1>1
      DEF Webhook!WebhookInv, Webhook!TypeOK, Webhook!EndLoad,
          Webhook!WebhookAssumption
    <2>2. /\ s2' \in [Webhook!Kinds -> 0..MaxPageLoads] /\ s2'[k] = s2[k] - 1
          /\ \A j \in Webhook!Kinds \ {k} : s2'[j] = s2[j]
      BY <2>1
    <2>3. ~s7 => s2["settings"] + s2["logs"] <= 1
      BY DEF Webhook!WebhookInv, Webhook!LoadsAreKnown
    <2>4. ~s7 => \A j \in Webhook!Kinds : s2'[j] = 0
      BY <2>1, <2>2, <2>3 DEF Webhook!Kinds
    <2>5. s3' = FALSE /\ s3' \in BOOLEAN
      BY <1>1 DEF Webhook!EndLoad
    <2> QED BY <2>1, <2>2, <2>4, <2>5
  <1>2. CASE Webhook!SettingsArrive
    <2>1. /\ UNCHANGED <<s1, s4, s5, s7>> /\ Webhook!EndLoad("settings")
          /\ s6' = [loaded |-> TRUE, typed |-> FALSE]
      BY <1>2 DEF Webhook!SettingsArrive
    <2>2. /\ s2' \in [Webhook!Kinds -> 0..MaxPageLoads] /\ s3' = FALSE
          /\ s3' \in BOOLEAN
          /\ ~s7 => \A j \in Webhook!Kinds : s2'[j] = 0
      BY <1>1, <2>1 DEF Webhook!Kinds
    <2>3. /\ s6' \in [loaded : BOOLEAN, typed : BOOLEAN] /\ s6'.loaded
          /\ ~s6'.typed
      BY <2>1
    <2>4. Webhook!TypeOK'
      BY <2>1, <2>2, <2>3 DEF Webhook!WebhookInv, Webhook!TypeOK
    <2>5. Webhook!LoadsAreKnown'
      BY <2>1, <2>2, <2>3
      DEF Webhook!LoadsAreKnown, Webhook!Busy, Webhook!Kinds
    <2> QED BY <2>4, <2>5 DEF Webhook!WebhookInv
  <1>3. CASE Webhook!SettingsFail
    <2>1. /\ UNCHANGED <<s1, s4, s5, s6>> /\ Webhook!EndLoad("settings")
          /\ s7' = TRUE
      BY <1>3 DEF Webhook!SettingsFail
    <2>2. s2' \in [Webhook!Kinds -> 0..MaxPageLoads] /\ s3' \in BOOLEAN
      BY <1>1, <2>1 DEF Webhook!Kinds
    <2>3. Webhook!TypeOK'
      BY <2>1, <2>2 DEF Webhook!WebhookInv, Webhook!TypeOK
    <2> QED BY <2>1, <2>3 DEF Webhook!WebhookInv, Webhook!LoadsAreKnown
  <1>4. CASE Webhook!LogsEnd
    <2>1. /\ UNCHANGED <<s1, s4, s5, s6, s7>> /\ Webhook!EndLoad("logs")
      BY <1>4 DEF Webhook!LogsEnd
    <2>2. /\ s2' \in [Webhook!Kinds -> 0..MaxPageLoads] /\ s3' = FALSE
          /\ s3' \in BOOLEAN
          /\ ~s7 => \A j \in Webhook!Kinds : s2'[j] = 0
          /\ ~s7 => s2["logs"] > 0
      BY <1>1, <2>1 DEF Webhook!Kinds
    <2>3. Webhook!TypeOK'
      BY <2>1, <2>2 DEF Webhook!WebhookInv, Webhook!TypeOK
    <2>4. ~s7 => s2["settings"] = 0
      BY <2>2
      DEF Webhook!WebhookInv, Webhook!TypeOK, Webhook!LoadsAreKnown,
          Webhook!Kinds
    <2>5. Webhook!LoadsAreKnown'
      BY <2>1, <2>2, <2>4
      DEF Webhook!WebhookInv, Webhook!LoadsAreKnown, Webhook!Busy,
          Webhook!Kinds
    <2> QED BY <2>3, <2>5 DEF Webhook!WebhookInv
  <1> QED BY <1>2, <1>3, <1>4

\* Every step keeps the invariant.
LEMMA WebhookStep ==
  ASSUME Webhook!WebhookAssumption, Webhook!WebhookInv,
         [Webhook!Next]_(Webhook!webhookVars)
  PROVE  Webhook!WebhookInv'
  <1>1. CASE UNCHANGED Webhook!webhookVars
    BY <1>1
    DEF Webhook!webhookVars, Webhook!WebhookInv, Webhook!TypeOK,
        Webhook!LoadsAreKnown, Webhook!Busy
  <1>2. CASE Webhook!QueryLogs
    <2>1. /\ s1 = "logs" /\ Webhook!StartLoad("logs") /\ s7' = Webhook!Busy
          /\ UNCHANGED <<s1, s4, s5, s6>>
      BY <1>2 DEF Webhook!QueryLogs
    <2>2. /\ s2' \in [Webhook!Kinds -> 0..MaxPageLoads] /\ s3' = TRUE
          /\ s7' \in BOOLEAN
          /\ ~s7' =>
               \A j \in Webhook!Kinds : s2'[j] = IF j = "logs" THEN 1 ELSE 0
      BY <2>1, LoadBegins DEF Webhook!Kinds
    <2>3. Webhook!TypeOK'
      BY <2>1, <2>2 DEF Webhook!WebhookInv, Webhook!TypeOK
    <2>4. Webhook!LoadsAreKnown'
      BY <2>1, <2>2 DEF Webhook!LoadsAreKnown, Webhook!Busy, Webhook!Kinds
    <2> QED BY <2>3, <2>4 DEF Webhook!WebhookInv
  <1>3. CASE Webhook!Type
    <2>1. /\ s1 = "settings" /\ ~s3
          /\ s6' = [s6 EXCEPT !.typed = TRUE]
          /\ UNCHANGED <<s1, s2, s3, s4, s5, s7>>
      BY <1>3 DEF Webhook!Type
    <2>2. /\ s6' \in [loaded : BOOLEAN, typed : BOOLEAN]
          /\ s6'.loaded = s6.loaded
      BY <2>1 DEF Webhook!WebhookInv, Webhook!TypeOK
    <2>3. Webhook!TypeOK'
      BY <2>1, <2>2 DEF Webhook!WebhookInv, Webhook!TypeOK
    <2>4. ~s7 => s2["settings"] = 0
      BY <2>1
      DEF Webhook!WebhookInv, Webhook!TypeOK, Webhook!LoadsAreKnown,
          Webhook!Busy, Webhook!Kinds
    <2>5. Webhook!LoadsAreKnown'
      BY <2>1, <2>2, <2>4
      DEF Webhook!WebhookInv, Webhook!LoadsAreKnown, Webhook!Busy
    <2> QED BY <2>3, <2>5 DEF Webhook!WebhookInv
  <1>4. CASE \/ Webhook!PressSave
             \/ Webhook!SaveEnds
             \/ Webhook!PressTest
             \/ Webhook!TestEnds
    <2>1. /\ UNCHANGED <<s1, s2, s3, s6, s7>>
          /\ s4' \in BOOLEAN /\ s5' \in BOOLEAN
      BY <1>4
      DEF Webhook!PressSave, Webhook!SaveEnds, Webhook!PressTest,
          Webhook!TestEnds, Webhook!WebhookInv, Webhook!TypeOK
    <2>2. Webhook!TypeOK'
      BY <2>1 DEF Webhook!WebhookInv, Webhook!TypeOK
    <2>3. Webhook!LoadsAreKnown'
      BY <2>1 DEF Webhook!WebhookInv, Webhook!LoadsAreKnown, Webhook!Busy
    <2> QED BY <2>2, <2>3 DEF Webhook!WebhookInv
  <1> QED BY <1>1, <1>2, <1>3, <1>4, TabKeeps, EndKeeps DEF Webhook!Next

\* A save and an answer find settings that were loaded.
LEMMA WebhookFacts ==
  ASSUME Webhook!WebhookInv
  PROVE  Webhook!SettingsKept
  <1>1. ASSUME Webhook!PressSave
        PROVE  s6.loaded \/ s7
    BY <1>1
    DEF Webhook!PressSave, Webhook!WebhookInv, Webhook!LoadsAreKnown,
        Webhook!Busy, Webhook!Kinds
  <1>2. ASSUME Webhook!SettingsArrive, s6.typed
        PROVE  s7
    BY <1>2
    DEF Webhook!SettingsArrive, Webhook!EndLoad, Webhook!WebhookInv,
        Webhook!LoadsAreKnown
  <1> QED BY <1>1, <1>2 DEF Webhook!SettingsKept

\* The invariant of the webhook page holds in every behaviour.
THEOREM WebhookInvariant ==
  PagesSpec => [](view = "webhook" => Webhook!WebhookInv)
  <1> DEFINE Inv == view = "webhook" => Webhook!WebhookInv
  <1>0. PagesInit => Inv
    BY WebhookInit, PagesAssumption DEF PagesInit, PagesAssumption
  <1>1. ASSUME Inv, [PagesNext]_pagesVars
        PROVE  Inv'
    <2>1. view' = view
      BY <1>1 DEF PagesNext, pagesVars
    <2>2. view = "webhook" => [Webhook!Next]_(Webhook!webhookVars)
      BY <1>1
      DEF PagesNext, Step, pagesVars, shared, analytics, Webhook!webhookVars
    <2> QED BY <1>1, <2>1, <2>2, WebhookStep, PagesAssumption
            DEF PagesAssumption
  <1> QED BY <1>0, <1>1, PTL DEF PagesSpec

-----------------------------------------------------------------------------
(* The exported table.                                                     *)
(* Here s1 is records.                                                     *)

\* Every answer is records, within the bound.
LEMMA TableStep ==
  ASSUME Table!TableAssumption, Table!TypeOK, [Table!Next]_s1
  PROVE  Table!TypeOK'
  <1>1. ASSUME NEW r \in Table!Record, s1' = Append(s1, r), Len(s1) < MaxRecords
        PROVE  Table!TypeOK'
    <2>1. s1' \in Seq(Table!Record) /\ Len(s1') = Len(s1) + 1
          /\ Len(s1) \in Nat
      BY <1>1 DEF Table!TypeOK
    <2> QED BY <1>1, <2>1 DEF Table!TypeOK, Table!TableAssumption
  <1>2. CASE s1' = <<>>
    BY <1>2 DEF Table!TypeOK, Table!TableAssumption
  <1> QED BY <1>1, <1>2 DEF Table!Next, Table!Receive, Table!TypeOK

\* The invariant of the exported table holds in every behaviour.
THEOREM TableInvariant == PagesSpec => [](view = "table" => Table!TypeOK)
  <1> DEFINE Inv == view = "table" => Table!TypeOK
  <1>0. PagesInit => Inv
    <2>1. PagesInit /\ view = "table" => Table!Init
      BY DEF PagesInit
    <2>2. Table!Init => Table!TypeOK
      BY PagesAssumption
      DEF PagesAssumption, Table!Init, Table!TypeOK, Table!TableAssumption
    <2> QED BY <2>1, <2>2
  <1>1. ASSUME Inv, [PagesNext]_pagesVars
        PROVE  Inv'
    <2>1. view' = view
      BY <1>1 DEF PagesNext, pagesVars
    <2>2. view = "table" => [Table!Next]_s1
      BY <1>1 DEF PagesNext, Step, pagesVars, shared, analytics
    <2> QED BY <1>1, <2>1, <2>2, TableStep, PagesAssumption
            DEF PagesAssumption
  <1> QED BY <1>0, <1>1, PTL DEF PagesSpec

\* The instance means the same operator.
LEMMA TableMeans == \A q : Table!ToSet(q) = {q[i] : i \in DOMAIN q}
  BY DEF Table!ToSet

\* Of the records in hand the last is the greatest place.
LEMMA LastRecord ==
  ASSUME NEW n \in Nat
  PROVE  /\ \A s \in SUBSET (1..n + 1) : n + 1 \in s => Table!Max(s) = n + 1
         /\ (1..n + 1) \ {n + 1} = 1..n
  <1>1. ASSUME NEW s \in SUBSET (1..n + 1), n + 1 \in s
        PROVE  Table!Max(s) = n + 1
    <2>1. \A y \in s : y \in 1..n + 1 /\ n + 1 >= y
      OBVIOUS
    <2>2. \A x \in s : (\A y \in s : x >= y) => x = n + 1
      BY <1>1, <2>1
    <2> QED BY <1>1, <2>1, <2>2 DEF Table!Max
  <1> QED BY <1>1

\* The keys of the rows with one more record.
WithKey(keys, r) ==
  IF Table!Key(r) \in Table!ToSet(keys) THEN keys
  ELSE Append(keys, Table!Key(r))

\* The function by which the keys are collected exists.
LEMMA KeysExist ==
  ASSUME NEW rs, NEW n \in Nat
  PROVE  \E f : f = [s \in SUBSET (1..n) |->
                       IF s = {} THEN <<>>
                       ELSE WithKey(f[s \ {Table!Max(s)}], rs[Table!Max(s)])]
  <1> DEFINE Collects(f, k) ==
               f = [s \in SUBSET (1..k) |->
                      IF s = {} THEN <<>>
                      ELSE WithKey(f[s \ {Table!Max(s)}], rs[Table!Max(s)])]
             T == {k \in Nat : \E f : Collects(f, k)}
  <1>1. 0 \in T
    <2>1. Collects([s \in SUBSET (1..0) |-> <<>>], 0)
      <3>1. 1..0 = {}
        OBVIOUS
      <3>2. \A s \in SUBSET (1..0) : s = {}
        BY <3>1
      <3> QED BY <3>2
    <2> QED BY <2>1
  <1>2. ASSUME NEW k \in Nat, k \in T
        PROVE  k + 1 \in T
    <2>1. PICK f : Collects(f, k)
      BY <1>2
    <2> DEFINE g == [s \in SUBSET (1..k + 1) |->
                       IF k + 1 \in s THEN WithKey(f[s \ {k + 1}], rs[k + 1])
                       ELSE f[s]]
    <2>2. ASSUME NEW s \in SUBSET (1..k + 1), s # {}
          PROVE  g[s] = WithKey(g[s \ {Table!Max(s)}], rs[Table!Max(s)])
      <3>1. CASE k + 1 \in s
        <4>1. Table!Max(s) = k + 1
          BY <3>1, LastRecord
        <4>2. s \ {k + 1} \in SUBSET (1..k + 1) /\ k + 1 \notin s \ {k + 1}
          OBVIOUS
        <4>3. g[s \ {k + 1}] = f[s \ {k + 1}]
          BY <4>2
        <4> QED BY <3>1, <4>1, <4>3
      <3>2. CASE k + 1 \notin s
        <4>1. s \in SUBSET (1..k)
          BY <3>2
        <4>2. s \ {Table!Max(s)} \in SUBSET (1..k + 1)
              /\ k + 1 \notin s \ {Table!Max(s)}
          BY <3>2
        <4>3. g[s] = f[s] /\ g[s \ {Table!Max(s)}] = f[s \ {Table!Max(s)}]
          BY <3>2, <4>2
        <4>4. f[s] = WithKey(f[s \ {Table!Max(s)}], rs[Table!Max(s)])
          BY <2>1, <2>2, <4>1
        <4> QED BY <4>3, <4>4
      <3> QED BY <3>1, <3>2
    <2>3. g[{}] = <<>>
      <3>1. {} \in SUBSET (1..k) /\ {} \in SUBSET (1..k + 1) /\ k + 1 \notin {}
        OBVIOUS
      <3>2. f[{}] = <<>>
        BY <2>1, <3>1
      <3> QED BY <3>1, <3>2
    <2>4. g = [s \in SUBSET (1..k + 1) |-> g[s]]
      OBVIOUS
    <2> HIDE DEF g
    <2>5. Collects(g, k + 1)
      BY <2>2, <2>3, <2>4
    <2> HIDE DEF Collects
    <2>6. \E f1 : Collects(f1, k + 1)
      BY <2>5
    <2> QED BY <2>6
  <1> HIDE DEF T
  <1>3. n \in T
    BY <1>1, <1>2, Induction
  <1> QED BY <1>3 DEF T

\* The keys are those of the first records, each once.
Keyed(keys, rs, k) ==
  /\ keys \in Seq({Table!Key(rs[i]) : i \in DOMAIN rs})
  /\ Table!ToSet(keys) = {Table!Key(rs[i]) : i \in 1..k}
  /\ \A i, j \in DOMAIN keys : keys[i] = keys[j] => i = j

\* With one more record the keys stay those of the records, each once.
LEMMA KeyComes ==
  ASSUME NEW R, NEW rs \in Seq(R), NEW k \in Nat, k + 1 <= Len(rs),
         NEW keys, Keyed(keys, rs, k)
  PROVE  Keyed(WithKey(keys, rs[k + 1]), rs, k + 1)
  <1> DEFINE all == {Table!Key(rs[i]) : i \in DOMAIN rs}
             key == Table!Key(rs[k + 1])
  <1>1. k + 1 \in DOMAIN rs /\ key \in all
    OBVIOUS
  <1>2. {Table!Key(rs[i]) : i \in 1..k + 1}
          = {Table!Key(rs[i]) : i \in 1..k} \cup {key}
    OBVIOUS
  <1>3. /\ keys \in Seq(all)
        /\ Table!ToSet(keys) = {Table!Key(rs[i]) : i \in 1..k}
        /\ \A i, j \in DOMAIN keys : keys[i] = keys[j] => i = j
    BY DEF Keyed
  <1> HIDE DEF all, key
  <1>4. CASE key \in Table!ToSet(keys)
    <2>1. WithKey(keys, rs[k + 1]) = keys
      BY <1>4 DEF WithKey, key
    <2> QED BY <1>2, <1>3, <1>4, <2>1 DEF Keyed, all
  <1>5. CASE key \notin Table!ToSet(keys)
    <2> DEFINE q == Append(keys, key)
    <2>1. WithKey(keys, rs[k + 1]) = q
      BY <1>5 DEF WithKey, key
    <2>2. /\ q \in Seq(all) /\ DOMAIN q = DOMAIN keys \cup {Len(keys) + 1}
          /\ Len(keys) + 1 \notin DOMAIN keys
          /\ q[Len(keys) + 1] = key /\ \A i \in DOMAIN keys : q[i] = keys[i]
      BY <1>1, <1>3
    <2> HIDE DEF q
    <2>3. Table!ToSet(q) = Table!ToSet(keys) \cup {key}
      BY <2>2, TableMeans
    <2>4. \A i \in DOMAIN keys : keys[i] # key
      BY <1>5, TableMeans
    <2>5. \A i, j \in DOMAIN q : q[i] = q[j] => i = j
      BY <1>3, <2>2, <2>4
    <2> QED BY <1>2, <1>3, <2>1, <2>2, <2>3, <2>5 DEF Keyed, all
  <1> QED BY <1>4, <1>5

\* The table has a row for each key of the records, and no two for one.
LEMMA KeysOfTable ==
  ASSUME NEW R, NEW rs \in Seq(R)
  PROVE  Keyed(Table!GroupKeys(rs), rs, Len(rs))
  <1> DEFINE n == Len(rs)
             iter == CHOOSE f : f = [s \in SUBSET (1..n) |->
                       IF s = {} THEN <<>>
                       ELSE WithKey(f[s \ {Table!Max(s)}], rs[Table!Max(s)])]
  <1>0. n \in Nat /\ DOMAIN rs = 1..n
    OBVIOUS
  <1>1. Table!GroupKeys(rs) = iter[DOMAIN rs]
    BY <1>0, Zenon
    DEF Table!GroupKeys, Table!FoldLeft, Table!MapThenFoldSet, WithKey
  <1>2. iter = [s \in SUBSET (1..n) |->
                  IF s = {} THEN <<>>
                  ELSE WithKey(iter[s \ {Table!Max(s)}], rs[Table!Max(s)])]
    BY <1>0, KeysExist
  <1> HIDE DEF iter
  <1> DEFINE T == {k \in Nat : k <= n => Keyed(iter[1..k], rs, k)}
  <1>3. 0 \in T
    <2>1. 1..0 = {} /\ {} \in SUBSET (1..n)
      OBVIOUS
    <2>2. iter[1..0] = <<>>
      BY <1>2, <2>1
    <2>3. Keyed(<<>>, rs, 0)
      BY <2>1, TableMeans DEF Keyed
    <2> QED BY <2>2, <2>3
  <1>4. ASSUME NEW k \in Nat, k \in T
        PROVE  k + 1 \in T
    <2> SUFFICES ASSUME k + 1 <= n
                 PROVE  Keyed(iter[1..k + 1], rs, k + 1)
      OBVIOUS
    <2>1. 1..k + 1 \in SUBSET (1..n) /\ 1..k + 1 # {} /\ k + 1 \in 1..k + 1
      BY <1>0
    <2>2. iter[1..k + 1] = WithKey(iter[1..k], rs[k + 1])
      <3>1. iter[1..k + 1] = WithKey(iter[(1..k + 1) \ {Table!Max(1..k + 1)}],
                                     rs[Table!Max(1..k + 1)])
        BY <1>2, <2>1
      <3>2. Table!Max(1..k + 1) = k + 1 /\ (1..k + 1) \ {k + 1} = 1..k
        BY <2>1, LastRecord
      <3> QED BY <3>1, <3>2
    <2>3. Keyed(iter[1..k], rs, k)
      BY <1>0, <1>4
    <2> QED BY <2>2, <2>3, KeyComes
  <1> HIDE DEF T
  <1>5. n \in T
    BY <1>0, <1>3, <1>4, Induction
  <1>6. Keyed(iter[1..n], rs, n)
    BY <1>0, <1>5 DEF T
  <1> QED BY <1>0, <1>1, <1>6

\* A cell that is not empty has the last of its records.
LEMMA CellHasTheLast ==
  ASSUME NEW R, NEW rs \in Seq(R), NEW key, NEW m
  PROVE  LET at == {i \in DOMAIN rs : /\ Table!Key(rs[i]) = key
                                      /\ rs[i].metric = m}
         IN /\ at = {} => Table!Cell(rs, key, m) = None
            /\ at # {} => \E j \in at : /\ \A i \in at : j >= i
                                        /\ Table!Cell(rs, key, m) = rs[j].value
  <1> DEFINE at == {i \in DOMAIN rs : /\ Table!Key(rs[i]) = key
                                      /\ rs[i].metric = m}
  <1>1. Table!Cell(rs, key, m) = IF at = {} THEN None
                                 ELSE rs[Table!Max(at)].value
    BY DEF Table!Cell
  <1>2. Len(rs) \in Nat /\ at \in SUBSET (0..Len(rs))
    OBVIOUS
  <1> HIDE DEF at
  <1>3. ASSUME at # {}
        PROVE  Table!Max(at) \in at /\ \A i \in at : Table!Max(at) >= i
    <2>1. \E x \in at : \A y \in at : x >= y
      BY <1>2, <1>3, GreatestNumber
    <2> QED BY <2>1 DEF Table!Max
  <1> QED BY <1>1, <1>3 DEF at

\* The table is the records.
LEMMA TableIsRight ==
  ASSUME Table!TypeOK
  PROVE  Table!TableIsTheRecords
  <1> DEFINE keys == Table!GroupKeys(s1)
             ms == {r.metric : r \in Table!ToSet(s1)}
             table == Table!PivotTelemetryRows(s1)
  <1>0. s1 \in Seq(Table!Record) /\ DOMAIN s1 = 1..Len(s1) /\ Len(s1) \in Nat
    BY DEF Table!TypeOK
  <1>1. Keyed(keys, s1, Len(s1))
    BY <1>0, KeysOfTable
  <1>2. /\ DOMAIN table = DOMAIN keys
        /\ \A i \in DOMAIN keys :
             /\ table[i].key = keys[i]
             /\ DOMAIN table[i].cells = ms
             /\ \A m \in ms : table[i].cells[m] = Table!Cell(s1, keys[i], m)
    BY DEF Table!PivotTelemetryRows
  <1> HIDE DEF keys, table
  <1>3. ASSUME NEW i \in DOMAIN s1
        PROVE  \/ \E row \in Table!ToSet(table) :
                    /\ row.key = Table!Key(s1[i])
                    /\ row.cells[s1[i].metric] = s1[i].value
               \/ \E j \in i + 1..Len(s1) :
                    /\ Table!Key(s1[j]) = Table!Key(s1[i])
                    /\ s1[j].metric = s1[i].metric
    <2> DEFINE key == Table!Key(s1[i])
               m == s1[i].metric
               at == {j \in DOMAIN s1 : /\ Table!Key(s1[j]) = key
                                        /\ s1[j].metric = m}
    <2>1. i \in at
      OBVIOUS
    <2>2. PICK j \in at : /\ \A k \in at : j >= k
                          /\ Table!Cell(s1, key, m) = s1[j].value
      BY <1>0, <2>1, CellHasTheLast
    <2>3. CASE j = i
      <3>1. key \in Table!ToSet(keys)
        BY <1>0, <1>1 DEF Keyed
      <3>2. PICK k \in DOMAIN keys : keys[k] = key
        BY <3>1, TableMeans
      <3>3. m \in ms
        BY TableMeans
      <3>4. table[k].key = key /\ table[k].cells[m] = s1[i].value
        BY <1>2, <2>2, <2>3, <3>2, <3>3
      <3>5. table[k] \in Table!ToSet(table)
        BY <1>2, TableMeans
      <3> QED BY <3>4, <3>5
    <2>4. CASE j # i
      <3>1. j \in i + 1..Len(s1)
        BY <1>0, <2>1, <2>2, <2>4
      <3> QED BY <2>2, <3>1
    <2> QED BY <2>3, <2>4
  <1>4. ASSUME NEW row \in Table!ToSet(table), NEW m \in DOMAIN row.cells,
               row.cells[m] # None
        PROVE  \E r \in Table!ToSet(s1) :
                 /\ Table!Key(r) = row.key /\ r.metric = m
                 /\ r.value = row.cells[m]
    <2>1. PICK k \in DOMAIN table : row = table[k]
      BY TableMeans
    <2>2. /\ row.key = keys[k] /\ m \in ms
          /\ row.cells[m] = Table!Cell(s1, keys[k], m)
      BY <1>2, <2>1
    <2> DEFINE at == {j \in DOMAIN s1 : /\ Table!Key(s1[j]) = keys[k]
                                        /\ s1[j].metric = m}
    <2>3. at # {}
      BY <1>0, <1>4, <2>2, CellHasTheLast
    <2>4. PICK j \in at : Table!Cell(s1, keys[k], m) = s1[j].value
      BY <1>0, <2>3, CellHasTheLast
    <2>5. s1[j] \in Table!ToSet(s1)
      BY TableMeans
    <2> QED BY <2>2, <2>4, <2>5
  <1>5. \A i, j \in DOMAIN table : table[i].key = table[j].key => i = j
    BY <1>1, <1>2 DEF Keyed
  <1> QED BY <1>3, <1>4, <1>5 DEF Table!TableIsTheRecords, table

\* The exported table has every record in the row of its time and place,
\* unless a later record is there, has nothing else, and has one row for
\* each (exportUtils.js).
THEOREM TableHasTheRecords == PagesSpec => []TableIsTheRecords
  <1>1. (view = "table" => Table!TypeOK) => TableIsTheRecords
    BY TableIsRight DEF TableIsTheRecords
  <1> QED BY <1>1, TableInvariant, PTL

-----------------------------------------------------------------------------
(* The pages together.                                                     *)

\* The control page among the pages behaves as ControlPanel says.
THEOREM ControlPageBehaves == PagesSpec => Spec
  <1>1. PagesInit => Init
    BY DEF PagesInit
  <1>2. [PagesNext]_pagesVars => [Next]_panelVars
    BY DEF PagesNext, Step, pagesVars
  <1> QED BY <1>1, <1>2, PTL DEF PagesSpec, Spec

\* The edit of a threshold is not thrown away by a save of something else;
\* the webhook's settings are saved only over settings that were loaded, and
\* what is typed there is not replaced by a late answer, but for failed or
\* overlapping loads; and the password of a node changes only to one that was
\* typed or imported (Alerts.jsx, submit; Webhook.jsx, saveSettings;
\* script.js:4-6).
THEOREM FormsKeepEdits == PagesSpec => EditsAreKept
  <1>1. ASSUME view = "thresholds" => Thresholds!PanelInv, [PagesNext]_pagesVars
        PROVE  view = "thresholds" => Thresholds!EditNotDiscarded
    BY <1>1, PanelFacts
  <1>2. ASSUME view = "webhook" => Webhook!WebhookInv, [PagesNext]_pagesVars
        PROVE  view = "webhook" => Webhook!SettingsKept
    BY <1>2, WebhookFacts
  <1>3. ASSUME view = "portal" => Portal!PortalInv, [PagesNext]_pagesVars
        PROVE  view = "portal" => Portal!PasswordKept
    <2>1. view = "portal" => [Portal!Next]_(Portal!portalVars)
      BY <1>3
      DEF PagesNext, Step, pagesVars, shared, analytics, Portal!portalVars,
          Portal!screen, Portal!node, Portal!form, Portal!table
    <2> QED BY <1>3, <2>1, PortalStep, PagesAssumption DEF PagesAssumption
  <1> QED BY <1>1, <1>2, <1>3, ThresholdsInvariant, WebhookInvariant,
             PortalInvariant, PTL DEF PagesSpec, EditsAreKept

\* The control page shows another node's outputs only after a late answer or
\* a failed load, among the pages too (ControlPanel.jsx, loadAll).
THEOREM PanelIsExplained == PagesSpec => []ForeignPanelExplained
  BY ControlPageBehaves, PanelExplained, PTL

\* The page on show is one of the pages.
LEMMA OnePage == PagesSpec => [](view \in Views)
  <1>1. PagesInit => view \in Views
    BY DEF PagesInit, Views
  <1>2. view \in Views /\ [PagesNext]_pagesVars => (view \in Views)'
    BY DEF PagesNext, pagesVars
  <1> QED BY <1>1, <1>2, PTL DEF PagesSpec

\* The state of every page has its type, in every behaviour.
THEOREM PagesAreTyped == PagesSpec => []TypesOK
  <1>1. Monitor!Explained => Monitor!TypeOK
    BY DEF Monitor!Explained
  <1>2. Alerts!HistoryInv => Alerts!TypeOK
    BY HistoryFacts
  <1>3. Thresholds!PanelInv => Thresholds!TypeOK
    BY DEF Thresholds!PanelInv
  <1>4. Webhook!WebhookInv => Webhook!TypeOK
    BY DEF Webhook!WebhookInv
  <1>5. Analytics!AnalyticsInv => Analytics!TypeOK
    BY DEF Analytics!AnalyticsInv
  <1>6. Portal!PortalInv => Portal!TypeOK
    BY PortalFacts
  <1>7. Live!LiveInv => Live!TypeOK
    BY LiveFacts
  <1>8. Pictures!PicturesInv => Pictures!TypeOK
    BY DEF Pictures!PicturesInv
  <1>9. TagTable!EditorInv => TagTable!TypeOK
    BY DEF TagTable!EditorInv
  <1>10. Actuators!ActuatorInv => Actuators!TypeOK
    BY DEF Actuators!ActuatorInv
  <1>11. Accounts!UsersInv => Accounts!TypeOK
    BY DEF Accounts!UsersInv
  <1>12. Scope!ScopeInv => Scope!TypeOK
    BY DEF Scope!ScopeInv
  <1>13. Pairing!PairingInv => Pairing!TypeOK
    BY DEF Pairing!PairingInv
  <1>14. Timeline!TimelineInv => Timeline!TypeOK
    BY DEF Timeline!TimelineInv
  <1>15. Charts!ChartInv => Charts!TypeOK
    BY DEF Charts!ChartInv
  <1> DEFINE Monitoring ==
               /\ view = "monitor" => Monitor!Explained
               /\ view = "timeline" => Timeline!TimelineInv
               /\ view = "alerts" => Alerts!HistoryInv
               /\ view = "thresholds" => Thresholds!PanelInv
               /\ view = "webhook" => Webhook!WebhookInv
               /\ view = "analytics" => Analytics!AnalyticsInv
               /\ view = "charts" => Charts!ChartInv
             Configuring ==
               /\ view = "portal" => Portal!PortalInv
               /\ view = "tags" => TagTable!EditorInv
               /\ view = "actuators" => Actuators!ActuatorInv
               /\ view = "pairing" => Pairing!PairingInv
             Others ==
               /\ view = "live" => Live!LiveInv
               /\ view = "gallery" => Pictures!PicturesInv
               /\ view = "export" => Export!TypeOK
               /\ view = "table" => Table!TypeOK
               /\ view = "users" => Accounts!UsersInv
               /\ view = "modules" => Scope!ScopeInv
  <1>16. PagesSpec => []Monitoring
    BY MonitorInvariant, TimelineInvariant, AlertsInvariant,
       ThresholdsInvariant, WebhookInvariant, AnalyticsInvariant,
       ChartsInvariant, PTL
  <1>17. PagesSpec => []Configuring
    BY PortalInvariant, TagsInvariant, ActuatorsInvariant, PairingInvariant,
       PTL
  <1>18. PagesSpec => []Others
    BY LiveInvariant, GalleryInvariant, ExportInvariant, TableInvariant,
       UsersInvariant, ModulesInvariant, PTL
  <1>19. ASSUME view \in Views, TypeOK, Monitoring, Configuring, Others
         PROVE  TypesOK
    BY <1>19, <1>1, <1>2, <1>3, <1>4, <1>5, <1>6, <1>7, <1>8, <1>9, <1>10,
       <1>11, <1>12, <1>13, <1>14, <1>15 DEF TypesOK
  <1> HIDE DEF Monitoring, Configuring, Others
  <1> QED BY <1>16, <1>17, <1>18, <1>19, OnePage, ControlPageBehaves,
             TypeCorrect, PTL
=============================================================================
