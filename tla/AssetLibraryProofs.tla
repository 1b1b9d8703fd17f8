------------------------- MODULE AssetLibraryProofs -------------------------
(***************************************************************************)
(* Theorems about AssetLibrary, for any number of assets, hashes, stacks,  *)
(* pages, chapters and concurrent purges.                                  *)
(***************************************************************************)
EXTENDS AssetLibrary, FiniteSetTheorems, WellFoundedInduction, TLAPS

-----------------------------------------------------------------------------
(* Finite sets of naturals.                                                *)

\* Every non-empty set of naturals has a least element.
LEMMA LeastNatural ==
  ASSUME NEW T \in SUBSET Nat, T # {}
  PROVE  \E n \in T : \A m \in T : n <= m
<1>1. PICK n \in T : \A m \in T : ~ (<<m, n>> \in OpToRel(<, Nat))
  BY NatLessThanWellFounded, WFMin
<1>2. ASSUME NEW m \in T PROVE n <= m
  <2>1. <<m, n>> \in Nat \X Nat
    OBVIOUS
  <2>2. ~ (m < n)
    BY <1>1, <2>1 DEF OpToRel
  <2> QED BY <2>2
<1> QED BY <1>2

\* Max picks the greatest element: the one with the fewest above it.
LEMMA MaxIsGreatest ==
  ASSUME NEW S \in SUBSET Nat, IsFiniteSet(S), S # {}
  PROVE  Max(S) \in S /\ \A x \in S : Max(S) >= x
<1> DEFINE above(x) == {y \in S : y > x}
           counts == {Cardinality(above(x)) : x \in S}
<1>1. \A x \in S : IsFiniteSet(above(x)) /\ Cardinality(above(x)) \in Nat
  BY FS_Subset, FS_CardinalityType
<1>2. counts \in SUBSET Nat /\ counts # {}
  BY <1>1
<1>3. PICK n \in counts : \A m \in counts : n <= m
  <2> HIDE DEF counts
  <2> QED BY <1>2, LeastNatural
<1>4. PICK x \in S : n = Cardinality(above(x))
  OBVIOUS
<1>5. ASSUME NEW y \in S, y > x PROVE FALSE
  <2>1. above(y) \in SUBSET above(x) /\ y \in above(x) /\ y \notin above(y)
    <3>1. x \in Nat /\ y \in Nat /\ \A z \in S : z \in Nat
      OBVIOUS
    <3>2. \A z \in S : z > y => z > x
      BY <1>5, <3>1
    <3>3. ~ (y > y)
      BY <3>1
    <3> QED BY <1>5, <3>2, <3>3
  <2>2. Cardinality(above(x)) <= Cardinality(above(y))
    BY <1>3, <1>4
  <2>3. /\ Cardinality(above(y)) <= Cardinality(above(x))
        /\ Cardinality(above(x)) = Cardinality(above(y)) => above(x) = above(y)
    <3> HIDE DEF above
    <3> QED BY <1>1, <2>1, FS_Subset
  <2>4. Cardinality(above(x)) \in Nat /\ Cardinality(above(y)) \in Nat
    BY <1>1
  <2> HIDE DEF above
  <2> QED BY <2>1, <2>2, <2>3, <2>4
<1>6. \A y \in S : x >= y
  BY <1>5
<1> QED BY <1>6 DEF Max

-----------------------------------------------------------------------------
(* The operators have their types.                                         *)

LEMMA PagesAreFinite ==
  ASSUME NEW pg \in Pages, NEW A \in SUBSET Assets
  PROVE  /\ IsFiniteSet(A)
         /\ Cardinality(A) \in Nat
         /\ IsFiniteSet({pg[a].no : a \in A})
         /\ {pg[a].no : a \in A} \in SUBSET Nat
<1>1. IsFiniteSet(A) /\ Cardinality(A) \in Nat
  BY AssetsAssumption, FS_Subset, FS_CardinalityType
<1> DEFINE numbers == {pg[a].no : a \in A}
           f == [a \in A |-> pg[a].no]
<1>2. f \in Surjection(A, numbers)
  BY DEF Surjection
<1>3. IsFiniteSet(numbers)
  <2> HIDE DEF f, numbers
  <2> QED BY <1>1, <1>2, FS_Surjection
<1>4. numbers \in SUBSET Nat
  BY DEF Pages, Page
<1> QED BY <1>1, <1>3, <1>4

LEMMA NextPageNoType ==
  ASSUME NEW pg \in Pages, NEW chapter
  PROVE  /\ NextPageNo(pg, chapter) \in Nat \ {0}
         /\ \A a \in Assets : pg[a].chapter = chapter => pg[a].no < NextPageNo(pg, chapter)
<1> DEFINE A == {b \in Assets : pg[b].chapter = chapter}
           numbers == {pg[a].no : a \in A}
<1>1. IsFiniteSet(numbers) /\ numbers \in SUBSET Nat
  BY PagesAreFinite
<1>2. IsFiniteSet({0} \cup numbers) /\ {0} \cup numbers \in SUBSET Nat
  <2>1. {0} \cup numbers = numbers \cup {0}
    OBVIOUS
  <2> HIDE DEF numbers
  <2> QED BY <1>1, <2>1, FS_AddElement
<1>3. /\ Max({0} \cup numbers) \in Nat
      /\ \A n \in numbers : Max({0} \cup numbers) >= n
  <2> HIDE DEF numbers
  <2> QED BY <1>2, MaxIsGreatest
<1>4. NextPageNo(pg, chapter) = Max({0} \cup numbers) + 1
  BY DEF NextPageNo
<1>5. \A a \in Assets : pg[a].chapter = chapter => pg[a].no \in numbers
  OBVIOUS
<1>6. \A a \in Assets : pg[a].no \in Nat
  BY DEF Pages, Page
<1> HIDE DEF numbers
<1> QED BY <1>3, <1>4, <1>5, <1>6

LEMMA PositionType ==
  ASSUME NEW list \in PageLists, NEW a \in Range(list)
  PROVE  Position(list, a) \in Nat \ {0} /\ a \in Assets /\ list[Position(list, a)] = a
<1>1. PICK n \in 0 .. MaxPages : list \in [1 .. n -> Assets]
  BY DEF PageLists
<1>2. PICK i \in 1 .. n : list[i] = a
  BY <1>1 DEF Range
<1>3. Position(list, a) \in 1 .. n /\ list[Position(list, a)] = a
  BY <1>1, <1>2 DEF Position
<1> QED BY <1>1, <1>3, BoundsAssumption

LEMMA InsertPagesType ==
  ASSUME NEW pg \in Pages, NEW flags \in Pages, NEW chapter \in Nat, NEW first \in Nat,
         NEW list \in PageLists
  PROVE  InsertPages(pg, chapter, first, list, flags) \in Pages
<1> SUFFICES ASSUME NEW a \in Assets
             PROVE  InsertPages(pg, chapter, first, list, flags)[a] \in Page
  BY DEF InsertPages, Pages
<1>1. CASE a \in Range(list)
  <2>1. Position(list, a) \in Nat \ {0}
    BY <1>1, PositionType
  <2>2. first + Position(list, a) - 1 \in Nat
    BY <2>1
  <2>3. flags[a].show \in BOOLEAN
    BY DEF Pages, Page
  <2> QED BY <1>1, <2>2, <2>3 DEF InsertPages, Page
<1>2. CASE a \notin Range(list)
  BY <1>2 DEF InsertPages, Pages
<1> QED BY <1>1, <1>2

LEMMA NoPagesType == NoPages \in Pages
  BY DEF NoPages, NoPage, Pages, Page

LEMMA RenumberPagesType ==
  ASSUME NEW pg \in Pages
  PROVE  RenumberPages(pg) \in Pages
<1> SUFFICES ASSUME NEW a \in Assets PROVE RenumberPages(pg)[a] \in Page
  BY DEF RenumberPages, Pages
<1> DEFINE before == {b \in Assets : pg[b].chapter = pg[a].chapter /\ pg[b].no <= pg[a].no}
<1>1. Cardinality(before) \in Nat
  BY PagesAreFinite
<1>2. RenumberPages(pg)[a] = IF pg[a].chapter = 0 THEN NoPage
                             ELSE [pg[a] EXCEPT !.no = Cardinality(before)]
  BY DEF RenumberPages
<1> HIDE DEF before
<1> QED BY <1>1, <1>2 DEF Pages, Page, NoPage

LEMMA PlaceChaptersType ==
  ASSUME NEW chapters \in ChapterLists, NEW flags \in Pages
  PROVE  PlaceChapters(chapters, flags) \in Pages
<1> SUFFICES ASSUME NEW a \in Assets PROVE PlaceChapters(chapters, flags)[a] \in Page
  BY DEF PlaceChapters, Pages
<1>1. PICK n \in 1 .. MaxChapters : chapters \in [1 .. n -> PageLists]
  BY DEF ChapterLists, ChapterListsUpTo
<1>2. CASE a \in ChapterPages(chapters)
  <2> DEFINE c == CHOOSE c \in DOMAIN chapters : a \in Range(chapters[c])
  <2>1. c \in 1 .. n
    BY <1>1, <1>2 DEF ChapterPages
  <2>2. InsertPages(NoPages, c, 1, chapters[c], flags) \in Pages
    <3>1. c \in Nat /\ chapters[c] \in PageLists
      BY <2>1, <1>1, BoundsAssumption
    <3> HIDE DEF c
    <3> QED BY <3>1, InsertPagesType, NoPagesType
  <2>3. PlaceChapters(chapters, flags)[a] = InsertPages(NoPages, c, 1, chapters[c], flags)[a]
    BY <1>2 DEF PlaceChapters
  <2> HIDE DEF c
  <2> QED BY <2>2, <2>3 DEF Pages
<1>3. CASE a \notin ChapterPages(chapters)
  BY <1>3 DEF PlaceChapters, NoPage, Page
<1> QED BY <1>2, <1>3

\* ORDER BY chapter_no, page_no LIMIT 1 finds a page if there is one.
LEMMA FirstPageType ==
  ASSUME NEW pg \in Pages
  PROVE  /\ PagesOf(pg) = {} => FirstPage(pg) = NoAsset
         /\ PagesOf(pg) # {} => FirstPage(pg) \in PagesOf(pg)
<1>1. PagesOf(pg) = {} => FirstPage(pg) = NoAsset
  BY DEF FirstPage
<1>2. ASSUME PagesOf(pg) # {} PROVE FirstPage(pg) \in PagesOf(pg)
  <2> DEFINE P == PagesOf(pg)
             C == {pg[a].chapter : a \in P}
  <2>1. C \in SUBSET Nat /\ C # {}
    BY <1>2 DEF PagesOf, Pages, Page
  <2>2. PICK c \in C : \A d \in C : c <= d
    BY <2>1, LeastNatural
  <2> DEFINE N == {pg[a].no : a \in {b \in P : pg[b].chapter = c}}
  <2>3. N \in SUBSET Nat /\ N # {}
    BY <2>2 DEF PagesOf, Pages, Page
  <2>4. PICK n \in N : \A m \in N : n <= m
    BY <2>3, LeastNatural
  <2>5. PICK a \in P : pg[a].chapter = c /\ pg[a].no = n
    BY <2>4
  <2>6. \A b \in P : \/ pg[a].chapter < pg[b].chapter
                     \/ pg[a].chapter = pg[b].chapter /\ pg[a].no <= pg[b].no
    <3> TAKE b \in P
    <3>1. pg[b].chapter \in Nat /\ pg[b].chapter \in C /\ c \in Nat
      BY <2>1, <2>2 DEF PagesOf, Pages, Page
    <3>2. c <= pg[b].chapter
      BY <3>1, <2>2
    <3>3. CASE pg[b].chapter = c
      BY <3>3, <2>4, <2>5
    <3>4. CASE pg[b].chapter # c
      BY <3>4, <3>1, <3>2, <2>5
    <3> QED BY <3>3, <3>4
  <2> QED BY <1>2, <2>5, <2>6 DEF FirstPage
<1> QED BY <1>1, <1>2

LEMMA RowUpdateType ==
  ASSUME TypeOK, NEW promoted \in SUBSET Assets, NEW affected \in SUBSET Assets,
         UpdateRows(promoted, affected)
  PROVE  /\ row' \in [Assets -> Row]
         /\ \A a \in Assets :
              /\ row'[a].duplicateOf = row[a].duplicateOf
              /\ row'[a].lifecycle = IF a \in promoted /\ row[a].lifecycle = "duplicate"
                                     THEN "active" ELSE row[a].lifecycle
<1> DEFINE promotedRows == PromoteDuplicates(row, promoted)
<1>1. promotedRows \in [Assets -> Row]
  <2>1. row \in [Assets -> Row]
    BY DEF TypeOK
  <2> QED BY <2>1 DEF PromoteDuplicates, Row, Lifecycles, Timers
<1>2. \A a \in Assets :
        /\ promotedRows[a].duplicateOf = row[a].duplicateOf
        /\ promotedRows[a].lifecycle = IF a \in promoted /\ row[a].lifecycle = "duplicate"
                                       THEN "active" ELSE row[a].lifecycle
  <2>1. row \in [Assets -> Row]
    BY DEF TypeOK
  <2> QED BY <2>1 DEF PromoteDuplicates, Row
<1> HIDE DEF promotedRows
<1>3. row' = RecomputeVisibility(promotedRows, page', affected)
  BY DEF UpdateRows, promotedRows
<1>4. \A lifecycle, pg, a : Shown(lifecycle, pg, a) \in BOOLEAN
  BY DEF Shown
<1>5. \A a \in Assets : row'[a] = IF a \in affected
        THEN [promotedRows[a] EXCEPT !.visible = Shown(promotedRows[a].lifecycle, page', a)]
        ELSE promotedRows[a]
  BY <1>3 DEF RecomputeVisibility
<1>6. row' = [a \in Assets |-> row'[a]]
  BY <1>3 DEF RecomputeVisibility
<1> QED BY <1>1, <1>2, <1>4, <1>5, <1>6 DEF Row

-----------------------------------------------------------------------------
(* Type correctness.                                                       *)

LEMMA IdleType == Idle \in Purge
  BY DEF Idle, Purge, Phases

LEMMA ResumingType ==
  ASSUME NEW phase \in Phases, NEW rows
  PROVE  Resuming(phase, rows) \in Purge
  BY DEF Resuming, AllPurging, Purge

LEMMA NoRowType == NoRow \in Row
  BY DEF NoRow, Row, Lifecycles, Timers

LEMMA InitType == Init => TypeOK
<1> SUFFICES ASSUME Init PROVE TypeOK
  OBVIOUS
<1>1. row \in [Assets -> Row] /\ stack \in [Stacks -> Stack] /\ page \in [Stacks -> Pages]
  <2>1. CASE EmptyTables
    <3>1. NoStack \in Stack
      BY BoundsAssumption DEF NoStack, Stack
    <3> QED BY <2>1, <3>1, NoRowType, NoPagesType DEF EmptyTables
  <2>2. ASSUME NEW p \in Assets, NEW D \in SUBSET (Assets \ {p}), LegacyDuplicates(p, D)
        PROVE  row \in [Assets -> Row] /\ stack \in [Stacks -> Stack] /\ page \in [Stacks -> Pages]
    <3>1. NoStack \in Stack
      BY BoundsAssumption DEF NoStack, Stack
    <3>2. row \in [Assets -> Row]
      BY <2>2 DEF LegacyDuplicates, NoRow, Row, Lifecycles, Timers
    <3> QED BY <2>2, <3>1, <3>2, NoPagesType DEF LegacyDuplicates
  <2>3. ASSUME NEW p \in Assets, NEW s \in Stacks, NEW wasTrashed \in BOOLEAN,
               LegacyPage(p, s, wasTrashed)
        PROVE  row \in [Assets -> Row] /\ stack \in [Stacks -> Stack] /\ page \in [Stacks -> Pages]
    <3>1. stack \in [Stacks -> Stack]
      BY <2>3, BoundsAssumption DEF LegacyPage, NoStack, Stack
    <3>2. row \in [Assets -> Row]
      BY <2>3 DEF LegacyPage, NoRow, Row, Lifecycles, Timers
    <3>3. InsertPages(NoPages, 1, 1, <<p>>, NoPages) \in Pages
      <4>1. \A a \in Assets : a \in Range(<<p>>) => Position(<<p>>, a) = 1
        BY DEF Range, Position
      <4> QED BY <4>1, NoPagesType DEF InsertPages, Pages, Page, NoPages, NoPage
    <3>4. page \in [Stacks -> Pages]
      BY <2>3, <3>3, NoPagesType DEF LegacyPage
    <3> QED BY <3>1, <3>2, <3>4
  <2> QED BY <2>1, <2>2, <2>3 DEF Init
<1>2. purger \in [Purgers -> Purge]
  BY IdleType, ResumingType DEF Init, Phases
<1> QED BY <1>1, <1>2 DEF Init, TypeOK

LEMMA UploadType ==
  ASSUME TypeOK, NEW a \in Assets, UploadStep(a)
  PROVE  TypeOK'
<1>1. CASE WriteUpload(a)
  BY <1>1 DEF TypeOK, WriteUpload, Tables
<1>2. CASE CommitUpload(a)
  <2>1. row \in [Assets -> Row]
    BY DEF TypeOK
  <2>2. [NoRow EXCEPT !.lifecycle = "active", !.visible = TRUE] \in Row
    BY DEF NoRow, Row, Lifecycles, Timers
  <2>3. \A p \in Assets :
          [NoRow EXCEPT !.lifecycle = "duplicate", !.duplicateOf = p, !.timer = "running"] \in Row
    BY DEF NoRow, Row, Lifecycles, Timers
  <2>4. row' \in [Assets -> Row]
    BY <1>2, <2>1, <2>2, <2>3 DEF CommitUpload, Primaries
  <2> QED BY <1>2, <2>4 DEF TypeOK, CommitUpload, Files
<1>3. CASE FailUpload(a)
  BY <1>3 DEF TypeOK, FailUpload, Tables
<1> QED BY <1>1, <1>2, <1>3 DEF UploadStep

LEMMA AssetType ==
  ASSUME TypeOK, NEW a \in Assets, AssetStep(a)
  PROVE  TypeOK'
<1>1. row \in [Assets -> Row]
  BY DEF TypeOK
<1>2. CASE Trash(a)
  <2>1. row' \in [Assets -> Row]
    BY <1>1, <1>2 DEF Trash, Row, Lifecycles, Timers
  <2> QED BY <1>2, <2>1 DEF TypeOK, Trash, Files, InMemory
<1>3. CASE RestoreDuplicate(a)
  <2>1. row' \in [Assets -> Row]
    BY <1>1, <1>3 DEF RestoreDuplicate, Row, Lifecycles, Timers
  <2> QED BY <1>3, <2>1 DEF TypeOK, RestoreDuplicate, Files, InMemory
<1>4. CASE RestorePrimary(a)
  <2>1. Reparented(a) \in [Assets -> Row]
    BY <1>1 DEF Reparented, Redirect, Row
  <2>2. Shown("active", page, a) \in BOOLEAN
    BY DEF Shown
  <2>3. row' \in [Assets -> Row]
    <3> DEFINE rows == Reparented(a)
               shown == Shown("active", page, a)
    <3>1. row' = [rows EXCEPT ![a] = [@ EXCEPT !.lifecycle = "active", !.trashed = FALSE,
                                               !.timer = "none", !.visible = shown]]
      BY <1>4 DEF RestorePrimary
    <3>2. rows \in [Assets -> Row] /\ shown \in BOOLEAN
      BY <2>1, <2>2
    <3> HIDE DEF rows, shown
    <3> QED BY <3>1, <3>2 DEF Row, Lifecycles, Timers
  <2> QED BY <1>4, <2>3 DEF TypeOK, RestorePrimary, Files, InMemory
<1>5. CASE Expire(a)
  <2>1. row' \in [Assets -> Row]
    BY <1>1, <1>5 DEF Expire, Row, Timers
  <2> QED BY <1>5, <2>1 DEF TypeOK, Expire, Files, InMemory
<1> QED BY <1>2, <1>3, <1>4, <1>5 DEF AssetStep

LEMMA ThumbnailType ==
  ASSUME TypeOK, NEW a \in Assets, ThumbnailStep(a)
  PROVE  TypeOK'
  BY DEF TypeOK, ThumbnailStep, ReadSource, StoreDerived, Tables, Files

\* An edit of stack s leaves everything well typed if its new pages are.
LEMMA StackEditType ==
  ASSUME TypeOK, NEW s \in Stacks, NEW pg \in Pages,
         NEW promoted \in SUBSET Assets, NEW affected \in SUBSET Assets,
         SetPages(s, pg), UpdateRows(promoted, affected),
         stack' \in [Stacks -> Stack], UNCHANGED <<Files, InMemory>>
  PROVE  TypeOK'
<1>1. row' \in [Assets -> Row]
  BY RowUpdateType
<1>2. page' \in [Stacks -> Pages]
  BY DEF SetPages, TypeOK
<1> QED BY <1>1, <1>2 DEF TypeOK, Files, InMemory

LEMMA ListType ==
  ASSUME NEW list \in PageLists
  PROVE  /\ Range(list) \in SUBSET Assets
         /\ list # <<>> => list[1] \in Assets
<1>1. PICK n \in 0 .. MaxPages : list \in [1 .. n -> Assets]
  BY DEF PageLists
<1>2. Range(list) \in SUBSET Assets
  BY <1>1 DEF Range
<1>3. ASSUME list # <<>> PROVE list[1] \in Assets
  <2>1. n # 0
    BY <1>1, <1>3
  <2> QED BY <1>1, <2>1, BoundsAssumption
<1> QED BY <1>2, <1>3

LEMMA ChapterListType ==
  ASSUME NEW chapters \in ChapterLists
  PROVE  /\ Len(chapters) \in 1 .. MaxChapters
         /\ ChapterPages(chapters) \in SUBSET Assets
<1>1. PICK n \in 1 .. MaxChapters : chapters \in [1 .. n -> PageLists]
  BY DEF ChapterLists, ChapterListsUpTo
<1>2. Len(chapters) = n
  BY <1>1, BoundsAssumption
<1>3. ChapterPages(chapters) \in SUBSET Assets
  BY <1>1, ListType DEF ChapterPages
<1> QED BY <1>1, <1>2, <1>3

LEMMA StackType ==
  ASSUME TypeOK, NEW s \in Stacks, StackStep(s)
  PROVE  TypeOK'
<1> USE DEF TypeOK
<1>1. ASSUME NEW list \in PageLists, CreateStack(s, list) PROVE TypeOK'
  <2>1. InsertPages(NoPages, 1, 1, list, NoPages) \in Pages
    BY InsertPagesType, NoPagesType
  <2>2. stack' \in [Stacks -> Stack]
    BY <1>1, ListType, BoundsAssumption DEF CreateStack, Stack
  <2> QED BY <1>1, <2>1, <2>2, ListType, StackEditType DEF CreateStack
<1>2. ASSUME NEW list \in PageLists, NEW chapter \in 1 .. MaxChapters, AddPages(s, list, chapter)
      PROVE  TypeOK'
  <2> DEFINE pg == InsertPages(page[s], chapter, NextPageNo(page[s], chapter), list, NoPages)
  <2>1. page[s] \in Pages /\ chapter \in Nat
    BY BoundsAssumption
  <2>2. NextPageNo(page[s], chapter) \in Nat
    BY <2>1, NextPageNoType
  <2>3. pg \in Pages
    BY <2>1, <2>2, InsertPagesType, NoPagesType
  <2>4. stack' \in [Stacks -> Stack]
    BY <1>2, ListType DEF AddPages, Stack
  <2> QED BY <1>2, <2>3, <2>4, ListType, StackEditType DEF AddPages
<1>3. ASSUME NEW chapters \in ChapterLists, ReplaceStructure(s, chapters) PROVE TypeOK'
  <2>1. page[s] \in Pages /\ PagesOf(page[s]) \in SUBSET Assets
    BY DEF PagesOf
  <2>2. PlaceChapters(chapters, page[s]) \in Pages
    BY <2>1, PlaceChaptersType
  <2>3. page'[s] \in Pages
    BY <1>3, <2>2 DEF ReplaceStructure, SetPages
  <2>4. FirstPage(page'[s]) \in Assets \cup {NoAsset}
    BY <2>3, FirstPageType DEF PagesOf
  <2>5. stack' \in [Stacks -> Stack]
    BY <1>3, <2>4, ChapterListType, BoundsAssumption DEF ReplaceStructure, Stack
  <2>6. PagesOf(page[s]) \cup ChapterPages(chapters) \in SUBSET Assets
    BY <2>1, ChapterListType
  <2> QED BY <1>3, <2>2, <2>5, <2>6, ChapterListType, StackEditType DEF ReplaceStructure
<1>4. ASSUME NEW a \in Assets, RemovePage(s, a) PROVE TypeOK'
  <2>1. [page[s] EXCEPT ![a] = NoPage] \in Pages
    BY NoPagesType DEF NoPages, Pages
  <2>2. RenumberPages([page[s] EXCEPT ![a] = NoPage]) \in Pages
    BY <2>1, RenumberPagesType
  <2>3. page'[s] \in Pages
    BY <1>4, <2>2 DEF RemovePage, SetPages
  <2>4. FirstPage(page'[s]) \in Assets \cup {NoAsset}
    BY <2>3, FirstPageType DEF PagesOf
  <2>5. stack' \in [Stacks -> Stack]
    BY <1>4, <2>4 DEF RemovePage, Stack
  <2> QED BY <1>4, <2>2, <2>5, StackEditType DEF RemovePage
<1>5. ASSUME NEW a \in Assets, SetCover(s, a) PROVE TypeOK'
  BY <1>5 DEF SetCover, Files, InMemory, Stack
<1>6. ASSUME NEW a \in Assets, NEW show \in BOOLEAN, SetPageFlag(s, a, show) PROVE TypeOK'
  <2>1. [page[s] EXCEPT ![a].show = show] \in Pages
    BY DEF Pages, Page
  <2>2. stack' \in [Stacks -> Stack]
    BY <1>6 DEF SetPageFlag
  <2>3. UNCHANGED <<Files, InMemory>> /\ UpdateRows({}, {a})
    BY <1>6 DEF SetPageFlag
  <2> QED BY <1>6, <2>1, <2>2, <2>3, StackEditType DEF SetPageFlag
<1>7. ASSUME DeleteStack(s) PROVE TypeOK'
  <2>1. PagesOf(page[s]) \in SUBSET Assets
    BY DEF PagesOf
  <2>2. stack' \in [Stacks -> Stack]
    BY <1>7, BoundsAssumption DEF DeleteStack, Stack, NoStack
  <2> QED BY <1>7, <2>1, <2>2, NoPagesType, StackEditType DEF DeleteStack
<1> QED BY <1>1, <1>2, <1>3, <1>4, <1>5, <1>6, <1>7 DEF StackStep

LEMMA PurgerType ==
  ASSUME TypeOK, NEW w \in Purgers, EndPurge(w) \/ RunDue \/ MarkDue
  PROVE  TypeOK'
<1>1. row \in [Assets -> Row] /\ purger \in [Purgers -> Purge]
  BY DEF TypeOK
<1>2. CASE RunDue
  <2>1. Resuming("resume", row) \in Purge
    BY ResumingType DEF Phases
  <2> QED BY <1>2, <2>1 DEF RunDue, TypeOK, Tables, Files
<1>3. CASE MarkDue
  <2>1. row' \in [Assets -> Row]
    BY <1>1, <1>3 DEF MarkDue, MarkAndList, Row, Lifecycles
  <2>2. Due \in SUBSET Assets
    BY DEF Due, Expired
  <2>3. purger' \in [Purgers -> Purge]
    BY <1>1, <1>3, <2>2 DEF MarkDue, MarkAndList, Purge, Phases
  <2> QED BY <1>3, <2>1, <2>3 DEF MarkDue, MarkAndList, TypeOK, Files
<1>4. CASE EndPurge(w)
  BY <1>4, IdleType DEF EndPurge, TypeOK, Tables, Files
<1> QED BY <1>2, <1>3, <1>4

LEMMA TombstoneType ==
  ASSUME TypeOK, NEW w \in Purgers, NEW a \in Assets,
         \/ PurgeNow(w, a) \/ CheckTombstone(w, a) \/ Erase(w, a)
         \/ EraseFails(w, a) \/ EraseLost(w, a)
  PROVE  TypeOK'
<1>1. row \in [Assets -> Row] /\ purger \in [Purgers -> Purge]
  BY DEF TypeOK
<1>2. Stopped(w) \in Purge
  BY IdleType, ResumingType DEF Stopped, Phases
<1>3. CASE PurgeNow(w, a)
  <2>1. row' \in [Assets -> Row]
    BY <1>1, <1>3 DEF PurgeNow, Row, Lifecycles
  <2>2. purger' \in [Purgers -> Purge]
    BY <1>1, <1>3 DEF PurgeNow, Purge, Phases
  <2> QED BY <1>3, <2>1, <2>2 DEF PurgeNow, TypeOK, Files
<1>4. CASE CheckTombstone(w, a)
  <2>1. row' \in [Assets -> Row]
    <3>1. CASE row[a].lifecycle = "purging" /\ Referenced(a)
      <4> DEFINE visible == ~row[a].trashed /\ OnPage(a) /\ Shown("active", page, a)
      <4>1. row' = [row EXCEPT ![a] = [@ EXCEPT !.lifecycle = FormerLifecycle(a),
                                                !.visible = visible]]
        BY <1>4, <3>1 DEF CheckTombstone
      <4>2. visible \in BOOLEAN
        OBVIOUS
      <4>3. FormerLifecycle(a) \in Lifecycles
        <5>1. row[a].trashed \in BOOLEAN
          BY <1>1 DEF Row
        <5> QED BY <5>1 DEF FormerLifecycle, Lifecycles
      <4> HIDE DEF visible
      <4> QED BY <1>1, <4>1, <4>2, <4>3 DEF Row
    <3>2. CASE ~(row[a].lifecycle = "purging" /\ Referenced(a))
      BY <1>1, <1>4, <3>2 DEF CheckTombstone
    <3> QED BY <3>1, <3>2
  <2>2. purger' \in [Purgers -> Purge]
    <3>1. CASE purger' = [purger EXCEPT ![w].todo = @ \ {a}]
      BY <1>1, <3>1 DEF Purge
    <3>2. CASE purger' = [purger EXCEPT ![w].checked = a]
      BY <1>1, <3>2 DEF Purge
    <3>3. \/ purger' = [purger EXCEPT ![w].todo = @ \ {a}]
          \/ purger' = [purger EXCEPT ![w].checked = a]
      BY <1>4, Zenon DEF CheckTombstone
    <3> QED BY <3>1, <3>2, <3>3
  <2> QED BY <1>4, <2>1, <2>2 DEF CheckTombstone, TypeOK, Files
<1>5. CASE Erase(w, a)
  <2>1. row' \in [Assets -> Row]
    BY <1>1, <1>5, NoRowType DEF Erase
  <2>2. purger' \in [Purgers -> Purge]
    BY <1>1, <1>5 DEF Erase, Purge
  <2> QED BY <1>5, <2>1, <2>2 DEF Erase, TypeOK
<1>6. CASE EraseFails(w, a)
  BY <1>2, <1>6 DEF EraseFails, TypeOK, Tables, Files
<1>7. CASE EraseLost(w, a)
  BY <1>2, <1>7 DEF EraseLost, TypeOK, Tables, Files
<1> QED BY <1>3, <1>4, <1>5, <1>6, <1>7

LEMMA CrashType ==
  ASSUME TypeOK, Crash
  PROVE  TypeOK'
<1>1. purger' \in [Purgers -> Purge]
  BY IdleType, ResumingType DEF Crash, Phases
<1> QED BY <1>1 DEF Crash, TypeOK, Tables, Files

LEMMA NextType == TypeOK /\ [Next]_vars => TypeOK'
<1> SUFFICES ASSUME TypeOK, [Next]_vars PROVE TypeOK'
  OBVIOUS
<1>1. ASSUME NEW a \in Assets, UploadStep(a) \/ AssetStep(a) \/ ThumbnailStep(a) PROVE TypeOK'
  BY <1>1, UploadType, AssetType, ThumbnailType
<1>2. ASSUME NEW s \in Stacks, StackStep(s) PROVE TypeOK'
  BY <1>2, StackType
<1>3. ASSUME NEW w \in Purgers, EndPurge(w) \/ RunDue \/ MarkDue PROVE TypeOK'
  BY <1>3, PurgerType
<1>4. ASSUME NEW w \in Purgers, NEW a \in Assets,
             \/ PurgeNow(w, a) \/ CheckTombstone(w, a) \/ Erase(w, a)
             \/ EraseFails(w, a) \/ EraseLost(w, a)
      PROVE  TypeOK'
  BY <1>4, TombstoneType
<1>5. CASE Crash
  BY <1>5, CrashType
<1>6. CASE UNCHANGED vars
  BY <1>6 DEF vars, TypeOK
<1>7. Ticker \in Purgers
  BY DEF Purgers
<1> QED BY <1>1, <1>2, <1>3, <1>4, <1>5, <1>6, <1>7 DEF Next, Work, Fault, PurgeStep

\* Every variable keeps its type, for any number of assets, stacks and
\* purging threads: page numbers stay positive naturals and the number of
\* chapters within its limit through every edit of stacks.rs, and every
\* row that assets.rs, stacks.rs and purge.rs write is one the schema allows.
THEOREM TypeCorrect == Spec => []TypeOK
<1>1. Init => TypeOK
  BY InitType
<1>2. TypeOK /\ [Next]_vars => TypeOK'
  BY NextType
<1> QED BY <1>1, <1>2, PTL DEF Spec

\* What a stack edit does to rows and pages, in one shape for all of them.
LEMMA StackStepRows ==
  ASSUME TypeOK, NEW s \in Stacks, StackStep(s)
  PROVE  /\ \/ UNCHANGED row /\ UNCHANGED page
            \/ /\ \E promoted, affected \in SUBSET Assets : UpdateRows(promoted, affected)
               /\ \A t \in Stacks, a \in Assets :
                    page'[t][a].chapter # 0 => page[t][a].chapter # 0 \/ Live(a)
         /\ UNCHANGED <<Files, InMemory>>
<1> DEFINE Edited ==
      /\ \E promoted, affected \in SUBSET Assets : UpdateRows(promoted, affected)
      /\ \A t \in Stacks, a \in Assets :
           page'[t][a].chapter # 0 => page[t][a].chapter # 0 \/ Live(a)
      /\ UNCHANGED <<Files, InMemory>>
<1> USE DEF TypeOK
<1>0. \A a \in Assets : NoPages[a].chapter = 0
  BY DEF NoPages, NoPage
<1>1. ASSUME NEW list \in PageLists, CreateStack(s, list) PROVE Edited
  <2>1. Range(list) \in SUBSET Assets
    BY ListType
  <2>2. \A a \in Assets : page'[s][a].chapter # 0 => a \in Range(list)
    BY <1>0, <1>1 DEF CreateStack, SetPages, InsertPages
  <2> QED BY <1>1, <2>1, <2>2 DEF CreateStack, SetPages, ValidAssets
<1>2. ASSUME NEW list \in PageLists, NEW chapter \in 1 .. MaxChapters, AddPages(s, list, chapter)
      PROVE  Edited
  <2>1. Range(list) \in SUBSET Assets
    BY ListType
  <2>2. \A a \in Assets : page'[s][a].chapter # 0 =>
                             a \in Range(list) \/ page[s][a].chapter # 0
    BY <1>2 DEF AddPages, SetPages, InsertPages
  <2> QED BY <1>2, <2>1, <2>2 DEF AddPages, SetPages, ValidAssets
<1>3. ASSUME NEW chapters \in ChapterLists, ReplaceStructure(s, chapters) PROVE Edited
  <2>1. /\ ChapterPages(chapters) \in SUBSET Assets
        /\ PagesOf(page[s]) \cup ChapterPages(chapters) \in SUBSET Assets
    BY ChapterListType DEF PagesOf
  <2>2. \A a \in Assets : page'[s][a].chapter # 0 => a \in ChapterPages(chapters)
    BY <1>3 DEF ReplaceStructure, SetPages, PlaceChapters, NoPage
  <2> QED BY <1>3, <2>1, <2>2 DEF ReplaceStructure, SetPages, ValidAssets
<1>4. ASSUME NEW a \in Assets, RemovePage(s, a) PROVE Edited
  <2>1. \A b \in Assets : page'[s][b].chapter # 0 => page[s][b].chapter # 0
    <3> DEFINE pg == [page[s] EXCEPT ![a] = NoPage]
    <3>1. \A b \in Assets : pg[b].chapter # 0 => page[s][b].chapter # 0
      BY DEF Pages, NoPage
    <3>2. pg \in Pages
      BY NoPagesType DEF NoPages, Pages
    <3>3. page'[s] = RenumberPages(pg)
      BY <1>4 DEF RemovePage, SetPages
    <3> HIDE DEF pg
    <3>4. \A b \in Assets : RenumberPages(pg)[b].chapter # 0 => pg[b].chapter # 0
      BY <3>2 DEF RenumberPages, NoPage, Pages, Page
    <3> QED BY <3>1, <3>3, <3>4
  <2>2. UpdateRows({}, {a}) /\ UNCHANGED <<Files, InMemory>>
    BY <1>4 DEF RemovePage
  <2>3. \A t \in Stacks : t # s => page'[t] = page[t]
    BY <1>4 DEF RemovePage, SetPages
  <2> QED BY <2>1, <2>2, <2>3
<1>5. ASSUME NEW a \in Assets, SetCover(s, a)
      PROVE  UNCHANGED <<row, page, Files, InMemory>>
  BY <1>5 DEF SetCover
<1>6. ASSUME NEW a \in Assets, NEW show \in BOOLEAN, SetPageFlag(s, a, show) PROVE Edited
  <2>1. \A b \in Assets : page'[s][b].chapter # 0 => page[s][b].chapter # 0
    BY <1>6 DEF SetPageFlag, SetPages, Pages, Page
  <2>2. UpdateRows({}, {a}) /\ UNCHANGED <<Files, InMemory>>
    BY <1>6 DEF SetPageFlag
  <2>3. \A t \in Stacks : t # s => page'[t] = page[t]
    BY <1>6 DEF SetPageFlag, SetPages
  <2> QED BY <2>1, <2>2, <2>3
<1>7. ASSUME DeleteStack(s) PROVE Edited
  <2>1. UpdateRows({}, PagesOf(page[s])) /\ PagesOf(page[s]) \in SUBSET Assets
    BY <1>7 DEF DeleteStack, PagesOf
  <2> QED BY <1>0, <1>7, <2>1 DEF DeleteStack, SetPages
<1> QED BY <1>1, <1>2, <1>3, <1>4, <1>5, <1>6, <1>7 DEF StackStep

-----------------------------------------------------------------------------
(* An upload that is not finished owns its file and has no row yet.        *)

UploadsOwnTheirFile ==
  \A a \in Assets : /\ upload[a] = "written" => a \in original
                    /\ upload[a] # "done" => row[a].lifecycle = "none"

Inv == TypeOK /\ UploadsOwnTheirFile

\* The only files a step can remove are those of an upload it ends and
\* those of a tombstone; a step gives a row only to the upload it commits.
LEMMA UploadInvStep ==
  ASSUME Inv, [Next]_vars
  PROVE  UploadsOwnTheirFile'
<1> USE DEF Inv, UploadsOwnTheirFile
<1>1. row \in [Assets -> Row] /\ upload \in [Assets -> {"unborn", "written", "done"}]
  BY DEF TypeOK
<1>2. ASSUME UNCHANGED upload, original \subseteq original',
             \A b \in Assets : row[b].lifecycle = "none" => row'[b].lifecycle = "none"
      PROVE  UploadsOwnTheirFile'
  BY <1>2
<1>3. ASSUME NEW a \in Assets, UploadStep(a) PROVE UploadsOwnTheirFile'
  <2>1. CASE WriteUpload(a)
    BY <1>1, <2>1 DEF WriteUpload, Tables
  <2>2. CASE CommitUpload(a)
    BY <1>1, <2>2 DEF CommitUpload, Files
  <2>3. CASE FailUpload(a)
    BY <1>1, <2>3 DEF FailUpload, Tables
  <2> QED BY <1>3, <2>1, <2>2, <2>3 DEF UploadStep
<1>4. ASSUME NEW a \in Assets, AssetStep(a) PROVE UploadsOwnTheirFile'
  <2>1. UNCHANGED upload /\ original \subseteq original'
    BY <1>4 DEF AssetStep, Trash, RestoreDuplicate, RestorePrimary, Expire, Files, InMemory
  <2>2. \A b \in Assets : row[b].lifecycle = "none" => row'[b].lifecycle = "none"
    <3>1. CASE Trash(a)
      BY <1>1, <3>1 DEF Trash, Live
    <3>2. CASE RestoreDuplicate(a)
      BY <1>1, <3>2 DEF RestoreDuplicate
    <3>3. CASE RestorePrimary(a)
      BY <1>1, <3>3 DEF RestorePrimary, Reparented, Redirect, Row
    <3>4. CASE Expire(a)
      BY <1>1, <3>4 DEF Expire, Row
    <3> QED BY <1>4, <3>1, <3>2, <3>3, <3>4 DEF AssetStep
  <2> QED BY <1>2, <2>1, <2>2
<1>5. ASSUME NEW a \in Assets, ThumbnailStep(a) PROVE UploadsOwnTheirFile'
  BY <1>5 DEF ThumbnailStep, ReadSource, StoreDerived, Tables, Files
<1>6. ASSUME NEW s \in Stacks, StackStep(s) PROVE UploadsOwnTheirFile'
  <2>1. UNCHANGED upload /\ original \subseteq original'
    BY <1>6 DEF StackStep, CreateStack, AddPages, ReplaceStructure, RemovePage, SetCover,
                SetPageFlag, DeleteStack, Files, InMemory
  <2>2. \/ UNCHANGED row
        \/ \E promoted, affected \in SUBSET Assets : UpdateRows(promoted, affected)
    BY <1>6, StackStepRows
  <2> QED BY <1>2, <2>1, <2>2, RowUpdateType
<1>7. ASSUME NEW w \in Purgers, NEW a \in Assets, PurgeNow(w, a) \/ CheckTombstone(w, a)
      PROVE  UploadsOwnTheirFile'
  <2>1. CASE PurgeNow(w, a)
    BY <1>1, <1>2, <2>1 DEF PurgeNow, Files
  <2>2. CASE CheckTombstone(w, a)
    <3>1. UNCHANGED upload /\ original \subseteq original'
      BY <2>2 DEF CheckTombstone, Files
    <3>2. \/ UNCHANGED row
          \/ row[a].lifecycle = "purging" /\ \A b \in Assets \ {a} : row'[b] = row[b]
      BY <1>1, <2>2 DEF CheckTombstone
    <3> QED BY <1>2, <3>1, <3>2
  <2> QED BY <1>7, <2>1, <2>2
<1>8. ASSUME NEW w \in Purgers, NEW a \in Assets, Erase(w, a) \/ EraseFails(w, a)
      PROVE  UploadsOwnTheirFile'
  BY <1>1, <1>8 DEF Erase, EraseFails, Erasable, Tables, Files, NoRow
<1>9. ASSUME NEW w \in Purgers, NEW a \in Assets, EraseLost(w, a) PROVE UploadsOwnTheirFile'
  BY <1>9 DEF EraseLost, Tables, Files
<1>10. ASSUME NEW w \in Purgers, EndPurge(w) \/ RunDue PROVE UploadsOwnTheirFile'
  BY <1>10 DEF EndPurge, RunDue, Tables, Files
<1>11. CASE MarkDue
  BY <1>1, <1>2, <1>11 DEF MarkDue, MarkAndList, Due, Expired, Files
<1>12. CASE Crash
  BY <1>1, <1>12 DEF Crash, Tables, Files
<1>13. CASE UNCHANGED vars
  BY <1>13 DEF vars
<1>14. Ticker \in Purgers
  BY DEF Purgers
<1> QED BY <1>3, <1>4, <1>5, <1>6, <1>7, <1>8, <1>9, <1>10, <1>11, <1>12, <1>13, <1>14
        DEF Next, Work, Fault, PurgeStep

\* The inductive invariant under the theorems below.
LEMMA Invariance == Spec => []Inv
<1>1. Init => Inv
  BY InitType, NoRowType DEF Init, Inv, UploadsOwnTheirFile, NoRow
<1>2. Inv /\ [Next]_vars => Inv'
  BY NextType, UploadInvStep DEF Inv
<1> QED BY <1>1, <1>2, PTL DEF Spec

-----------------------------------------------------------------------------
(* The library implements the promise of ReferenceSafeDeletion.            *)

State == [a \in Assets |-> AbstractState(a)]
Needed == {a \in Assets : Referenced(a)}

LEMMA AbstractStates ==
  ASSUME TypeOK
  PROVE  \A a \in Assets :
           /\ AbstractState(a) \in {"absent", "kept", "condemned"}
           /\ AbstractState(a) = "absent" <=> row[a].lifecycle = "none"
           /\ AbstractState(a) = "condemned" <=> row[a].lifecycle = "purging"
           /\ AbstractState(a) = "kept" <=> Live(a)
  BY DEF TypeOK, AbstractState, Row, Lifecycles, Live

\* A step that changes no lifecycle and refers only to live rows.
LEMMA IsRefer ==
  ASSUME UNCHANGED original,
         \A a \in Assets : AbstractState(a)' = AbstractState(a),
         \A a \in Assets : Referenced(a)' => Referenced(a) \/ AbstractState(a) = "kept"
  PROVE  Promise!Refer
  BY DEF Promise!Refer, Promise!NeedOnlyKept, Promise!Kept

LEMMA IsStutter ==
  ASSUME UNCHANGED <<row, page, original>>
  PROVE  UNCHANGED Promise!vars
<1>1. \A a \in Assets : AbstractState(a)' = AbstractState(a)
  BY DEF AbstractState
<1>2. \A a \in Assets : Referenced(a)' = Referenced(a)
  BY DEF Referenced, OnPage, HasDuplicate
<1> QED BY <1>1, <1>2 DEF Promise!vars

\* The rows of a step decide what it does to references if it leaves pages.
LEMMA SameReferences ==
  ASSUME UNCHANGED page, \A a \in Assets : row'[a].duplicateOf = row[a].duplicateOf
  PROVE  \A a \in Assets : Referenced(a)' = Referenced(a)
  BY DEF Referenced, OnPage, HasDuplicate

LEMMA UploadRefines ==
  ASSUME Inv, NEW a \in Assets, UploadStep(a)
  PROVE  Promise!Next
<1> USE DEF Inv, UploadsOwnTheirFile
<1>1. row[a].lifecycle = "none" /\ AbstractState(a) = "absent"
  BY AbstractStates DEF UploadStep, WriteUpload, CommitUpload, FailUpload
<1>2. CASE WriteUpload(a)
  <2>1. UNCHANGED <<row, page>>
    BY <1>2 DEF WriteUpload, Tables
  <2>2. \A b \in Assets : AbstractState(b)' = AbstractState(b) /\ Referenced(b)' = Referenced(b)
    BY <2>1 DEF AbstractState, Referenced, OnPage, HasDuplicate
  <2>3. Promise!Store(a)
    BY <1>1, <1>2, <2>2 DEF WriteUpload, Promise!Store
  <2> QED BY <2>3 DEF Promise!Next
<1>3. CASE FailUpload(a)
  <2>1. UNCHANGED <<row, page>>
    BY <1>3 DEF FailUpload, Tables
  <2>2. \A b \in Assets : AbstractState(b)' = AbstractState(b) /\ Referenced(b)' = Referenced(b)
    BY <2>1 DEF AbstractState, Referenced, OnPage, HasDuplicate
  <2>3. Promise!Discard(a)
    BY <1>1, <1>3, <2>2 DEF FailUpload, Promise!Discard
  <2> QED BY <2>3 DEF Promise!Next
<1>4. CASE CommitUpload(a)
  <2>1. row \in [Assets -> Row]
    BY DEF TypeOK
  <2>2. /\ \A b \in Assets \ {a} : row'[b] = row[b]
        /\ row'[a].lifecycle \in {"active", "duplicate"}
        /\ row'[a].duplicateOf \in {NoAsset} \cup Primaries(HashOf[a])
    BY <1>4, <2>1 DEF CommitUpload, NoRow
  <2>3. a \in original /\ UNCHANGED <<page, original>>
    BY <1>4 DEF CommitUpload, Files
  <2>4. \A b \in Assets : AbstractState(b)' = IF b = a THEN "kept" ELSE AbstractState(b)
    BY <2>2 DEF AbstractState
  <2>5. \A b \in Assets : Referenced(b)' => Referenced(b) \/ AbstractState(b) = "kept"
    BY <2>2, <2>3, AssetsAssumption
       DEF Referenced, OnPage, HasDuplicate, Primaries, AbstractState
  <2>6. Promise!Keep(a)
    BY <1>1, <2>3, <2>4, <2>5 DEF Promise!Keep, Promise!NeedOnlyKept, Promise!Kept
  <2> QED BY <2>6 DEF Promise!Next
<1> QED BY <1>2, <1>3, <1>4 DEF UploadStep

LEMMA AssetRefines ==
  ASSUME Inv, NEW a \in Assets, AssetStep(a)
  PROVE  Promise!Next
<1>1. row \in [Assets -> Row]
  BY DEF Inv, TypeOK
<1>2. UNCHANGED <<page, original>>
  BY DEF AssetStep, Trash, RestoreDuplicate, RestorePrimary, Expire, Files, InMemory
<1>3. CASE Trash(a) \/ RestoreDuplicate(a) \/ Expire(a)
  <2>1. \A b \in Assets : /\ row'[b].duplicateOf = row[b].duplicateOf
                          /\ AbstractState(b)' = AbstractState(b)
    <3>1. CASE Trash(a)
      BY <1>1, <3>1 DEF Trash, Live, Row, AbstractState
    <3>2. CASE RestoreDuplicate(a)
      BY <1>1, <3>2 DEF RestoreDuplicate, Row, AbstractState
    <3>3. CASE Expire(a)
      BY <1>1, <3>3 DEF Expire, Row, AbstractState
    <3> QED BY <1>3, <3>1, <3>2, <3>3
  <2> QED BY <1>2, <2>1, SameReferences, IsRefer DEF Promise!Next
<1>4. CASE RestorePrimary(a)
  <2>1. Reparented(a) \in [Assets -> Row]
    BY <1>1 DEF Reparented, Redirect, Row
  <2>2. \A b \in Assets : /\ Reparented(a)[b].lifecycle = row[b].lifecycle
                          /\ Reparented(a)[b].duplicateOf \in {a, row[b].duplicateOf}
    BY <1>1 DEF Reparented, Redirect, Row
  <2>3. row[a].lifecycle = "trashed"
    BY <1>4 DEF RestorePrimary
  <2>4. \A b \in Assets :
          /\ row'[b].lifecycle = IF b = a THEN "active" ELSE row[b].lifecycle
          /\ row'[b].duplicateOf \in {a, row[b].duplicateOf}
    <3> DEFINE rows == Reparented(a)
               shown == Shown("active", page, a)
    <3>1. row' = [rows EXCEPT ![a] = [@ EXCEPT !.lifecycle = "active", !.trashed = FALSE,
                                               !.timer = "none", !.visible = shown]]
      BY <1>4 DEF RestorePrimary
    <3>2. rows \in [Assets -> Row]
      BY <2>1
    <3>3. \A b \in Assets : /\ rows[b].lifecycle = row[b].lifecycle
                            /\ rows[b].duplicateOf \in {a, row[b].duplicateOf}
      BY <2>2
    <3> HIDE DEF rows, shown
    <3> QED BY <3>1, <3>2, <3>3 DEF Row
  <2>5. \A b \in Assets : AbstractState(b)' = AbstractState(b)
    BY <2>3, <2>4 DEF AbstractState
  <2>6. \A b \in Assets : Referenced(b)' => Referenced(b) \/ AbstractState(b) = "kept"
    BY <1>2, <2>3, <2>4 DEF Referenced, OnPage, HasDuplicate, AbstractState
  <2> QED BY <1>2, <2>5, <2>6, IsRefer DEF Promise!Next
<1> QED BY <1>3, <1>4 DEF AssetStep

LEMMA StackRefines ==
  ASSUME Inv, NEW s \in Stacks, StackStep(s)
  PROVE  [Promise!Next]_(Promise!vars)
<1>1. UNCHANGED original
  BY StackStepRows DEF Inv, Files
<1>2. CASE UNCHANGED row /\ UNCHANGED page
  BY <1>1, <1>2, IsStutter
<1>3. ASSUME NEW promoted \in SUBSET Assets, NEW affected \in SUBSET Assets,
             UpdateRows(promoted, affected),
             \A t \in Stacks, a \in Assets :
               page'[t][a].chapter # 0 => page[t][a].chapter # 0 \/ Live(a)
      PROVE  [Promise!Next]_(Promise!vars)
  <2>1. \A a \in Assets :
          /\ row'[a].duplicateOf = row[a].duplicateOf
          /\ row'[a].lifecycle = IF a \in promoted /\ row[a].lifecycle = "duplicate"
                                 THEN "active" ELSE row[a].lifecycle
    BY <1>3, RowUpdateType DEF Inv
  <2>2. \A a \in Assets : AbstractState(a)' = AbstractState(a)
    BY <2>1 DEF AbstractState
  <2>3. \A a \in Assets : Referenced(a)' => Referenced(a) \/ AbstractState(a) = "kept"
    BY <1>3, <2>1, AbstractStates DEF Inv, Referenced, OnPage, HasDuplicate
  <2> QED BY <1>1, <2>2, <2>3, IsRefer DEF Promise!Next
<1> QED BY <1>2, <1>3, StackStepRows DEF Inv

LEMMA MarkRefines ==
  ASSUME Inv, UNCHANGED <<page, original>>, NEW A \in SUBSET Assets,
         \A a \in A : row[a].lifecycle \in {"duplicate", "trashed"} /\ ~Referenced(a),
         \A a \in Assets : /\ row'[a].lifecycle = IF a \in A THEN "purging" ELSE row[a].lifecycle
                           /\ row'[a].duplicateOf = row[a].duplicateOf
  PROVE  Promise!Next
<1>1. \A a \in Assets : /\ AbstractState(a)' = IF a \in A THEN "condemned" ELSE AbstractState(a)
                        /\ a \in A => AbstractState(a) = "kept"
  BY DEF AbstractState
<1>2. \A a \in Assets : Referenced(a)' = Referenced(a)
  BY SameReferences
<1>3. Promise!Condemn(A)
  BY <1>1, <1>2 DEF Promise!Condemn, Promise!Kept
<1> QED BY <1>3 DEF Promise!Next

LEMMA TombstoneRefines ==
  ASSUME Inv, NEW w \in Purgers, NEW a \in Assets,
         CheckTombstone(w, a) \/ Erase(w, a) \/ EraseFails(w, a) \/ EraseLost(w, a)
  PROVE  [Promise!Next]_(Promise!vars)
<1>1. row \in [Assets -> Row]
  BY DEF Inv, TypeOK
<1>2. CASE CheckTombstone(w, a)
  <2>1. CASE UNCHANGED row
    BY <1>2, <2>1, IsStutter DEF CheckTombstone, Files
  <2>2. CASE row[a].lifecycle = "purging" /\ Referenced(a)
    <3>1. FormerLifecycle(a) \in {"active", "duplicate", "trashed"}
      <4>1. row[a].trashed \in BOOLEAN
        BY <1>1 DEF Row
      <4> QED BY <4>1 DEF FormerLifecycle
    <3>2. \A b \in Assets :
            /\ row'[b].lifecycle = IF b = a THEN FormerLifecycle(a) ELSE row[b].lifecycle
            /\ row'[b].duplicateOf = row[b].duplicateOf
      <4> DEFINE visible == ~row[a].trashed /\ OnPage(a) /\ Shown("active", page, a)
      <4>1. row' = [row EXCEPT ![a] = [@ EXCEPT !.lifecycle = FormerLifecycle(a),
                                                !.visible = visible]]
        BY <1>2, <2>2 DEF CheckTombstone
      <4> HIDE DEF visible
      <4> QED BY <1>1, <4>1 DEF Row
    <3>3. UNCHANGED <<page, original>>
      BY <1>2 DEF CheckTombstone, Files
    <3>4. \A b \in Assets : Referenced(b)' = Referenced(b)
      BY <3>2, <3>3, SameReferences
    <3>5. \A b \in Assets : AbstractState(b)' = IF b = a THEN "kept" ELSE AbstractState(b)
      BY <3>1, <3>2 DEF AbstractState
    <3>6. AbstractState(a) = "condemned"
      BY <2>2 DEF AbstractState
    <3>7. Promise!Reprieve(a)
      BY <2>2, <3>3, <3>4, <3>5, <3>6 DEF Promise!Reprieve
    <3> QED BY <3>7 DEF Promise!Next
  <2> QED BY <1>2, <2>1, <2>2 DEF CheckTombstone
<1>3. CASE Erase(w, a)
  <2>1. /\ AbstractState(a) = "condemned" /\ ~Referenced(a)
        /\ UNCHANGED page /\ original' = original \ {a}
    BY <1>3 DEF Erase, Erasable, AbstractState
  <2>2. \A b \in Assets : row'[b] = IF b = a THEN NoRow ELSE row[b]
    BY <1>1, <1>3 DEF Erase
  <2>3. \A b \in Assets : AbstractState(b)' = IF b = a THEN "absent" ELSE AbstractState(b)
    BY <2>2 DEF AbstractState, NoRow
  <2>4. \A b \in Assets : Referenced(b)' => Referenced(b)
    BY <2>1, <2>2, AssetsAssumption DEF Referenced, OnPage, HasDuplicate, NoRow
  <2>5. Promise!Erase(a)
    BY <2>1, <2>3, <2>4 DEF Promise!Erase
  <2> QED BY <2>5 DEF Promise!Next
<1>4. CASE EraseFails(w, a)
  <2>1. UNCHANGED <<row, page>>
    BY <1>4 DEF EraseFails, Tables
  <2>2. \A b \in Assets : AbstractState(b)' = AbstractState(b) /\ Referenced(b)' = Referenced(b)
    BY <2>1 DEF AbstractState, Referenced, OnPage, HasDuplicate
  <2>3. AbstractState(a) = "condemned" /\ ~Referenced(a)
    BY <1>4 DEF EraseFails, Erasable, AbstractState
  <2>4. UNCHANGED original \/ original' = original \ {a}
    BY <1>4 DEF EraseFails, Files
  <2>5. CASE UNCHANGED original
    BY <2>1, <2>5, IsStutter
  <2>6. CASE original' = original \ {a}
    <3>1. Promise!Unstore(a)
      BY <2>2, <2>3, <2>6 DEF Promise!Unstore
    <3> QED BY <3>1 DEF Promise!Next
  <2> QED BY <2>4, <2>5, <2>6
<1>5. CASE EraseLost(w, a)
  BY <1>5, IsStutter DEF EraseLost, Tables, Files
<1> QED BY <1>2, <1>3, <1>4, <1>5

LEMMA StepRefines ==
  ASSUME Inv, [Next]_vars
  PROVE  [Promise!Next]_(Promise!vars)
<1>1. row \in [Assets -> Row]
  BY DEF Inv, TypeOK
<1>2. ASSUME NEW a \in Assets, ThumbnailStep(a) PROVE UNCHANGED Promise!vars
  BY <1>2, IsStutter DEF ThumbnailStep, ReadSource, StoreDerived, Tables, Files
<1>3. ASSUME NEW w \in Purgers, EndPurge(w) \/ RunDue PROVE UNCHANGED Promise!vars
  BY <1>3, IsStutter DEF EndPurge, RunDue, Tables, Files
<1>4. CASE MarkDue
  <2>1. /\ Due \in SUBSET Assets
        /\ \A a \in Due : row[a].lifecycle \in {"duplicate", "trashed"} /\ ~Referenced(a)
    BY DEF Due, Expired
  <2>2. \A a \in Assets : /\ row'[a].lifecycle = IF a \in Due THEN "purging" ELSE row[a].lifecycle
                          /\ row'[a].duplicateOf = row[a].duplicateOf
    BY <1>1, <1>4 DEF MarkDue, MarkAndList, Row
  <2>3. UNCHANGED <<page, original>>
    BY <1>4 DEF MarkDue, MarkAndList, Files
  <2> QED BY <2>1, <2>2, <2>3, MarkRefines
<1>5. ASSUME NEW w \in Purgers, NEW a \in Assets, PurgeNow(w, a) PROVE Promise!Next
  <2>1. row[a].lifecycle \in {"duplicate", "trashed"} /\ ~Referenced(a)
    BY <1>5 DEF PurgeNow
  <2>2. \A b \in Assets : /\ row'[b].lifecycle = IF b \in {a} THEN "purging" ELSE row[b].lifecycle
                          /\ row'[b].duplicateOf = row[b].duplicateOf
    BY <1>1, <1>5 DEF PurgeNow, Row
  <2>3. UNCHANGED <<page, original>>
    BY <1>5 DEF PurgeNow, Files
  <2> QED BY <2>1, <2>2, <2>3, MarkRefines
<1>6. CASE Crash
  BY <1>6, IsStutter DEF Crash, Tables, Files
<1>7. CASE UNCHANGED vars
  BY <1>7, IsStutter DEF vars
<1>8. ASSUME NEW a \in Assets, UploadStep(a) \/ AssetStep(a) PROVE Promise!Next
  BY <1>8, UploadRefines, AssetRefines
<1>9. ASSUME NEW s \in Stacks, StackStep(s) PROVE [Promise!Next]_(Promise!vars)
  BY <1>9, StackRefines
<1>10. ASSUME NEW w \in Purgers, NEW a \in Assets,
              CheckTombstone(w, a) \/ Erase(w, a) \/ EraseFails(w, a) \/ EraseLost(w, a)
       PROVE  [Promise!Next]_(Promise!vars)
  BY <1>10, TombstoneRefines
<1>11. Ticker \in Purgers
  BY DEF Purgers
<1> QED BY <1>2, <1>3, <1>4, <1>5, <1>6, <1>7, <1>8, <1>9, <1>10, <1>11
        DEF Next, Work, Fault, PurgeStep

LEMMA InitRowsAreWhole ==
  ASSUME Init
  PROVE  \A a \in Assets : row[a].lifecycle = "none" <=> row[a] = NoRow
<1>1. CASE EmptyTables
  BY <1>1 DEF EmptyTables, NoRow
<1>2. ASSUME NEW p \in Assets, NEW D \in SUBSET (Assets \ {p}), LegacyDuplicates(p, D)
      PROVE  \A a \in Assets : row[a].lifecycle = "none" <=> row[a] = NoRow
  BY <1>2 DEF LegacyDuplicates, NoRow
<1>3. ASSUME NEW p \in Assets, NEW s \in Stacks, NEW wasTrashed \in BOOLEAN,
             LegacyPage(p, s, wasTrashed)
      PROVE  \A a \in Assets : row[a].lifecycle = "none" <=> row[a] = NoRow
  BY <1>3 DEF LegacyPage, NoRow
<1> QED BY <1>1, <1>2, <1>3 DEF Init

LEMMA InitRefines == Init => Promise!Init
<1> SUFFICES ASSUME Init PROVE Promise!Init
  OBVIOUS
<1>1. TypeOK
  BY InitType
<1>2. \A a \in Assets : row[a].lifecycle = "none" <=> row[a] = NoRow
  BY InitRowsAreWhole
<1>3. \A a \in Assets : Referenced(a) => row[a].lifecycle # "none"
  <2>1. CASE EmptyTables
    BY <2>1, AssetsAssumption DEF EmptyTables, NoRow, Referenced, OnPage, HasDuplicate, NoPages, NoPage
  <2>2. ASSUME NEW p \in Assets, NEW D \in SUBSET (Assets \ {p}), LegacyDuplicates(p, D)
        PROVE  \A a \in Assets : Referenced(a) => row[a].lifecycle # "none"
    BY <2>2, AssetsAssumption
       DEF LegacyDuplicates, NoRow, Referenced, OnPage, HasDuplicate, NoPages, NoPage
  <2>3. ASSUME NEW p \in Assets, NEW s \in Stacks, NEW wasTrashed \in BOOLEAN,
               LegacyPage(p, s, wasTrashed)
        PROVE  \A a \in Assets : Referenced(a) => row[a].lifecycle # "none"
    <3>1. \A a \in Assets : ~HasDuplicate(a)
      BY <2>3, AssetsAssumption DEF LegacyPage, NoRow, HasDuplicate
    <3>2. \A a \in Assets : OnPage(a) => a = p
      BY <2>3 DEF LegacyPage, OnPage, NoPages, NoPage, InsertPages, Range
    <3> QED BY <2>3, <3>1, <3>2 DEF LegacyPage, NoRow, Referenced
  <2> QED BY <2>1, <2>2, <2>3 DEF Init
<1>4. original = {a \in Assets : row[a].lifecycle # "none"}
  BY <1>2 DEF Init
<1> QED BY <1>1, <1>3, <1>4, AbstractStates DEF Promise!Init

\* The whole library (uploads, trash, restores, stack edits, thumbnails,
\* concurrent purges, I/O errors and crashes) is a reference-safe deletion.
THEOREM LibraryImplementsPromise == Spec => ImplementsPromise
<1>1. Init => Promise!Init
  BY InitRefines
<1>2. Inv /\ [Next]_vars => [Promise!Next]_(Promise!vars)
  BY StepRefines
<1> QED BY <1>1, <1>2, Invariance, PTL DEF Spec, ImplementsPromise, Promise!Spec

-----------------------------------------------------------------------------
(* What the promise is worth, for whatever states, needs and bytes.        *)

PromiseInv == State \in [Assets -> {"absent", "kept", "condemned"}] /\ Promise!Safe

LEMMA PromiseInit == Promise!Init => PromiseInv
BY DEF Promise!Init, PromiseInv, State, Promise!Safe, Promise!Kept

LEMMA PromiseStep ==
  ASSUME PromiseInv, [Promise!Next]_(Promise!vars)
  PROVE  PromiseInv'
<1> USE DEF PromiseInv, State, Promise!Safe, Promise!Kept
<1>1. ASSUME NEW a \in Assets, Promise!Store(a) \/ Promise!Discard(a) PROVE PromiseInv'
  BY <1>1 DEF Promise!Store, Promise!Discard
<1>2. ASSUME NEW a \in Assets, Promise!Keep(a) PROVE PromiseInv'
  BY <1>2 DEF Promise!Keep, Promise!NeedOnlyKept
<1>3. ASSUME NEW a \in Assets, Promise!Reprieve(a) \/ Promise!Unstore(a) PROVE PromiseInv'
  BY <1>3 DEF Promise!Reprieve, Promise!Unstore
<1>4. ASSUME NEW a \in Assets, Promise!Erase(a) PROVE PromiseInv'
  BY <1>4 DEF Promise!Erase
<1>5. CASE Promise!Refer
  BY <1>5 DEF Promise!Refer, Promise!NeedOnlyKept
<1>6. ASSUME NEW A \in SUBSET Assets, Promise!Condemn(A) PROVE PromiseInv'
  BY <1>6 DEF Promise!Condemn
<1>7. CASE UNCHANGED Promise!vars
  BY <1>7 DEF Promise!vars
<1> QED BY <1>1, <1>2, <1>3, <1>4, <1>5, <1>6, <1>7 DEF Promise!Next

\* Deletion in two steps is safe: what is kept or needed is never without
\* its entry or its bytes, whatever is stored, condemned, reprieved and
\* erased, and however many erasures are interrupted.
THEOREM DeletionIsSafe == Promise!Spec => []Promise!Safe
<1>1. PromiseInv => Promise!Safe
  BY DEF PromiseInv
<1> QED BY <1>1, PromiseInit, PromiseStep, PTL DEF Promise!Spec

\* I2, I3 and I5 of docs/11 for every size of library: no upload, restore,
\* stack edit or purge of assets.rs, stacks.rs and purge.rs, in any order
\* and interrupted anywhere, takes the row or the file of an asset that is
\* live, on a page, or named by a duplicate.
THEOREM NeededStaysStored == Spec => []NeededIsStored
<1>1. Inv /\ Promise!Safe => NeededIsStored
  BY AbstractStates DEF Inv, Promise!Safe, Promise!Kept, NeededIsStored
<1> QED BY <1>1, DeletionIsSafe, LibraryImplementsPromise, Invariance, PTL DEF ImplementsPromise
-----------------------------------------------------------------------------
(* The inductive invariant of the rows.                                    *)

\* A tombstone that something refers to, as only a legacy database has one,
\* is on the list of the purge that the server resumes before it listens.
CondemnedAreResumed ==
  \A a \in Purging : Referenced(a) => ~Listening /\ a \in purger[Ticker].todo

\* The lifecycle of a row agrees with its other columns.
RowsAreMarked ==
  \A a \in Assets :
    /\ row[a].lifecycle = "duplicate" => row[a].duplicateOf # NoAsset
    /\ row[a].lifecycle = "trashed" => row[a].trashed

NothingWrittenYet == ~Listening => \A a \in Assets : upload[a] # "written"

\* A tombstone that was neither in the trash nor a duplicate: only a legacy
\* database has one, on a page, and nothing else has a row beside it.
Stray(a) == /\ row[a].lifecycle = "purging"
            /\ ~row[a].trashed
            /\ row[a].duplicateOf = NoAsset

StraysAreAlone ==
  \A p \in Assets : Stray(p) =>
    OnPage(p) /\ \A a \in Assets \ {p} : row[a].lifecycle = "none"

RowInv ==
  /\ CondemnedAreResumed
  /\ RowsAreMarked
  /\ NothingWrittenYet
  /\ StraysAreAlone
  /\ DuplicatesNameAnOriginal
  /\ OnePrimaryPerHash

\* Before any purge has rescued it a stray is a condemned page.
LEMMA NoStrayWhileListening ==
  ASSUME RowInv, Listening
  PROVE  \A a \in Assets : ~Stray(a)
  BY DEF RowInv, CondemnedAreResumed, StraysAreAlone, Stray, Purging, Referenced

LEMMA QuietRows ==
  ASSUME RowInv, UNCHANGED <<row, page>>, CondemnedAreResumed', NothingWrittenYet'
  PROVE  RowInv'
<1>1. RowsAreMarked'
  BY DEF RowInv, RowsAreMarked
<1>2. StraysAreAlone'
  BY DEF RowInv, StraysAreAlone, Stray, OnPage
<1>3. DuplicatesNameAnOriginal'
  BY DEF RowInv, DuplicatesNameAnOriginal
<1>4. OnePrimaryPerHash'
  BY DEF RowInv, OnePrimaryPerHash, Primaries
<1> QED BY <1>1, <1>2, <1>3, <1>4 DEF RowInv

\* A step that leaves rows, pages, uploads and the purges alone.
LEMMA IdleRows ==
  ASSUME RowInv, UNCHANGED <<row, page, purger>>,
         \/ UNCHANGED upload
         \/ Listening
         \/ \A a \in Assets : upload'[a] = "written" => upload[a] = "written"
  PROVE  RowInv'
<1>1. CondemnedAreResumed'
  BY DEF RowInv, CondemnedAreResumed, Purging, Referenced, OnPage, HasDuplicate, Listening
<1>2. NothingWrittenYet'
  BY DEF RowInv, NothingWrittenYet, Listening
<1> QED BY <1>1, <1>2, QuietRows

LEMMA InitRows == Init => RowInv
<1> SUFFICES ASSUME Init PROVE RowInv
  OBVIOUS
<1>1. CondemnedAreResumed
  BY DEF Init, CondemnedAreResumed, Purging, Listening, Resuming, AllPurging, Purgers
<1>2. NothingWrittenYet
  BY DEF Init, NothingWrittenYet
<1>3. CASE EmptyTables
  <2>1. RowsAreMarked /\ StraysAreAlone /\ DuplicatesNameAnOriginal /\ OnePrimaryPerHash
    BY <1>3 DEF EmptyTables, NoRow, RowsAreMarked, StraysAreAlone, Stray,
                DuplicatesNameAnOriginal, OnePrimaryPerHash, Primaries
  <2> QED BY <1>1, <1>2, <2>1 DEF RowInv
<1>4. ASSUME NEW p \in Assets, NEW D \in SUBSET (Assets \ {p}), LegacyDuplicates(p, D)
      PROVE  RowInv
  <2>1. \A a \in Assets :
          /\ row[a].lifecycle = IF a = p THEN "purging" ELSE IF a \in D THEN "duplicate" ELSE "none"
          /\ row[a].duplicateOf = IF a \in D THEN p ELSE NoAsset
          /\ a = p => row[a].trashed
    BY <1>4 DEF LegacyDuplicates, NoRow
  <2>2. \A d \in D : HashOf[d] = HashOf[p]
    BY <1>4 DEF LegacyDuplicates
  <2>3. RowsAreMarked /\ StraysAreAlone
    <3>1. RowsAreMarked
      BY <2>1, AssetsAssumption DEF RowsAreMarked
    <3>2. \A a \in Assets : ~Stray(a)
      BY <2>1 DEF Stray
    <3> QED BY <3>1, <3>2 DEF StraysAreAlone
  <2>4. DuplicatesNameAnOriginal
    BY <2>1, <2>2 DEF DuplicatesNameAnOriginal
  <2>5. OnePrimaryPerHash
    BY <2>1 DEF OnePrimaryPerHash, Primaries
  <2> QED BY <1>1, <1>2, <2>3, <2>4, <2>5 DEF RowInv
<1>5. ASSUME NEW p \in Assets, NEW s \in Stacks, NEW wasTrashed \in BOOLEAN,
             LegacyPage(p, s, wasTrashed)
      PROVE  RowInv
  <2>1. \A a \in Assets : /\ row[a].lifecycle = IF a = p THEN "purging" ELSE "none"
                          /\ row[a].duplicateOf = NoAsset
    BY <1>5 DEF LegacyPage, NoRow
  <2>2. OnPage(p)
    <3>1. page[s] = InsertPages(NoPages, 1, 1, <<p>>, NoPages)
      BY <1>5 DEF LegacyPage
    <3>2. p \in Range(<<p>>)
      BY DEF Range
    <3>3. page[s][p].chapter = 1
      BY <3>1, <3>2 DEF InsertPages
    <3> QED BY <3>3 DEF OnPage
  <2>3. RowsAreMarked /\ StraysAreAlone /\ DuplicatesNameAnOriginal /\ OnePrimaryPerHash
    BY <2>1, <2>2 DEF RowsAreMarked, StraysAreAlone, Stray, DuplicatesNameAnOriginal,
                      OnePrimaryPerHash, Primaries
  <2> QED BY <1>1, <1>2, <2>3 DEF RowInv
<1> QED BY <1>3, <1>4, <1>5 DEF Init

\* The row that an upload commits is new: nothing names it, and it names at
\* most a primary of its hash.
LEMMA UploadRows ==
  ASSUME Inv, RowInv, NEW a \in Assets, UploadStep(a)
  PROVE  RowInv'
<1>1. row \in [Assets -> Row] /\ upload \in [Assets -> {"unborn", "written", "done"}]
  BY DEF Inv, TypeOK
<1>2. CASE WriteUpload(a)
  BY <1>2, IdleRows DEF WriteUpload, Tables
<1>3. CASE FailUpload(a)
  <2>1. \A b \in Assets : upload'[b] = "written" => upload[b] = "written"
    BY <1>1, <1>3 DEF FailUpload
  <2> QED BY <1>3, <2>1, IdleRows DEF FailUpload, Tables
<1>4. CASE CommitUpload(a)
  <2>1. UNCHANGED <<page, purger>> /\ upload[a] = "written"
    BY <1>4 DEF CommitUpload
  <2>2. Listening
    BY <2>1 DEF RowInv, NothingWrittenYet
  <2>3. row[a].lifecycle = "none" /\ \A b \in Assets : row[b].duplicateOf # a
    BY <2>1, AssetsAssumption DEF Inv, UploadsOwnTheirFile, RowInv, DuplicatesNameAnOriginal
  <2>4. /\ \A b \in Assets \ {a} : row'[b] = row[b]
        /\ \/ /\ Primaries(HashOf[a]) = {}
              /\ row'[a].lifecycle = "active" /\ row'[a].duplicateOf = NoAsset
           \/ \E p \in Primaries(HashOf[a]) :
                row'[a].lifecycle = "duplicate" /\ row'[a].duplicateOf = p
    BY <1>1, <1>4 DEF CommitUpload, NoRow
  <2>5. CondemnedAreResumed'
    <3>1. \A b \in Assets : row'[b].lifecycle = "purging" => ~Referenced(b)
      BY <2>2, <2>3, <2>4 DEF RowInv, CondemnedAreResumed, Purging
    <3>2. \A b \in Assets : row'[b].lifecycle = "purging" => ~Referenced(b)'
      <4> SUFFICES ASSUME NEW b \in Assets, row'[b].lifecycle = "purging"
                   PROVE  ~OnPage(b)' /\ ~HasDuplicate(b)'
        BY DEF Referenced
      <4>1. ~OnPage(b)'
        BY <2>1, <3>1 DEF Referenced, OnPage
      <4>2. b # a /\ row[b].lifecycle = "purging"
        BY <2>4
      <4>3. row'[a].duplicateOf # b
        BY <2>4, <4>2, AssetsAssumption DEF Primaries
      <4> QED BY <2>4, <3>1, <4>1, <4>3 DEF Referenced, HasDuplicate
    <3> QED BY <3>2 DEF CondemnedAreResumed, Purging
  <2>6. RowsAreMarked'
    BY <2>4, AssetsAssumption DEF RowInv, RowsAreMarked, Primaries
  <2>7. NothingWrittenYet'
    BY <2>1, <2>2 DEF NothingWrittenYet, Listening
  <2>8. StraysAreAlone'
    <3>1. \A b \in Assets : ~Stray(b)'
      BY <2>2, <2>4, NoStrayWhileListening DEF Stray
    <3> QED BY <3>1 DEF StraysAreAlone
  <2>9. DuplicatesNameAnOriginal'
    <3>1. \A p \in Primaries(HashOf[a]) :
            p # a /\ p \in Assets /\ HashOf[p] = HashOf[a] /\ row[p].lifecycle = "active"
                  /\ row[p].duplicateOf = NoAsset
      BY <2>3 DEF Primaries
    <3>2. row'[a].duplicateOf # NoAsset => row'[a].duplicateOf \in Primaries(HashOf[a])
      BY <2>4
    <3>3. \A d \in Assets \ {a} : row[d].duplicateOf # NoAsset =>
            LET p == row[d].duplicateOf
            IN  /\ p \in Assets \ {a} /\ row[p].lifecycle # "none"
                /\ row[p].duplicateOf = NoAsset /\ HashOf[p] = HashOf[d]
      BY <1>1, <2>3 DEF RowInv, DuplicatesNameAnOriginal, Row
    <3>4. \A d \in Assets \ {a} : row'[d] = row[d]
      BY <2>4
    <3>5. ASSUME NEW d \in Assets, row'[d].duplicateOf # NoAsset
          PROVE  LET p == row'[d].duplicateOf
                 IN  /\ row'[p].lifecycle # "none" /\ row'[p].duplicateOf = NoAsset
                     /\ HashOf[p] = HashOf[d]
      <4>1. CASE d = a
        BY <3>1, <3>2, <3>4, <3>5, <4>1
      <4>2. CASE d # a
        BY <3>3, <3>4, <3>5, <4>2
      <4> QED BY <4>1, <4>2
    <3> QED BY <3>5 DEF DuplicatesNameAnOriginal
  <2>10. OnePrimaryPerHash'
    BY <2>3, <2>4, AssetsAssumption DEF RowInv, OnePrimaryPerHash, Primaries
  <2> QED BY <2>5, <2>6, <2>7, <2>8, <2>9, <2>10 DEF RowInv
<1> QED BY <1>2, <1>3, <1>4 DEF UploadStep

\* A step that leaves pages, names, uploads and the resumed purge alone,
\* makes no primary, keeps every row, and buries or digs up at most rows
\* that are not referenced.
LEMMA SameNames ==
  ASSUME Inv, RowInv, UNCHANGED <<page, upload>>,
         Listening' = Listening, ~Listening => purger'[Ticker] = purger[Ticker],
         \A b \in Assets : row'[b].duplicateOf = row[b].duplicateOf,
         \A b \in Assets : row'[b].lifecycle = "none" <=> row[b].lifecycle = "none",
         \A b \in Assets : row'[b].lifecycle = "active" => row[b].lifecycle = "active",
         \A b \in Assets : row'[b].lifecycle = "purging" =>
                             row[b].lifecycle = "purging" \/ ~Referenced(b),
         \A b \in Assets : Stray(b)' => Stray(b),
         RowsAreMarked'
  PROVE  RowInv'
<1>1. \A b \in Assets : Referenced(b)' = Referenced(b)
  BY SameReferences
<1>2. CondemnedAreResumed'
  BY <1>1 DEF RowInv, CondemnedAreResumed, Purging, Listening
<1>3. NothingWrittenYet'
  BY DEF RowInv, NothingWrittenYet, Listening
<1>4. StraysAreAlone'
  BY DEF RowInv, StraysAreAlone, OnPage
<1>5. DuplicatesNameAnOriginal'
  <2>1. \A d \in Assets : row[d].duplicateOf \in Assets \cup {NoAsset}
    BY DEF Inv, TypeOK, Row
  <2> QED BY <2>1 DEF RowInv, DuplicatesNameAnOriginal
<1>6. OnePrimaryPerHash'
  BY DEF RowInv, OnePrimaryPerHash, Primaries
<1> QED BY <1>2, <1>3, <1>4, <1>5, <1>6 DEF RowInv

\* What RestorePrimary writes.
LEMMA Restored ==
  ASSUME TypeOK, NEW a \in Assets, RestorePrimary(a)
  PROVE  \A b \in Assets :
           /\ row'[b].lifecycle = IF b = a THEN "active" ELSE row[b].lifecycle
           /\ row'[b].trashed = IF b = a THEN FALSE ELSE row[b].trashed
           /\ row'[b].visible = IF b = a THEN Shown("active", page, a) ELSE row[b].visible
           /\ row'[b].duplicateOf = IF b \in Followers(a) \cup Replacement(a)
                                    THEN a ELSE row[b].duplicateOf
<1> DEFINE rows == Reparented(a)
           shown == Shown("active", page, a)
<1>1. row' = [rows EXCEPT ![a] = [@ EXCEPT !.lifecycle = "active", !.trashed = FALSE,
                                           !.timer = "none", !.visible = shown]]
  BY DEF RestorePrimary
<1>2. row \in [Assets -> Row]
  BY DEF TypeOK
<1>3. /\ rows \in [Assets -> Row]
      /\ \A b \in Assets :
           /\ rows[b].lifecycle = row[b].lifecycle
           /\ rows[b].trashed = row[b].trashed
           /\ rows[b].visible = row[b].visible
           /\ rows[b].duplicateOf = IF b \in Followers(a) \cup Replacement(a)
                                    THEN a ELSE row[b].duplicateOf
  BY <1>2 DEF Reparented, Redirect, Row
<1> HIDE DEF rows, shown
<1> QED BY <1>1, <1>3 DEF Row, shown

LEMMA RestorePrimaryRows ==
  ASSUME Inv, RowInv, NEW a \in Assets, RestorePrimary(a)
  PROVE  RowInv'
<1> DEFINE moved == Followers(a) \cup Replacement(a)
<1>1. \A b \in Assets :
        /\ row'[b].lifecycle = IF b = a THEN "active" ELSE row[b].lifecycle
        /\ row'[b].trashed = IF b = a THEN FALSE ELSE row[b].trashed
        /\ row'[b].duplicateOf = IF b \in moved THEN a ELSE row[b].duplicateOf
  BY Restored DEF Inv
<1>2. /\ Listening /\ row[a].lifecycle = "trashed" /\ row[a].duplicateOf = NoAsset
      /\ UNCHANGED <<page, upload, purger>>
  BY DEF RestorePrimary, InMemory
<1>3. a \notin moved
  BY <1>2, AssetsAssumption DEF Followers, Replacement, Primaries
<1>4. \A b \in moved : b \in Assets /\ HashOf[b] = HashOf[a]
  BY AssetsAssumption
     DEF RowInv, DuplicatesNameAnOriginal, Followers, Replacement, Primaries
<1>5. \A p \in Primaries(HashOf[a]) : p = a \/ p \in moved
  BY DEF Replacement
<1>6. \A b \in Assets : row[b].duplicateOf \in Primaries(HashOf[a]) => b \in moved
  BY <1>2 DEF Followers, Replacement, Primaries
<1>7. \A b \in moved : row[b].duplicateOf # NoAsset => b \in Followers(a)
  BY DEF Replacement, Primaries
<1> HIDE DEF moved
<1>8. CondemnedAreResumed'
  <2>1. \A b \in Assets : row'[b].lifecycle = "purging" =>
                            b # a /\ row[b].lifecycle = "purging" /\ ~Referenced(b)
    BY <1>1, <1>2 DEF RowInv, CondemnedAreResumed, Purging
  <2>2. \A b \in Assets : ~OnPage(b) => ~OnPage(b)'
    BY <1>2 DEF OnPage
  <2>3. \A b \in Assets : b # a /\ ~HasDuplicate(b) => ~HasDuplicate(b)'
    BY <1>1 DEF HasDuplicate
  <2>4. \A b \in Assets : row'[b].lifecycle = "purging" => ~Referenced(b)'
    BY <2>1, <2>2, <2>3 DEF Referenced
  <2> QED BY <2>4 DEF CondemnedAreResumed, Purging
<1>9. RowsAreMarked'
  BY <1>1, AssetsAssumption DEF RowInv, RowsAreMarked
<1>10. NothingWrittenYet'
  BY <1>2 DEF NothingWrittenYet, Listening
<1>11. StraysAreAlone'
  <2>1. \A b \in Assets : ~Stray(b)
    BY <1>2, NoStrayWhileListening
  <2>2. \A b \in Assets : ~Stray(b)'
    BY <1>1, <2>1, AssetsAssumption DEF Stray
  <2> QED BY <2>2 DEF StraysAreAlone
<1>12. DuplicatesNameAnOriginal'
  <2> SUFFICES ASSUME NEW d \in Assets, row'[d].duplicateOf # NoAsset
               PROVE  /\ row'[row'[d].duplicateOf].lifecycle # "none"
                      /\ row'[row'[d].duplicateOf].duplicateOf = NoAsset
                      /\ HashOf[row'[d].duplicateOf] = HashOf[d]
    BY DEF DuplicatesNameAnOriginal
  <2>1. CASE d \in moved
    BY <2>1, <1>1, <1>2, <1>3, <1>4
  <2>2. CASE d \notin moved
    <3> DEFINE p == row[d].duplicateOf
    <3>1. /\ row'[d].duplicateOf = p /\ p # NoAsset
          /\ row[p].lifecycle # "none" /\ row[p].duplicateOf = NoAsset /\ HashOf[p] = HashOf[d]
      BY <1>1, <2>2 DEF RowInv, DuplicatesNameAnOriginal
    <3>2. p \in Assets
      BY <3>1 DEF Inv, TypeOK, Row
    <3>3. p \notin moved
      <4>1. p \notin Replacement(a)
        BY <1>6, <2>2 DEF Replacement
      <4>2. p \notin Followers(a)
        BY <3>1, AssetsAssumption DEF Followers, Replacement, Primaries
      <4> QED BY <4>1, <4>2 DEF moved
    <3> HIDE DEF p
    <3> QED BY <1>1, <3>1, <3>2, <3>3
  <2> QED BY <2>1, <2>2
<1>13. OnePrimaryPerHash'
  <2>1. \A b, h : b \in Primaries(h)' =>
                    (b = a /\ h = HashOf[a]) \/ (b \in Primaries(h) /\ h # HashOf[a])
    BY <1>1, <1>3, <1>5, AssetsAssumption DEF Primaries
  <2> QED BY <2>1 DEF RowInv, OnePrimaryPerHash
<1> QED BY <1>8, <1>9, <1>10, <1>11, <1>12, <1>13 DEF RowInv

LEMMA AssetRows ==
  ASSUME Inv, RowInv, NEW a \in Assets, AssetStep(a)
  PROVE  RowInv'
<1>1. row \in [Assets -> Row]
  BY DEF Inv, TypeOK
<1>2. UNCHANGED <<page, upload>> /\ purger'[Ticker] = purger[Ticker] /\ Listening' = Listening
  BY DEF AssetStep, Trash, RestoreDuplicate, RestorePrimary, Expire, InMemory, Listening
<1>3. CASE Trash(a)
  <2>1. \A b \in Assets :
          /\ row'[b].duplicateOf = row[b].duplicateOf
          /\ row'[b].lifecycle = IF b = a THEN "trashed" ELSE row[b].lifecycle
          /\ row'[b].trashed = IF b = a THEN TRUE ELSE row[b].trashed
    BY <1>1, <1>3 DEF Trash, Row
  <2>2. row[a].lifecycle # "none"
    BY <1>3 DEF Trash, Live
  <2>3. RowsAreMarked' /\ \A b \in Assets : Stray(b)' => Stray(b)
    BY <2>1 DEF RowInv, RowsAreMarked, Stray
  <2> QED BY <1>2, <2>1, <2>2, <2>3, SameNames
<1>4. CASE RestoreDuplicate(a)
  <2>1. \A b \in Assets :
          /\ row'[b].duplicateOf = row[b].duplicateOf
          /\ row'[b].lifecycle = IF b = a THEN "duplicate" ELSE row[b].lifecycle
          /\ row'[b].trashed = IF b = a THEN FALSE ELSE row[b].trashed
    BY <1>1, <1>4 DEF RestoreDuplicate, Row
  <2>2. row[a].lifecycle = "trashed" /\ row[a].duplicateOf # NoAsset
    BY <1>4 DEF RestoreDuplicate
  <2>3. RowsAreMarked' /\ \A b \in Assets : Stray(b)' => Stray(b)
    BY <2>1, <2>2 DEF RowInv, RowsAreMarked, Stray
  <2> QED BY <1>2, <2>1, <2>2, <2>3, SameNames
<1>5. CASE RestorePrimary(a)
  BY <1>5, RestorePrimaryRows
<1>6. CASE Expire(a)
  <2>1. \A b \in Assets :
          /\ row'[b].duplicateOf = row[b].duplicateOf
          /\ row'[b].lifecycle = row[b].lifecycle
          /\ row'[b].trashed = row[b].trashed
    BY <1>1, <1>6 DEF Expire, Row
  <2>2. RowsAreMarked' /\ \A b \in Assets : Stray(b)' => Stray(b)
    BY <2>1 DEF RowInv, RowsAreMarked, Stray
  <2> QED BY <1>2, <2>1, <2>2, SameNames
<1> QED BY <1>3, <1>4, <1>5, <1>6 DEF AssetStep

\* What a stack edit writes besides lifecycle and duplicate_of.
LEMMA RowUpdateMarks ==
  ASSUME TypeOK, NEW promoted \in SUBSET Assets, NEW affected \in SUBSET Assets,
         UpdateRows(promoted, affected)
  PROVE  \A a \in Assets :
           /\ row'[a].trashed = row[a].trashed
           /\ row'[a].visible = IF a \in affected THEN Shown(row'[a].lifecycle, page', a)
                                ELSE row[a].visible
<1> DEFINE promotedRows == PromoteDuplicates(row, promoted)
<1>1. /\ promotedRows \in [Assets -> Row]
      /\ \A a \in Assets : /\ promotedRows[a].trashed = row[a].trashed
                           /\ promotedRows[a].visible = row[a].visible
  <2>1. row \in [Assets -> Row]
    BY DEF TypeOK
  <2> QED BY <2>1 DEF PromoteDuplicates, Row, Lifecycles, Timers
<1> HIDE DEF promotedRows
<1>2. row' = RecomputeVisibility(promotedRows, page', affected)
  BY DEF UpdateRows, promotedRows
<1>3. \A a \in Assets : row'[a] = IF a \in affected
        THEN [promotedRows[a] EXCEPT !.visible = Shown(promotedRows[a].lifecycle, page', a)]
        ELSE promotedRows[a]
  BY <1>2 DEF RecomputeVisibility
<1>4. ASSUME NEW a \in Assets
      PROVE  /\ row'[a].trashed = row[a].trashed
             /\ row'[a].visible = IF a \in affected THEN Shown(row'[a].lifecycle, page', a)
                                  ELSE row[a].visible
  <2> DEFINE shown == Shown(promotedRows[a].lifecycle, page', a)
  <2>1. row'[a] = IF a \in affected THEN [promotedRows[a] EXCEPT !.visible = shown]
                  ELSE promotedRows[a]
    BY <1>3
  <2>2. promotedRows[a] \in Row
    BY <1>1
  <2>3. row'[a].lifecycle = promotedRows[a].lifecycle
    <3> HIDE DEF shown
    <3> QED BY <2>1, <2>2 DEF Row
  <2>4. shown = Shown(row'[a].lifecycle, page', a)
    BY <2>3
  <2> HIDE DEF shown
  <2> QED BY <1>1, <2>1, <2>2, <2>4 DEF Row
<1> QED BY <1>4

LEMMA StackListening ==
  ASSUME NEW s \in Stacks, StackStep(s)
  PROVE  Listening /\ UNCHANGED <<Files, InMemory>>
  BY DEF StackStep, CreateStack, AddPages, ReplaceStructure, RemovePage, SetCover,
         SetPageFlag, DeleteStack

LEMMA StackRows ==
  ASSUME Inv, RowInv, NEW s \in Stacks, StackStep(s)
  PROVE  RowInv'
<1>1. Listening /\ UNCHANGED <<upload, purger>>
  BY StackListening DEF InMemory
<1>2. CASE UNCHANGED row /\ UNCHANGED page
  BY <1>1, <1>2, IdleRows
<1>3. ASSUME NEW promoted \in SUBSET Assets, NEW affected \in SUBSET Assets,
             UpdateRows(promoted, affected),
             \A t \in Stacks, a \in Assets :
               page'[t][a].chapter # 0 => page[t][a].chapter # 0 \/ Live(a)
      PROVE  RowInv'
  <2>1. \A a \in Assets :
          /\ row'[a].duplicateOf = row[a].duplicateOf
          /\ row'[a].trashed = row[a].trashed
          /\ row'[a].lifecycle = IF a \in promoted /\ row[a].lifecycle = "duplicate"
                                 THEN "active" ELSE row[a].lifecycle
    BY <1>3, RowUpdateType, RowUpdateMarks DEF Inv
  <2>2. CondemnedAreResumed'
    <3>1. \A a \in Assets : row'[a].lifecycle = "purging" =>
                              row[a].lifecycle = "purging" /\ ~Referenced(a)
      BY <1>1, <2>1 DEF RowInv, CondemnedAreResumed, Purging
    <3>2. \A a \in Assets : row'[a].lifecycle = "purging" => ~OnPage(a)'
      BY <1>3, <3>1 DEF Referenced, OnPage, Live
    <3>3. \A a \in Assets : row'[a].lifecycle = "purging" => ~HasDuplicate(a)'
      BY <2>1, <3>1 DEF Referenced, HasDuplicate
    <3> QED BY <3>2, <3>3 DEF CondemnedAreResumed, Purging, Referenced
  <2>3. RowsAreMarked'
    BY <2>1 DEF RowInv, RowsAreMarked
  <2>4. NothingWrittenYet'
    BY <1>1 DEF NothingWrittenYet, Listening
  <2>5. StraysAreAlone'
    <3>1. \A a \in Assets : ~Stray(a)'
      BY <1>1, <2>1, NoStrayWhileListening DEF Stray
    <3> QED BY <3>1 DEF StraysAreAlone
  <2>6. DuplicatesNameAnOriginal'
    <3>1. \A d \in Assets : row[d].duplicateOf \in Assets \cup {NoAsset}
      BY DEF Inv, TypeOK, Row
    <3> QED BY <2>1, <3>1 DEF RowInv, DuplicatesNameAnOriginal
  <2>7. OnePrimaryPerHash'
    BY <2>1 DEF RowInv, RowsAreMarked, OnePrimaryPerHash, Primaries
  <2> QED BY <2>2, <2>3, <2>4, <2>5, <2>6, <2>7 DEF RowInv
<1> QED BY <1>2, <1>3, StackStepRows DEF Inv

\* Marking rows that nothing refers to, as MarkDue and PurgeNow do.
LEMMA MarkRows ==
  ASSUME Inv, RowInv, Listening, UNCHANGED <<page, upload>>, Listening', NEW A \in SUBSET Assets,
         \A a \in A : row[a].lifecycle \in {"duplicate", "trashed"} /\ ~Referenced(a),
         \A a \in Assets : /\ row'[a].lifecycle = IF a \in A THEN "purging" ELSE row[a].lifecycle
                           /\ row'[a].duplicateOf = row[a].duplicateOf
                           /\ row'[a].trashed = row[a].trashed
  PROVE  RowInv'
<1>1. \A a \in Assets : Stray(a)' => Stray(a)
  BY DEF RowInv, RowsAreMarked, Stray
<1>2. RowsAreMarked'
  BY DEF RowInv, RowsAreMarked
<1> QED BY <1>1, <1>2, SameNames

\* restore_blocked_legacy_tombstone makes an active row only of a page that
\* was a duplicate, or of one that has the library to itself.
LEMMA RescueRows ==
  ASSUME Inv, RowInv, NEW w \in Purgers, NEW a \in Assets, CheckTombstone(w, a),
         row[a].lifecycle = "purging", Referenced(a)
  PROVE  RowInv'
<1> DEFINE visible == ~row[a].trashed /\ OnPage(a) /\ Shown("active", page, a)
<1>1. /\ row' = [row EXCEPT ![a] = [@ EXCEPT !.lifecycle = FormerLifecycle(a),
                                             !.visible = visible]]
      /\ purger' = [purger EXCEPT ![w].todo = @ \ {a}]
      /\ UNCHANGED <<page, upload>>
  BY DEF CheckTombstone
<1> HIDE DEF visible
<1>2. row \in [Assets -> Row] /\ purger \in [Purgers -> Purge] /\ Ticker \in Purgers
  BY DEF Inv, TypeOK, Purgers
<1>3. \A b \in Assets :
        /\ row'[b].lifecycle = IF b = a THEN FormerLifecycle(a) ELSE row[b].lifecycle
        /\ row'[b].duplicateOf = row[b].duplicateOf
        /\ row'[b].trashed = row[b].trashed
  BY <1>1, <1>2 DEF Row
<1>4. /\ Listening' = Listening
      /\ \A b \in Assets \ {a} : b \in purger[Ticker].todo => b \in purger'[Ticker].todo
  BY <1>1, <1>2 DEF Listening, Purge
<1>5. \A b \in Assets : Referenced(b)' = Referenced(b)
  BY <1>1, <1>3, SameReferences
<1>6. /\ FormerLifecycle(a) \in {"active", "duplicate", "trashed"}
      /\ FormerLifecycle(a) = "active" => ~row[a].trashed
      /\ FormerLifecycle(a) = "duplicate" => row[a].duplicateOf # NoAsset
      /\ FormerLifecycle(a) = "trashed" =>
           row[a].trashed \/ (~OnPage(a) /\ row[a].duplicateOf = NoAsset)
  <2>1. row[a].trashed \in BOOLEAN
    BY <1>2 DEF Row
  <2> QED BY <2>1 DEF FormerLifecycle
<1>7. Stray(a) => OnPage(a)
  BY DEF RowInv, StraysAreAlone
<1>8. CondemnedAreResumed'
  BY <1>3, <1>4, <1>5, <1>6 DEF RowInv, CondemnedAreResumed, Purging
<1>9. RowsAreMarked'
  BY <1>3, <1>6, <1>7 DEF RowInv, RowsAreMarked, Stray
<1>10. NothingWrittenYet'
  BY <1>1, <1>4 DEF RowInv, NothingWrittenYet
<1>11. StraysAreAlone'
  BY <1>3, <1>6 DEF RowInv, StraysAreAlone, Stray
<1>12. DuplicatesNameAnOriginal'
  <2>1. \A d \in Assets : row[d].duplicateOf \in Assets \cup {NoAsset}
    BY <1>2 DEF Row
  <2> QED BY <1>3, <1>6, <2>1 DEF RowInv, DuplicatesNameAnOriginal
<1>13. OnePrimaryPerHash'
  <2>1. CASE Stray(a)
    <3>1. \A b \in Assets \ {a} : row'[b].lifecycle = "none"
      BY <1>3, <2>1 DEF RowInv, StraysAreAlone
    <3> QED BY <3>1 DEF OnePrimaryPerHash, Primaries
  <2>2. CASE ~Stray(a)
    <3>1. \A b, h : b \in Primaries(h)' => b \in Primaries(h)
      BY <1>3, <1>6, <2>2 DEF Primaries, Stray
    <3> QED BY <3>1 DEF RowInv, OnePrimaryPerHash
  <2> QED BY <2>1, <2>2
<1> QED BY <1>8, <1>9, <1>10, <1>11, <1>12, <1>13 DEF RowInv

LEMMA EraseRows ==
  ASSUME Inv, RowInv, NEW w \in Purgers, NEW a \in Assets, Erase(w, a)
  PROVE  RowInv'
<1>1. row \in [Assets -> Row] /\ purger \in [Purgers -> Purge] /\ Ticker \in Purgers
  BY DEF Inv, TypeOK, Purgers
<1>2. /\ row[a].lifecycle = "purging" /\ ~Referenced(a)
      /\ UNCHANGED <<page, upload>>
      /\ \A b \in Assets \ {a} : row'[b] = row[b]
      /\ row'[a] = NoRow
  BY <1>1 DEF Erase, Erasable
<1>3. /\ Listening' = Listening
      /\ \A b \in Assets \ {a} : b \in purger[Ticker].todo => b \in purger'[Ticker].todo
  BY <1>1 DEF Erase, Listening, Purge
<1>4. \A b \in Assets : Referenced(b)' => Referenced(b)
  <2>1. \A b \in Assets : OnPage(b)' => OnPage(b)
    BY <1>2 DEF OnPage
  <2>2. \A b \in Assets : HasDuplicate(b)' => HasDuplicate(b)
    BY <1>2, AssetsAssumption DEF HasDuplicate, NoRow
  <2> QED BY <2>1, <2>2 DEF Referenced
<1>5. row'[a].lifecycle = "none" /\ row'[a].duplicateOf = NoAsset
  BY <1>2 DEF NoRow
<1>6. CondemnedAreResumed'
  BY <1>2, <1>3, <1>4, <1>5 DEF RowInv, CondemnedAreResumed, Purging
<1>7. RowsAreMarked'
  BY <1>2, <1>5 DEF RowInv, RowsAreMarked
<1>8. NothingWrittenYet'
  BY <1>2, <1>3 DEF RowInv, NothingWrittenYet
<1>9. StraysAreAlone'
  BY <1>2, <1>5 DEF RowInv, StraysAreAlone, Stray, OnPage
<1>10. DuplicatesNameAnOriginal'
  <2>1. \A d \in Assets : row[d].duplicateOf \in (Assets \ {a}) \cup {NoAsset}
    BY <1>1, <1>2 DEF Row, Referenced, HasDuplicate
  <2> QED BY <1>2, <1>5, <2>1 DEF RowInv, DuplicatesNameAnOriginal
<1>11. OnePrimaryPerHash'
  <2>1. \A b, h : b \in Primaries(h)' => b \in Primaries(h)
    BY <1>2, <1>5 DEF Primaries
  <2> QED BY <2>1 DEF RowInv, OnePrimaryPerHash
<1> QED BY <1>6, <1>7, <1>8, <1>9, <1>10, <1>11 DEF RowInv

\* Whatever ends or interrupts a purge before it is through lists every
\* tombstone again if the server was not listening yet.
LEMMA PurgerRows ==
  ASSUME Inv, RowInv, NEW w \in Purgers, NEW a \in Assets,
         \/ EraseFails(w, a) \/ EraseLost(w, a) \/ EndPurge(w) \/ RunDue \/ Crash
         \/ CheckTombstone(w, a) /\ ~(row[a].lifecycle = "purging" /\ Referenced(a))
  PROVE  RowInv'
<1>1. purger \in [Purgers -> Purge] /\ Ticker \in Purgers
  BY DEF Inv, TypeOK, Purgers
<1>2. UNCHANGED <<row, page>>
  BY DEF EraseFails, EraseLost, EndPurge, RunDue, Crash, CheckTombstone, Tables
<1>3. Purging' = Purging /\ \A b \in Purging : Referenced(b)' = Referenced(b)
  BY <1>2 DEF Referenced, OnPage, HasDuplicate, Purging
<1>4. CASE \/ EraseFails(w, a) \/ EraseLost(w, a) \/ EndPurge(w) \/ RunDue
           \/ CheckTombstone(w, a) /\ ~(row[a].lifecycle = "purging" /\ Referenced(a))
  <2>1. UNCHANGED upload
    BY <1>4 DEF EraseFails, EraseLost, EndPurge, RunDue, CheckTombstone
  <2>2. /\ Listening => Listening'
        /\ \A b \in Purging : ~Listening /\ b \in purger[Ticker].todo =>
                                ~Listening' /\ b \in purger'[Ticker].todo
    <3>1. CASE EraseFails(w, a) \/ EraseLost(w, a)
      <4>1. purger' = [purger EXCEPT ![w] = Stopped(w)]
        BY <3>1 DEF EraseFails, EraseLost
      <4> QED BY <1>1, <4>1 DEF Stopped, Listening, Resuming, AllPurging, Idle, Purging
    <3>2. CASE EndPurge(w) \/ RunDue
      BY <1>1, <3>2 DEF EndPurge, RunDue, Listening, Idle, Resuming
    <3>3. CASE CheckTombstone(w, a) /\ ~(row[a].lifecycle = "purging" /\ Referenced(a))
      <4>1. purger' = [purger EXCEPT ![w].checked = a]
        BY <3>3 DEF CheckTombstone
      <4> QED BY <1>1, <4>1 DEF Listening, Purge
    <3> QED BY <1>4, <3>1, <3>2, <3>3
  <2>3. CondemnedAreResumed'
    BY <1>3, <2>2 DEF RowInv, CondemnedAreResumed
  <2>4. NothingWrittenYet'
    BY <2>1, <2>2 DEF RowInv, NothingWrittenYet
  <2> QED BY <1>2, <2>3, <2>4, QuietRows
<1>5. CASE Crash
  <2>1. CondemnedAreResumed'
    BY <1>1, <1>2, <1>5 DEF Crash, CondemnedAreResumed, Purging, Listening, Resuming, AllPurging
  <2>2. NothingWrittenYet'
    BY <1>5 DEF Crash, NothingWrittenYet
  <2> QED BY <1>2, <2>1, <2>2, QuietRows
<1> QED BY <1>4, <1>5

LEMMA NextRows ==
  ASSUME Inv, RowInv, [Next]_vars
  PROVE  RowInv'
<1>1. row \in [Assets -> Row] /\ purger \in [Purgers -> Purge] /\ Ticker \in Purgers
  BY DEF Inv, TypeOK, Purgers
<1>2. ASSUME NEW a \in Assets, UploadStep(a) \/ AssetStep(a) PROVE RowInv'
  BY <1>2, UploadRows, AssetRows
<1>3. ASSUME NEW a \in Assets, ThumbnailStep(a) PROVE RowInv'
  BY <1>3, IdleRows DEF ThumbnailStep, ReadSource, StoreDerived, Tables
<1>4. ASSUME NEW s \in Stacks, StackStep(s) PROVE RowInv'
  BY <1>4, StackRows
<1>5. ASSUME NEW w \in Purgers, NEW a \in Assets, PurgeNow(w, a) PROVE RowInv'
  <2>1. Listening /\ UNCHANGED <<page, upload>>
    BY <1>5 DEF PurgeNow
  <2>2. Listening'
    BY <1>1, <1>5, <2>1, PurgersAssumption DEF PurgeNow, Listening
  <2>3. \A b \in {a} : row[b].lifecycle \in {"duplicate", "trashed"} /\ ~Referenced(b)
    BY <1>5 DEF PurgeNow
  <2>4. \A b \in Assets : /\ row'[b].lifecycle = IF b \in {a} THEN "purging" ELSE row[b].lifecycle
                          /\ row'[b].duplicateOf = row[b].duplicateOf
                          /\ row'[b].trashed = row[b].trashed
    BY <1>1, <1>5 DEF PurgeNow, Row
  <2> QED BY <2>1, <2>2, <2>3, <2>4, MarkRows
<1>6. CASE MarkDue
  <2>1. Listening /\ Listening' /\ UNCHANGED <<page, upload>>
    BY <1>1, <1>6 DEF MarkDue, MarkAndList, Listening
  <2>2. /\ Due \in SUBSET Assets
        /\ \A b \in Due : row[b].lifecycle \in {"duplicate", "trashed"} /\ ~Referenced(b)
    BY DEF Due, Expired
  <2>3. \A b \in Assets : /\ row'[b].lifecycle = IF b \in Due THEN "purging" ELSE row[b].lifecycle
                          /\ row'[b].duplicateOf = row[b].duplicateOf
                          /\ row'[b].trashed = row[b].trashed
    BY <1>1, <1>6 DEF MarkDue, MarkAndList, Row
  <2> QED BY <2>1, <2>2, <2>3, MarkRows
<1>7. ASSUME NEW w \in Purgers, NEW a \in Assets,
             CheckTombstone(w, a) \/ Erase(w, a) \/ EraseLost(w, a) \/ EraseFails(w, a)
      PROVE  RowInv'
  BY <1>7, RescueRows, EraseRows, PurgerRows
<1>8. ASSUME NEW w \in Purgers, EndPurge(w) \/ RunDue \/ Crash PROVE RowInv'
  <2>1. CASE Assets = {}
    BY <2>1 DEF RowInv, CondemnedAreResumed, RowsAreMarked, NothingWrittenYet, StraysAreAlone,
                DuplicatesNameAnOriginal, OnePrimaryPerHash, Purging
  <2>2. ASSUME NEW a \in Assets PROVE RowInv'
    BY <1>8, PurgerRows
  <2> QED BY <2>1, <2>2
<1>9. CASE UNCHANGED vars
  BY <1>9, IdleRows DEF vars
<1> QED BY <1>1, <1>2, <1>3, <1>4, <1>5, <1>6, <1>7, <1>8, <1>9
        DEF Next, Work, Fault, PurgeStep

\* The invariant of the rows is inductive together with that of the files.
LEMMA RowInvariance == Spec => [](Inv /\ RowInv)
<1>1. Init => RowInv
  BY InitRows
<1>2. Inv /\ RowInv /\ [Next]_vars => RowInv'
  BY NextRows
<1> QED BY <1>1, <1>2, Invariance, PTL DEF Spec

\* Once the server listens, whatever uploads, restores, stack edits, purges,
\* I/O errors and restarts there are, no row that purge.rs has marked is on a
\* page or named by a duplicate: a purge that was begun can be completed.
THEOREM TombstonesStayFree == Spec => []TombstonesAreFree
<1>1. RowInv => TombstonesAreFree
  BY DEF RowInv, CondemnedAreResumed, TombstonesAreFree
<1> QED BY <1>1, RowInvariance, PTL

\* ingest_at, restore_at and purge.rs keep duplicate_of free of chains,
\* cycles and dangling references, and within one hash, for any number of
\* copies of an image.
THEOREM DuplicatesStayFlat == Spec => []DuplicatesNameAnOriginal
<1>1. RowInv => DuplicatesNameAnOriginal
  BY DEF RowInv
<1> QED BY <1>1, RowInvariance, PTL

\* ux_assets_hash_primary never refuses what ingest_at, restore_at,
\* promote_duplicates or restore_blocked_legacy_tombstone write: no hash
\* ever gets a second primary.
THEOREM PrimariesStayUnique == Spec => []OnePrimaryPerHash
<1>1. RowInv => OnePrimaryPerHash
  BY DEF RowInv
<1> QED BY <1>1, RowInvariance, PTL

-----------------------------------------------------------------------------
(* The last copy of an image.                                              *)

\* Only Erase takes a row away.
LEMMA RowsAreKept ==
  ASSUME Inv, [Next]_vars, NEW a \in Assets,
         row[a].lifecycle # "none", row'[a].lifecycle = "none"
  PROVE  \E w \in Purgers : Erase(w, a)
<1>1. row \in [Assets -> Row] /\ Ticker \in Purgers
  BY DEF Inv, TypeOK, Purgers
<1>2. ASSUME NEW b \in Assets, UploadStep(b) PROVE FALSE
  BY <1>1, <1>2 DEF UploadStep, WriteUpload, CommitUpload, FailUpload, Tables, NoRow
<1>3. ASSUME NEW b \in Assets, AssetStep(b) PROVE FALSE
  <2>1. CASE Trash(b)
    BY <1>1, <2>1 DEF Trash, Row
  <2>2. CASE RestoreDuplicate(b)
    BY <1>1, <2>2 DEF RestoreDuplicate, Row
  <2>3. CASE RestorePrimary(b)
    BY <2>3, Restored DEF Inv
  <2>4. CASE Expire(b)
    BY <1>1, <2>4 DEF Expire, Row
  <2> QED BY <1>3, <2>1, <2>2, <2>3, <2>4 DEF AssetStep
<1>4. ASSUME NEW b \in Assets, ThumbnailStep(b) PROVE FALSE
  BY <1>4 DEF ThumbnailStep, ReadSource, StoreDerived, Tables
<1>5. ASSUME NEW s \in Stacks, StackStep(s) PROVE FALSE
  <2>1. CASE UNCHANGED row
    BY <2>1
  <2>2. ASSUME NEW promoted \in SUBSET Assets, NEW affected \in SUBSET Assets,
               UpdateRows(promoted, affected)
        PROVE  FALSE
    BY <2>2, RowUpdateType DEF Inv
  <2> QED BY <1>5, <2>1, <2>2, StackStepRows DEF Inv
<1>6. ASSUME NEW w \in Purgers, NEW b \in Assets,
             PurgeNow(w, b) \/ EraseLost(w, b) \/ EraseFails(w, b)
      PROVE  FALSE
  BY <1>1, <1>6 DEF PurgeNow, EraseLost, EraseFails, Tables, Row
<1>7. ASSUME NEW w \in Purgers, NEW b \in Assets, CheckTombstone(w, b) PROVE FALSE
  <2> DEFINE visible == ~row[b].trashed /\ OnPage(b) /\ Shown("active", page, b)
  <2>1. \/ UNCHANGED row
        \/ row' = [row EXCEPT ![b] = [@ EXCEPT !.lifecycle = FormerLifecycle(b),
                                               !.visible = visible]]
    BY <1>7 DEF CheckTombstone
  <2>2. FormerLifecycle(b) # "none"
    <3>1. row[b].trashed \in BOOLEAN
      BY <1>1 DEF Row
    <3> QED BY <3>1 DEF FormerLifecycle
  <2> HIDE DEF visible
  <2> QED BY <1>1, <2>1, <2>2 DEF Row
<1>8. ASSUME NEW w \in Purgers, NEW b \in Assets, Erase(w, b) PROVE Erase(w, a)
  BY <1>1, <1>8 DEF Erase
<1>9. ASSUME NEW w \in Purgers, EndPurge(w) \/ RunDue \/ Crash PROVE FALSE
  BY <1>9 DEF EndPurge, RunDue, Crash, Tables
<1>10. CASE MarkDue
  BY <1>1, <1>10 DEF MarkDue, MarkAndList, Row
<1>11. CASE UNCHANGED vars
  BY <1>11 DEF vars
<1> QED BY <1>1, <1>2, <1>3, <1>4, <1>5, <1>6, <1>7, <1>8, <1>9, <1>10, <1>11
        DEF Next, Work, Fault, PurgeStep

\* An erased row that was never in the trash was a duplicate, so its
\* original is still there.
LEMMA LastCopyStep ==
  ASSUME Inv, RowInv, [Next]_vars,
         NEW h \in Hashes, Copies(h) # {}, Copies(h)' = {}, NEW a \in Copies(h)
  PROVE  row[a].trashed
<1>1. /\ a \in Assets /\ HashOf[a] = h
      /\ \A b \in Copies(h) : b \in Assets /\ row[b].lifecycle # "none" /\ row'[b].lifecycle = "none"
  BY DEF Copies
<1>2. PICK w \in Purgers : Erase(w, a)
  BY <1>1, RowsAreKept
<1>3. /\ row[a].lifecycle = "purging" /\ ~Referenced(a)
      /\ \A b \in Assets \ {a} : row'[b] = row[b]
  BY <1>2 DEF Erase, Erasable, Inv, TypeOK
<1> SUFFICES ASSUME ~row[a].trashed PROVE FALSE
  OBVIOUS
<1>4. row[a].duplicateOf # NoAsset
  BY <1>1, <1>3 DEF RowInv, StraysAreAlone, Stray, Referenced
<1> DEFINE p == row[a].duplicateOf
<1>5. p \in Assets /\ p # a
  BY <1>1, <1>3, <1>4 DEF Inv, TypeOK, Row, Referenced, HasDuplicate
<1>6. HashOf[p] = h /\ row[p].lifecycle # "none"
  BY <1>1, <1>4 DEF RowInv, DuplicatesNameAnOriginal
<1> HIDE DEF p
<1> QED BY <1>1, <1>3, <1>5, <1>6 DEF Copies

\* Whatever purge.rs deletes, the last row with the bytes of an image goes
\* only if the user put it in the trash: the expiry of duplicates and the
\* tombstones of older builds never take away what was not deleted.
THEOREM LastCopiesWereTrashed == Spec => LastCopyWasTrashed
<1>1. Inv /\ RowInv /\ [Next]_vars =>
        [\A h \in Hashes : Copies(h) # {} /\ Copies(h)' = {} =>
           \A a \in Copies(h) : row[a].trashed]_vars
  BY LastCopyStep
<1> QED BY <1>1, RowInvariance, PTL DEF Spec, LastCopyWasTrashed

-----------------------------------------------------------------------------
(* Derived files.                                                          *)

LEMMA DerivedStep ==
  ASSUME Inv, DerivedHasRow, [Next]_vars
  PROVE  DerivedHasRow'
<1>1. Ticker \in Purgers
  BY DEF Purgers
<1>2. ASSUME NEW a \in derived' PROVE a \in derived \/ (Live(a) /\ UNCHANGED row)
  <2> SUFFICES ASSUME a \notin derived PROVE Live(a) /\ UNCHANGED row
    OBVIOUS
  <2>1. CASE \/ \E b \in Assets : UploadStep(b) \/ AssetStep(b)
             \/ \E s \in Stacks : StackStep(s)
    <3>1. UNCHANGED derived
      BY <2>1, StackListening
         DEF UploadStep, WriteUpload, CommitUpload, FailUpload, AssetStep, Trash,
             RestoreDuplicate, RestorePrimary, Expire, Files
    <3> QED BY <3>1, <1>2
  <2>2. ASSUME NEW b \in Assets, ThumbnailStep(b) PROVE Live(a) /\ UNCHANGED row
    BY <2>2, <1>2 DEF ThumbnailStep, ReadSource, StoreDerived, Tables, Files
  <2>3. CASE \/ \E w \in Purgers : PurgeStep(w) \/ \E b \in Assets : PurgeNow(w, b)
             \/ RunDue \/ MarkDue \/ Fault \/ UNCHANGED vars
    <3>1. derived' \subseteq derived
      BY <2>3 DEF PurgeStep, CheckTombstone, Erase, EraseLost, EndPurge, PurgeNow, RunDue, MarkDue,
                  MarkAndList, Fault, Crash, EraseFails, Files, vars
    <3> QED BY <3>1, <1>2
  <2> QED BY <2>1, <2>2, <2>3 DEF Next, Work
<1>3. ASSUME NEW a \in derived', a \in Assets PROVE row'[a].lifecycle # "none"
  <2> SUFFICES ASSUME row'[a].lifecycle = "none" PROVE FALSE
    OBVIOUS
  <2>1. a \in derived /\ row[a].lifecycle # "none"
    BY <1>2 DEF DerivedHasRow, Live
  <2>2. PICK w \in Purgers : Erase(w, a)
    BY <1>3, <2>1, RowsAreKept
  <2>3. a \notin derived'
    BY <2>2 DEF Erase
  <2> QED BY <2>3, <1>3
<1>4. derived' \in SUBSET Assets
  BY NextType DEF Inv, TypeOK
<1> QED BY <1>3, <1>4 DEF DerivedHasRow

\* generate_thumbnails never brings back an image of a row that purge.rs has
\* deleted since the job read the source, for any number of jobs and purges.
THEOREM DerivedKeepsRow == Spec => []DerivedHasRow
<1>1. Init => DerivedHasRow
  BY InitRowsAreWhole DEF Init, DerivedHasRow
<1>2. Inv /\ DerivedHasRow /\ [Next]_vars => DerivedHasRow'
  BY DerivedStep
<1> QED BY <1>1, <1>2, Invariance, PTL DEF Spec

-----------------------------------------------------------------------------
(* What the page operators do to the numbers of a stack.                   *)

InChapter(pg, c) == {a \in PagesOf(pg) : pg[a].chapter = c}
Numbers(pg, c) == {pg[a].no : a \in InChapter(pg, c)}

\* Pages are numbered 1, 2, ... in each chapter.
Numbered(pg) ==
  \A c \in 1 .. MaxChapters : Numbers(pg, c) = 1 .. Cardinality(InChapter(pg, c))

LEMMA ChapterIsFinite ==
  ASSUME NEW pg \in Pages, NEW c
  PROVE  /\ InChapter(pg, c) \in SUBSET Assets
         /\ IsFiniteSet(InChapter(pg, c))
         /\ Cardinality(InChapter(pg, c)) \in Nat
<1>1. InChapter(pg, c) \in SUBSET Assets
  BY DEF InChapter, PagesOf
<1> QED BY <1>1, AssetsAssumption, FS_Subset, FS_CardinalityType

LEMMA NoPagesNumbered ==
  /\ PagesOf(NoPages) = {}
  /\ \A c : InChapter(NoPages, c) = {}
  /\ Numbered(NoPages)
<1>1. PagesOf(NoPages) = {} /\ \A c : InChapter(NoPages, c) = {}
  BY DEF PagesOf, InChapter, NoPages, NoPage
<1>2. \A c : Numbers(NoPages, c) = {}
  BY <1>1 DEF Numbers
<1>3. 1 .. 0 = {}
  OBVIOUS
<1> QED BY <1>1, <1>2, <1>3, FS_EmptySet DEF Numbered

\* A list of distinct assets and its positions are in bijection.
LEMMA ListPositions ==
  ASSUME NEW list \in PageLists
  PROVE  /\ Len(list) \in Nat
         /\ IsFiniteSet(Range(list)) /\ Cardinality(Range(list)) = Len(list)
         /\ \A a \in Range(list) : Position(list, a) \in 1 .. Len(list)
         /\ \A i \in 1 .. Len(list) : list[i] \in Range(list) /\ Position(list, list[i]) = i
<1>1. PICK n \in 0 .. MaxPages : list \in [1 .. n -> Assets] /\ IsInjective(list)
  BY DEF PageLists
<1>2. n \in Nat /\ Len(list) = n /\ DOMAIN list = 1 .. n
  BY <1>1, BoundsAssumption
<1>3. \A a \in Range(list) : Position(list, a) \in 1 .. n /\ list[Position(list, a)] = a
  <2> TAKE a \in Range(list)
  <2>1. \E i \in DOMAIN list : list[i] = a
    BY DEF Range
  <2> QED BY <1>2, <2>1 DEF Position
<1>4. \A i \in 1 .. n : list[i] \in Range(list) /\ Position(list, list[i]) = i
  <2> TAKE i \in 1 .. n
  <2>1. list[i] \in Range(list)
    BY <1>2 DEF Range
  <2> QED BY <1>1, <1>2, <1>3, <2>1 DEF IsInjective
<1>5. IsFiniteSet(Range(list)) /\ Cardinality(Range(list)) = n
  <2>1. list \in Bijection(1 .. n, Range(list))
    BY <1>1, <1>2 DEF Bijection, Injection, Surjection, IsInjective, Range
  <2>2. IsFiniteSet(1 .. n) /\ Cardinality(1 .. n) = n
    BY <1>2, FS_Interval
  <2> QED BY <2>1, <2>2, FS_Bijection DEF ExistsBijection
<1> QED BY <1>2, <1>3, <1>4, <1>5

\* coalesce(max(page_no), 0) + 1 is the number of pages plus one.
LEMMA NextPageNoIs ==
  ASSUME NEW pg \in Pages, Numbered(pg), NEW c \in 1 .. MaxChapters
  PROVE  NextPageNo(pg, c) = Cardinality(InChapter(pg, c)) + 1
<1> DEFINE k == Cardinality(InChapter(pg, c))
           all == {0} \cup {pg[a].no : a \in {b \in Assets : pg[b].chapter = c}}
<1>1. k \in Nat
  BY ChapterIsFinite
<1>2. all = 0 .. k
  <2>1. InChapter(pg, c) = {b \in Assets : pg[b].chapter = c}
    BY BoundsAssumption DEF InChapter, PagesOf
  <2>2. {pg[a].no : a \in InChapter(pg, c)} = 1 .. k
    BY DEF Numbered, Numbers
  <2>3. all = {0} \cup (1 .. k)
    BY <2>1, <2>2
  <2> HIDE DEF all, k
  <2> QED BY <1>1, <2>3
<1>3. NextPageNo(pg, c) = Max(all) + 1
  BY DEF NextPageNo
<1> HIDE DEF k, all
<1>4. IsFiniteSet(all) /\ all \in SUBSET Nat /\ all # {} /\ k \in all
  <2>1. 0 \in Int /\ k \in Int
    BY <1>1
  <2>2. IsFiniteSet(0 .. k)
    BY <2>1, FS_Interval
  <2> QED BY <1>1, <1>2, <2>2
<1>5. Max(all) \in all /\ Max(all) >= k
  BY <1>4, MaxIsGreatest
<1>6. Max(all) = k
  BY <1>1, <1>2, <1>5
<1> QED BY <1>3, <1>6 DEF k

\* insert_pages after the last page of a chapter.
LEMMA InsertedNumbers ==
  ASSUME NEW pg \in Pages, NEW flags \in Pages, Numbered(pg), NEW c \in 1 .. MaxChapters,
         NEW list \in PageLists, Range(list) \cap PagesOf(pg) = {}
  PROVE  LET new == InsertPages(pg, c, Cardinality(InChapter(pg, c)) + 1, list, flags)
         IN  /\ Numbered(new)
             /\ PagesOf(new) = PagesOf(pg) \cup Range(list)
             /\ \A a \in Assets : new[a].chapter = IF a \in Range(list) THEN c ELSE pg[a].chapter
<1> DEFINE k == Cardinality(InChapter(pg, c))
           new == InsertPages(pg, c, k + 1, list, flags)
<1>1. k \in Nat /\ IsFiniteSet(InChapter(pg, c)) /\ InChapter(pg, c) \subseteq PagesOf(pg)
  BY ChapterIsFinite DEF InChapter
<1>2. /\ Len(list) \in Nat /\ Range(list) \in SUBSET Assets
      /\ IsFiniteSet(Range(list)) /\ Cardinality(Range(list)) = Len(list)
      /\ \A a \in Range(list) : Position(list, a) \in 1 .. Len(list)
      /\ \A i \in 1 .. Len(list) : list[i] \in Range(list) /\ Position(list, list[i]) = i
  BY ListPositions, ListType
<1>3. \A a \in Assets :
        /\ a \in Range(list) => new[a].chapter = c /\ new[a].no = k + Position(list, a)
        /\ a \notin Range(list) => new[a] = pg[a]
  <2> SUFFICES ASSUME NEW a \in Assets
               PROVE  /\ a \in Range(list) => new[a].chapter = c /\ new[a].no = k + Position(list, a)
                      /\ a \notin Range(list) => new[a] = pg[a]
    OBVIOUS
  <2>1. new[a] = IF a \in Range(list)
                 THEN [chapter |-> c, no |-> (k + 1) + Position(list, a) - 1, show |-> flags[a].show]
                 ELSE pg[a]
    BY DEF InsertPages
  <2> HIDE DEF k, new
  <2>2. a \in Range(list) => (k + 1) + Position(list, a) - 1 = k + Position(list, a)
    BY <1>1, <1>2
  <2> QED BY <2>1, <2>2
<1>4. c # 0 /\ c \in Nat
  BY BoundsAssumption
<1> HIDE DEF new
<1>5. PagesOf(new) = PagesOf(pg) \cup Range(list)
  BY <1>2, <1>3, <1>4 DEF PagesOf
<1>6. InChapter(new, c) = InChapter(pg, c) \cup Range(list)
  BY <1>2, <1>3, <1>5 DEF InChapter, PagesOf
<1>7. Cardinality(InChapter(new, c)) = k + Len(list)
  <2>1. InChapter(pg, c) \cap Range(list) = {}
    BY <1>1
  <2>2. Cardinality({}) = 0
    BY FS_EmptySet
  <2>3. Cardinality(InChapter(new, c)) = k + Len(list) - 0
    BY <1>1, <1>2, <1>6, <2>1, <2>2, FS_Union, Zenon
  <2> HIDE DEF k
  <2> QED BY <1>1, <1>2, <2>3
<1>8. Numbers(new, c) = 1 .. (k + Len(list))
  <2>1. \A a \in InChapter(pg, c) : a \in Assets /\ a \notin Range(list)
    BY <1>1 DEF PagesOf
  <2>2. Numbers(new, c) = Numbers(pg, c) \cup {k + Position(list, a) : a \in Range(list)}
    BY <1>2, <1>3, <1>6, <2>1 DEF Numbers
  <2>3. Numbers(pg, c) = 1 .. k
    BY DEF Numbered
  <2> HIDE DEF k
  <2>4. {k + Position(list, a) : a \in Range(list)} = (k + 1) .. (k + Len(list))
    <3>1. \A m \in (k + 1) .. (k + Len(list)) :
            m - k \in 1 .. Len(list) /\ m = k + (m - k)
      BY <1>1, <1>2
    <3>2. \A m \in (k + 1) .. (k + Len(list)) : \E a \in Range(list) : m = k + Position(list, a)
      BY <1>2, <3>1
    <3>3. \A a \in Range(list) : k + Position(list, a) \in (k + 1) .. (k + Len(list))
      BY <1>1, <1>2
    <3> QED BY <3>2, <3>3
  <2> QED BY <1>1, <1>2, <2>2, <2>3, <2>4
<1>9. \A d \in 1 .. MaxChapters : d # c => /\ InChapter(new, d) = InChapter(pg, d)
                                           /\ Numbers(new, d) = Numbers(pg, d)
  <2> SUFFICES ASSUME NEW d \in 1 .. MaxChapters, d # c
               PROVE  /\ InChapter(new, d) = InChapter(pg, d)
                      /\ Numbers(new, d) = Numbers(pg, d)
    OBVIOUS
  <2>1. \A a \in InChapter(pg, d) : a \in Assets /\ a \notin Range(list)
    BY DEF InChapter, PagesOf
  <2>2. InChapter(new, d) = InChapter(pg, d)
    BY <1>3, <1>5, <2>1 DEF InChapter, PagesOf
  <2> QED BY <1>3, <2>1, <2>2 DEF Numbers
<1>10. Numbered(new)
  BY <1>7, <1>8, <1>9 DEF Numbered
<1>11. \A a \in Assets : new[a].chapter = IF a \in Range(list) THEN c ELSE pg[a].chapter
  BY <1>3
<1> QED BY <1>5, <1>10, <1>11 DEF new

\* In a numbered stack no two pages of a chapter have the same number.
LEMMA NumbersAreDistinct ==
  ASSUME NEW pg \in Pages, Numbered(pg), NEW c \in 1 .. MaxChapters,
         NEW a \in InChapter(pg, c), NEW b \in InChapter(pg, c), pg[a].no = pg[b].no
  PROVE  a = b
<1> DEFINE A == InChapter(pg, c)
           k == Cardinality(A)
           f == [x \in A |-> pg[x].no]
<1>1. k \in Nat /\ IsFiniteSet(A)
  BY ChapterIsFinite
<1>2. {pg[x].no : x \in A} = 1 .. k
  BY DEF Numbered, Numbers
<1>3. f \in Surjection(A, 1 .. k)
  <2> HIDE DEF A, k
  <2> QED BY <1>2 DEF Surjection
<1>4. Cardinality(1 .. k) = k
  BY <1>1, FS_Interval
<1>5. f \in Injection(A, 1 .. k)
  <2> HIDE DEF f
  <2> QED BY <1>1, <1>3, <1>4, FS_Surjection
<1>6. f[a] = f[b]
  OBVIOUS
<1> HIDE DEF f, k
<1> QED BY <1>5, <1>6 DEF Injection, IsInjective

\* renumber_pages changes nothing but numbers.
LEMMA RenumberedShows ==
  ASSUME NEW pg \in Pages
  PROVE  \A a \in Assets :
           /\ RenumberPages(pg)[a].chapter = pg[a].chapter
           /\ pg[a].chapter # 0 =>
                /\ RenumberPages(pg)[a].show = pg[a].show
                /\ RenumberPages(pg)[a].no =
                     Cardinality({b \in Assets : pg[b].chapter = pg[a].chapter /\ pg[b].no <= pg[a].no})
<1> TAKE a \in Assets
<1> DEFINE k == Cardinality({b \in Assets : pg[b].chapter = pg[a].chapter /\ pg[b].no <= pg[a].no})
<1>1. RenumberPages(pg)[a] = IF pg[a].chapter = 0 THEN NoPage ELSE [pg[a] EXCEPT !.no = k]
  BY DEF RenumberPages
<1>2. pg[a] \in Page
  BY DEF Pages
<1> HIDE DEF k
<1>3. CASE pg[a].chapter = 0
  <2>1. RenumberPages(pg)[a] = NoPage
    BY <1>1, <1>3
  <2> QED BY <1>3, <2>1 DEF NoPage
<1>4. CASE pg[a].chapter # 0
  <2>1. RenumberPages(pg)[a] = [pg[a] EXCEPT !.no = k]
    BY <1>1, <1>4
  <2> QED BY <1>2, <2>1 DEF Page, k
<1> QED BY <1>3, <1>4

\* renumber_pages closes every gap, whatever the numbers were.
LEMMA RenumberedNumbers ==
  ASSUME NEW pg \in Pages,
         \A c \in 1 .. MaxChapters : \A a, b \in InChapter(pg, c) : pg[a].no = pg[b].no => a = b
  PROVE  LET new == RenumberPages(pg)
         IN  /\ Numbered(new)
             /\ PagesOf(new) = PagesOf(pg)
             /\ \A a \in PagesOf(pg) : /\ new[a].chapter = pg[a].chapter
                                       /\ new[a].show = pg[a].show
<1> DEFINE new == RenumberPages(pg)
           UpTo(a) == {b \in Assets : pg[b].chapter = pg[a].chapter /\ pg[b].no <= pg[a].no}
<1>2. \A a \in Assets : IsFiniteSet(UpTo(a)) /\ Cardinality(UpTo(a)) \in Nat
  BY PagesAreFinite
<1>3. \A a \in Assets :
        /\ new[a].chapter = pg[a].chapter
        /\ pg[a].chapter # 0 => new[a].show = pg[a].show /\ new[a].no = Cardinality(UpTo(a))
  BY RenumberedShows
<1> HIDE DEF new, UpTo
<1>4. PagesOf(new) = PagesOf(pg) /\ \A c : InChapter(new, c) = InChapter(pg, c)
  BY <1>3 DEF PagesOf, InChapter
<1>5. ASSUME NEW c \in 1 .. MaxChapters
      PROVE  Numbers(new, c) = 1 .. Cardinality(InChapter(new, c))
  <2> DEFINE A == InChapter(pg, c)
             k == Cardinality(A)
             rank == [a \in A |-> Cardinality(UpTo(a))]
  <2>1. k \in Nat /\ IsFiniteSet(A)
    BY ChapterIsFinite
  <2>2. \A a \in A : a \in Assets /\ pg[a].chapter = c /\ pg[a].chapter # 0 /\ pg[a].no \in Nat
    BY DEF InChapter, PagesOf, Pages, Page
  <2>3. \A a \in A : UpTo(a) = {b \in A : pg[b].no <= pg[a].no}
    BY <2>2 DEF UpTo, InChapter, PagesOf
  <2>4. Numbers(new, c) = {rank[a] : a \in A}
    BY <1>3, <1>4, <2>2 DEF Numbers
  <2> HIDE DEF A, k
  <2>5. ASSUME NEW a \in A PROVE rank[a] \in 1 .. k
    <3>1. a \in UpTo(a) /\ UpTo(a) \in SUBSET A
      BY <2>2, <2>3
    <3>2. Cardinality(UpTo(a)) # 0
      BY <1>2, <2>2, <3>1, FS_EmptySet
    <3>3. Cardinality(UpTo(a)) <= k
      BY <2>1, <3>1, FS_Subset DEF k
    <3> QED BY <1>2, <2>1, <2>2, <3>2, <3>3
  <2>6. ASSUME NEW a \in A, NEW b \in A, rank[a] = rank[b] PROVE a = b
    <3>1. CASE pg[a].no <= pg[b].no
      <4>1. UpTo(a) \in SUBSET UpTo(b)
        BY <2>2, <2>3, <3>1
      <4>2. UpTo(a) = UpTo(b)
        BY <1>2, <2>2, <2>6, <4>1, FS_Subset
      <4>3. pg[b].no <= pg[a].no
        BY <2>2, <2>3, <4>2
      <4> QED BY <2>2, <3>1, <4>3 DEF A
    <3>2. CASE pg[b].no <= pg[a].no
      <4>1. UpTo(b) \in SUBSET UpTo(a)
        BY <2>2, <2>3, <3>2
      <4>2. UpTo(a) = UpTo(b)
        BY <1>2, <2>2, <2>6, <4>1, FS_Subset
      <4>3. pg[a].no <= pg[b].no
        BY <2>2, <2>3, <4>2
      <4> QED BY <2>2, <3>2, <4>3 DEF A
    <3> QED BY <2>2, <3>1, <3>2
  <2>7. rank \in Injection(A, 1 .. k)
    BY <2>5, <2>6 DEF Injection, IsInjective
  <2>8. IsFiniteSet(1 .. k) /\ Cardinality(1 .. k) = k
    BY <2>1, FS_Interval
  <2>9. rank \in Surjection(A, 1 .. k)
    <3> HIDE DEF rank
    <3> QED BY <2>7, <2>8, FS_Injection DEF k
  <2>10. {rank[a] : a \in A} = 1 .. k
    <3> HIDE DEF rank
    <3> QED BY <2>9 DEF Surjection
  <2> QED BY <1>4, <2>4, <2>10 DEF k, A
<1> QED BY <1>3, <1>4, <1>5 DEF Numbered, PagesOf, new

\* replace_structure writes the chapters of the request and nothing else.
LEMMA PlacedNumbers ==
  ASSUME NEW chapters \in ChapterLists, NEW flags \in Pages
  PROVE  LET new == PlaceChapters(chapters, flags)
         IN  /\ Numbered(new)
             /\ PagesOf(new) = ChapterPages(chapters)
             /\ \A a \in PagesOf(new) : new[a].chapter <= Len(chapters)
<1> DEFINE new == PlaceChapters(chapters, flags)
<1>1. PICK n \in 1 .. MaxChapters : chapters \in [1 .. n -> PageLists]
  BY DEF ChapterLists, ChapterListsUpTo
<1>2. /\ n \in Nat /\ DOMAIN chapters = 1 .. n /\ Len(chapters) = n
      /\ \A c, d \in 1 .. n : c # d => Range(chapters[c]) \cap Range(chapters[d]) = {}
      /\ ChapterPages(chapters) \in SUBSET Assets
  BY <1>1, BoundsAssumption, ChapterListType DEF ChapterLists, ChapterListsUpTo
<1>3. ASSUME NEW c \in 1 .. n
      PROVE  /\ Len(chapters[c]) \in Nat /\ Range(chapters[c]) \in SUBSET Assets
             /\ IsFiniteSet(Range(chapters[c])) /\ Cardinality(Range(chapters[c])) = Len(chapters[c])
             /\ \A a \in Range(chapters[c]) : Position(chapters[c], a) \in 1 .. Len(chapters[c])
             /\ \A i \in 1 .. Len(chapters[c]) :
                  chapters[c][i] \in Range(chapters[c]) /\ Position(chapters[c], chapters[c][i]) = i
  <2>1. chapters[c] \in PageLists
    BY <1>1
  <2> QED BY <2>1, ListPositions, ListType
<1>4. ASSUME NEW c \in 1 .. n, NEW a \in Range(chapters[c])
      PROVE  new[a].chapter = c /\ new[a].no = Position(chapters[c], a)
  <2>1. a \in Assets /\ a \in ChapterPages(chapters)
    BY <1>2, <1>3 DEF ChapterPages
  <2>2. (CHOOSE d \in DOMAIN chapters : a \in Range(chapters[d])) = c
    BY <1>2
  <2>3. new[a] = InsertPages(NoPages, c, 1, chapters[c], flags)[a]
    BY <2>1, <2>2 DEF PlaceChapters
  <2>4. InsertPages(NoPages, c, 1, chapters[c], flags)[a]
          = [chapter |-> c, no |-> 1 + Position(chapters[c], a) - 1, show |-> flags[a].show]
    BY <2>1 DEF InsertPages
  <2>5. Position(chapters[c], a) \in Nat
    <3>1. Len(chapters[c]) \in Nat /\ Position(chapters[c], a) \in 1 .. Len(chapters[c])
      BY <1>3
    <3> QED BY <3>1
  <2> HIDE DEF new
  <2> QED BY <2>3, <2>4, <2>5
<1>5. \A a \in Assets \ ChapterPages(chapters) : new[a].chapter = 0
  BY DEF PlaceChapters, NoPage
<1>6. \A a \in ChapterPages(chapters) : \E c \in 1 .. n : a \in Range(chapters[c])
  BY <1>2 DEF ChapterPages
<1> HIDE DEF new
<1>7. PagesOf(new) = ChapterPages(chapters)
  <2>1. \A a \in ChapterPages(chapters) : new[a].chapter # 0
    BY <1>2, <1>4, <1>6
  <2> QED BY <1>2, <1>5, <2>1 DEF PagesOf
<1>8. \A a \in PagesOf(new) : new[a].chapter <= n
  BY <1>2, <1>4, <1>6, <1>7
<1>9. ASSUME NEW c \in 1 .. MaxChapters
      PROVE  Numbers(new, c) = 1 .. Cardinality(InChapter(new, c))
  <2>1. CASE c \in 1 .. n
    <3> DEFINE list == chapters[c]
    <3>1. \A a \in Range(list) : a \in PagesOf(new)
      BY <1>2, <1>7, <2>1 DEF ChapterPages
    <3>2. InChapter(new, c) = Range(list)
      BY <1>4, <1>6, <1>7, <2>1, <3>1 DEF InChapter
    <3>3. Numbers(new, c) = {Position(list, a) : a \in Range(list)}
      BY <1>4, <2>1, <3>2 DEF Numbers
    <3>4. {Position(list, a) : a \in Range(list)} = 1 .. Len(list)
      <4>1. /\ \A a \in Range(list) : Position(list, a) \in 1 .. Len(list)
            /\ \A i \in 1 .. Len(list) : list[i] \in Range(list) /\ Position(list, list[i]) = i
        BY <1>3, <2>1
      <4> HIDE DEF list
      <4> QED BY <4>1
    <3>5. Cardinality(InChapter(new, c)) = Len(list)
      BY <1>3, <2>1, <3>2
    <3> HIDE DEF list
    <3> QED BY <3>3, <3>4, <3>5
  <2>2. CASE c \notin 1 .. n
    <3>1. InChapter(new, c) = {}
      BY <1>4, <1>6, <1>7, <2>2 DEF InChapter
    <3>2. Numbers(new, c) = {} /\ Cardinality(InChapter(new, c)) = 0
      BY <3>1, FS_EmptySet DEF Numbers
    <3> QED BY <3>2
  <2> QED BY <2>1, <2>2
<1> QED BY <1>2, <1>7, <1>8, <1>9 DEF Numbered, new

-----------------------------------------------------------------------------
(* Stacks.                                                                 *)

\* One stack of StacksAreWellFormed.
WellFormed(pg, st) ==
  /\ Numbered(pg)
  /\ \A a \in PagesOf(pg) : pg[a].chapter <= st.chapters
  /\ IF PagesOf(pg) = {} THEN st.cover = NoAsset ELSE st.cover \in PagesOf(pg)

LEMMA EachIsWellFormed == StacksAreWellFormed <=> \A s \in Stacks : WellFormed(page[s], stack[s])
  BY DEF StacksAreWellFormed, WellFormed, Numbered, Numbers, InChapter

LEMMA ListStart ==
  ASSUME NEW list \in PageLists
  PROVE  IF list = <<>> THEN Range(list) = {} ELSE list[1] \in Range(list)
<1>1. PICK n \in 0 .. MaxPages : list \in [1 .. n -> Assets]
  BY DEF PageLists
<1>2. CASE list = <<>>
  BY <1>2 DEF Range
<1>3. CASE list # <<>>
  <2>1. n # 0
    BY <1>1, <1>3
  <2>2. 1 \in DOMAIN list
    BY <1>1, <2>1, BoundsAssumption
  <2> QED BY <1>3, <2>2 DEF Range
<1> QED BY <1>2, <1>3

\* A stack without chapters has no page: the row of the stack and those of
\* its chapters come and go together.
LEMMA NoChaptersNoPages ==
  ASSUME TypeOK, NEW s \in Stacks, WellFormed(page[s], stack[s]), stack[s].chapters = 0
  PROVE  PagesOf(page[s]) = {}
<1>1. \A a \in PagesOf(page[s]) : page[s][a].chapter # 0 /\ page[s][a].chapter \in Nat
  BY DEF TypeOK, PagesOf, Pages, Page
<1>2. \A a \in PagesOf(page[s]) : page[s][a].chapter <= 0
  BY DEF WellFormed
<1> QED BY <1>1, <1>2

LEMMA StackStays ==
  ASSUME TypeOK, NEW s \in Stacks, StackStep(s)
  PROVE  \A t \in Stacks : t # s => page'[t] = page[t] /\ stack'[t] = stack[t]
  BY DEF TypeOK, StackStep, CreateStack, AddPages, ReplaceStructure, RemovePage, SetCover,
         SetPageFlag, DeleteStack, SetPages

LEMMA StackStepWellFormed ==
  ASSUME TypeOK, NEW s \in Stacks, WellFormed(page[s], stack[s]), StackStep(s)
  PROVE  WellFormed(page'[s], stack'[s])
<1>0. /\ page[s] \in Pages /\ stack[s] \in Stack /\ page \in [Stacks -> Pages]
      /\ stack \in [Stacks -> Stack]
  BY DEF TypeOK
<1>1. ASSUME NEW list \in PageLists, CreateStack(s, list) PROVE WellFormed(page'[s], stack'[s])
  <2> DEFINE new == InsertPages(NoPages, 1, Cardinality(InChapter(NoPages, 1)) + 1, list, NoPages)
  <2>1. Cardinality(InChapter(NoPages, 1)) + 1 = 1
    <3>1. Cardinality(InChapter(NoPages, 1)) = 0
      BY NoPagesNumbered, FS_EmptySet
    <3> QED BY <3>1
  <2>2. page'[s] = new
    BY <1>0, <1>1, <2>1 DEF CreateStack, SetPages
  <2>3. /\ Numbered(new)
        /\ PagesOf(new) = PagesOf(NoPages) \cup Range(list)
        /\ \A a \in Assets : new[a].chapter = IF a \in Range(list) THEN 1 ELSE NoPages[a].chapter
    <3>1. 1 \in 1 .. MaxChapters /\ Range(list) \cap PagesOf(NoPages) = {}
      BY NoPagesNumbered, BoundsAssumption
    <3> HIDE DEF new
    <3> QED BY <3>1, NoPagesNumbered, NoPagesType, InsertedNumbers DEF new
  <2>4. stack'[s] = [chapters |-> 1, cover |-> IF list = <<>> THEN NoAsset ELSE list[1]]
    BY <1>0, <1>1 DEF CreateStack
  <2> HIDE DEF new
  <2>5. PagesOf(new) = Range(list) /\ Range(list) \in SUBSET Assets
    BY <2>3, NoPagesNumbered, ListType
  <2> QED BY <2>2, <2>3, <2>4, <2>5, ListStart DEF WellFormed
<1>2. ASSUME NEW list \in PageLists, NEW chapter \in 1 .. MaxChapters, AddPages(s, list, chapter)
      PROVE  WellFormed(page'[s], stack'[s])
  <2> DEFINE old == page[s]
             new == InsertPages(old, chapter, Cardinality(InChapter(old, chapter)) + 1, list, NoPages)
  <2>1. Numbered(old)
    BY DEF WellFormed
  <2>2. page'[s] = new
    BY <1>0, <1>2, <2>1, NextPageNoIs DEF AddPages, SetPages
  <2>3. /\ Numbered(new)
        /\ PagesOf(new) = PagesOf(old) \cup Range(list)
        /\ \A a \in Assets : new[a].chapter = IF a \in Range(list) THEN chapter ELSE old[a].chapter
    <3>1. old \in Pages /\ Range(list) \cap PagesOf(old) = {}
      BY <1>0, <1>2 DEF AddPages
    <3> HIDE DEF new, old
    <3> QED BY <2>1, <3>1, NoPagesType, InsertedNumbers DEF new
  <2>4. /\ chapter <= stack[s].chapters /\ list # <<>>
        /\ stack'[s] = [stack[s] EXCEPT !.cover = IF stack[s].cover = NoAsset THEN list[1]
                                                  ELSE stack[s].cover]
    BY <1>0, <1>2 DEF AddPages, Stack
  <2>5. /\ stack'[s].chapters = stack[s].chapters
        /\ stack'[s].cover = IF stack[s].cover = NoAsset THEN list[1] ELSE stack[s].cover
    BY <1>0, <2>4 DEF Stack
  <2>6. /\ \A a \in PagesOf(old) : a \in Assets /\ old[a].chapter <= stack[s].chapters
        /\ stack[s].cover # NoAsset => stack[s].cover \in PagesOf(old)
        /\ Range(list) \in SUBSET Assets /\ list[1] \in Range(list)
    BY <2>4, ListType, ListStart DEF WellFormed, PagesOf
  <2> HIDE DEF new, old
  <2>7. \A a \in PagesOf(new) : new[a].chapter <= stack[s].chapters
    BY <2>3, <2>4, <2>6
  <2> QED BY <2>2, <2>3, <2>5, <2>6, <2>7 DEF WellFormed
<1>3. ASSUME NEW chapters \in ChapterLists, ReplaceStructure(s, chapters)
      PROVE  WellFormed(page'[s], stack'[s])
  <2> DEFINE new == PlaceChapters(chapters, page[s])
  <2>1. page'[s] = new
    BY <1>0, <1>3 DEF ReplaceStructure, SetPages
  <2>2. /\ Numbered(new)
        /\ PagesOf(new) = ChapterPages(chapters)
        /\ \A a \in PagesOf(new) : new[a].chapter <= Len(chapters)
    BY <1>0, PlacedNumbers
  <2>3. stack'[s] = [chapters |-> Len(chapters),
                     cover |-> IF stack[s].cover \in ChapterPages(chapters) THEN stack[s].cover
                               ELSE FirstPage(page'[s])]
    BY <1>0, <1>3 DEF ReplaceStructure
  <2>4. new \in Pages
    BY <1>0, PlaceChaptersType
  <2> HIDE DEF new
  <2>5. /\ PagesOf(new) = {} => FirstPage(new) = NoAsset
        /\ PagesOf(new) # {} => FirstPage(new) \in PagesOf(new)
    BY <2>4, FirstPageType
  <2> QED BY <2>1, <2>2, <2>3, <2>5 DEF WellFormed
<1>4. ASSUME NEW a \in Assets, RemovePage(s, a) PROVE WellFormed(page'[s], stack'[s])
  <2> DEFINE less == [page[s] EXCEPT ![a] = NoPage]
             new == RenumberPages(less)
  <2>1. /\ less \in Pages /\ a \in PagesOf(page[s]) /\ PagesOf(less) = PagesOf(page[s]) \ {a}
        /\ \A b \in PagesOf(less) : less[b] = page[s][b]
    <3>1. less \in Pages
      BY <1>0, NoPagesType DEF NoPages, Pages
    <3> QED BY <1>0, <1>4, <3>1 DEF RemovePage, PagesOf, Pages, NoPage
  <2>2. page'[s] = new
    BY <1>0, <1>4 DEF RemovePage, SetPages
  <2> HIDE DEF less
  <2>3. \A c \in 1 .. MaxChapters : \A b, d \in InChapter(less, c) : less[b].no = less[d].no => b = d
    <3>1. \A c \in 1 .. MaxChapters : \A b \in InChapter(less, c) : b \in InChapter(page[s], c)
      BY <2>1 DEF InChapter
    <3>2. \A c \in 1 .. MaxChapters : \A b \in InChapter(less, c) : less[b].no = page[s][b].no
      BY <2>1 DEF InChapter
    <3>3. Numbered(page[s])
      BY DEF WellFormed
    <3> QED BY <1>0, <3>1, <3>2, <3>3, NumbersAreDistinct
  <2>4. /\ Numbered(new)
        /\ PagesOf(new) = PagesOf(less)
        /\ \A b \in PagesOf(less) : new[b].chapter = less[b].chapter
    BY <2>1, <2>3, RenumberedNumbers
  <2>5. new \in Pages
    BY <2>1, RenumberPagesType
  <2> HIDE DEF new
  <2>6. /\ PagesOf(new) = {} => FirstPage(new) = NoAsset
        /\ PagesOf(new) # {} => FirstPage(new) \in PagesOf(new)
    BY <2>5, FirstPageType
  <2>7. /\ stack'[s].chapters = stack[s].chapters
        /\ stack'[s].cover = IF stack[s].cover = a THEN FirstPage(new) ELSE stack[s].cover
    BY <1>0, <1>4, <2>2 DEF RemovePage, Stack
  <2>8. /\ \A b \in PagesOf(page[s]) : page[s][b].chapter <= stack[s].chapters
        /\ stack[s].cover \in PagesOf(page[s])
    BY <2>1 DEF WellFormed
  <2>9. \A b \in PagesOf(new) : new[b].chapter <= stack[s].chapters
    BY <2>1, <2>4, <2>8
  <2> QED BY <2>1, <2>2, <2>4, <2>6, <2>7, <2>8, <2>9 DEF WellFormed
<1>5. ASSUME NEW a \in Assets, SetCover(s, a) PROVE WellFormed(page'[s], stack'[s])
  BY <1>0, <1>5 DEF SetCover, WellFormed, Stack
<1>6. ASSUME NEW a \in Assets, NEW show \in BOOLEAN, SetPageFlag(s, a, show)
      PROVE  WellFormed(page'[s], stack'[s])
  <2>1. page'[s] = [page[s] EXCEPT ![a].show = show] /\ stack'[s] = stack[s]
    BY <1>0, <1>6 DEF SetPageFlag, SetPages
  <2>2. \A b \in Assets : page'[s][b].chapter = page[s][b].chapter /\ page'[s][b].no = page[s][b].no
    BY <1>0, <2>1 DEF Pages, Page
  <2> DEFINE old == page[s]
             new == page'[s]
  <2>3. \A b \in Assets : new[b].chapter = old[b].chapter /\ new[b].no = old[b].no
    BY <2>2
  <2>4. WellFormed(old, stack[s])
    OBVIOUS
  <2> HIDE DEF old, new
  <2>5. PagesOf(new) = PagesOf(old)
    BY <2>3 DEF PagesOf
  <2>6. \A b \in PagesOf(old) : b \in Assets
    BY DEF PagesOf
  <2>7. \A c : InChapter(new, c) = InChapter(old, c)
    BY <2>3, <2>5, <2>6 DEF InChapter
  <2>8. \A c : Numbers(new, c) = Numbers(old, c)
    <3> TAKE c
    <3>1. \A b \in InChapter(old, c) : b \in Assets
      BY <2>6 DEF InChapter
    <3> QED BY <2>3, <2>7, <3>1 DEF Numbers
  <2>9. WellFormed(new, stack[s])
    BY <2>3, <2>4, <2>5, <2>6, <2>7, <2>8 DEF WellFormed, Numbered
  <2> QED BY <2>1, <2>9 DEF new
<1>7. ASSUME DeleteStack(s) PROVE WellFormed(page'[s], stack'[s])
  <2>1. page'[s] = NoPages /\ stack'[s] = NoStack
    BY <1>0, <1>7 DEF DeleteStack, SetPages
  <2> QED BY <2>1, NoPagesNumbered DEF WellFormed, NoStack
<1> QED BY <1>1, <1>2, <1>3, <1>4, <1>5, <1>6, <1>7 DEF StackStep

LEMMA InitWellFormed == Init => StacksAreWellFormed
<1> SUFFICES ASSUME Init, NEW s \in Stacks PROVE WellFormed(page[s], stack[s])
  BY EachIsWellFormed
<1>1. CASE page[s] = NoPages /\ stack[s] = NoStack
  BY <1>1, NoPagesNumbered DEF WellFormed, NoStack
<1>2. ASSUME NEW p \in Assets, NEW wasTrashed \in BOOLEAN, LegacyPage(p, s, wasTrashed)
      PROVE  WellFormed(page[s], stack[s])
  <2> DEFINE new == InsertPages(NoPages, 1, 1, <<p>>, NoPages)
  <2>1. page[s] = new /\ stack[s] = [chapters |-> 1, cover |-> p]
    BY <1>2 DEF LegacyPage
  <2>2. Range(<<p>>) = {p} /\ Position(<<p>>, p) = 1
    BY DEF Range, Position
  <2>3. \A a \in Assets : /\ new[a].chapter = IF a = p THEN 1 ELSE 0
                          /\ a = p => new[a].no = 1
    BY <2>2 DEF InsertPages, NoPages, NoPage
  <2> HIDE DEF new
  <2>4. PagesOf(new) = {p}
    BY <2>3 DEF PagesOf
  <2>5. \A c \in 1 .. MaxChapters : InChapter(new, c) = IF c = 1 THEN {p} ELSE {}
    BY <2>3, <2>4 DEF InChapter
  <2>6. \A c \in 1 .. MaxChapters : Numbers(new, c) = IF c = 1 THEN {1} ELSE {}
    BY <2>3, <2>5 DEF Numbers
  <2>7. Cardinality({p}) = 1 /\ Cardinality({}) = 0 /\ 1 .. 1 = {1} /\ 1 .. 0 = {}
    <3>1. Cardinality({p}) = 1 /\ Cardinality({}) = 0
      BY FS_Singleton, FS_EmptySet, Zenon
    <3>2. 1 .. 1 = {1} /\ 1 .. 0 = {}
      OBVIOUS
    <3> QED BY <3>1, <3>2
  <2>8. Numbered(new)
    BY <2>5, <2>6, <2>7 DEF Numbered
  <2> QED BY <2>1, <2>3, <2>4, <2>8 DEF WellFormed
<1>3. CASE EmptyTables \/ \E p \in Assets : \E D \in SUBSET (Assets \ {p}) : LegacyDuplicates(p, D)
  <2>1. page[s] = NoPages /\ stack[s] = NoStack
    BY <1>3 DEF EmptyTables, LegacyDuplicates
  <2> QED BY <1>1, <2>1
<1>4. ASSUME NEW p \in Assets, NEW t \in Stacks, NEW wasTrashed \in BOOLEAN,
             LegacyPage(p, t, wasTrashed)
      PROVE  WellFormed(page[s], stack[s])
  <2>1. t # s => page[s] = NoPages /\ stack[s] = NoStack
    BY <1>4 DEF LegacyPage
  <2> QED BY <1>1, <1>2, <1>4, <2>1
<1> QED BY <1>3, <1>4 DEF Init

\* Only a stack edit touches stacks and pages.
LEMMA PagesStay ==
  ASSUME [Next]_vars, \A s \in Stacks : ~StackStep(s)
  PROVE  UNCHANGED <<stack, page>>
  BY DEF Next, Work, Fault, UploadStep, WriteUpload, CommitUpload, FailUpload, AssetStep, Trash,
         RestoreDuplicate, RestorePrimary, Expire, ThumbnailStep, ReadSource, StoreDerived,
         PurgeStep, PurgeNow, CheckTombstone, Erase, EraseLost, EraseFails, EndPurge, RunDue,
         MarkDue, MarkAndList, Crash, Tables, vars

LEMMA WellFormedStep ==
  ASSUME TypeOK, StacksAreWellFormed, [Next]_vars
  PROVE  StacksAreWellFormed'
<1>1. \A s \in Stacks : WellFormed(page[s], stack[s])
  BY EachIsWellFormed
<1>2. \A s \in Stacks : WellFormed(page'[s], stack'[s])
  <2>1. CASE \A s \in Stacks : ~StackStep(s)
    BY <1>1, <2>1, PagesStay
  <2>2. ASSUME NEW s \in Stacks, StackStep(s)
        PROVE  \A t \in Stacks : WellFormed(page'[t], stack'[t])
    BY <1>1, <2>2, StackStays, StackStepWellFormed
  <2> QED BY <2>1, <2>2
<1> QED BY <1>2, EachIsWellFormed DEF StacksAreWellFormed, WellFormed, Numbered, Numbers, InChapter

\* UNIQUE (chapter_id, page_no) never refuses what stacks.rs writes, a page
\* is in a chapter the stack has, and the cover is a page of the stack
\* whenever it has one, for stacks, chapters and edits of any size.
THEOREM StacksStayWellFormed == Spec => []StacksAreWellFormed
<1>1. TypeOK /\ StacksAreWellFormed /\ [Next]_vars => StacksAreWellFormed'
  BY WellFormedStep
<1> QED BY <1>1, InitWellFormed, TypeCorrect, PTL DEF Spec

-----------------------------------------------------------------------------
(* Visibility.                                                             *)

\* Asset a is shown by the pages as it was before the step.
SameShow(a) ==
  \A t \in Stacks : /\ page'[t][a].chapter # 0 <=> page[t][a].chapter # 0
                    /\ page[t][a].chapter # 0 => page'[t][a].show = page[t][a].show

\* Every stack edit recomputes the visibility of the assets it promotes and
\* of those whose pages it adds, removes or flags.
LEMMA AffectedAreAll ==
  ASSUME TypeOK, NEW s \in Stacks, WellFormed(page[s], stack[s]), StackStep(s)
  PROVE  \/ UNCHANGED <<row, page>>
         \/ \E promoted, affected \in SUBSET Assets :
              /\ promoted \subseteq affected
              /\ UpdateRows(promoted, affected)
              /\ \A a \in Assets \ affected : SameShow(a)
<1> DEFINE Recomputed(promoted, affected) ==
      /\ promoted \in SUBSET Assets /\ affected \in SUBSET Assets
      /\ promoted \subseteq affected
      /\ UpdateRows(promoted, affected)
      /\ \A a \in Assets \ affected : SameShow(a)
<1>0. /\ page[s] \in Pages /\ page \in [Stacks -> Pages]
      /\ \A a \in Assets : NoPages[a].chapter = 0
      /\ PagesOf(page[s]) = {a \in Assets : page[s][a].chapter # 0}
  BY DEF TypeOK, NoPages, NoPage, PagesOf
<1>1. SUFFICES UNCHANGED <<row, page>> \/ \E P, A : Recomputed(P, A)
  OBVIOUS
<1>2. ASSUME NEW A \in SUBSET Assets,
             \A a \in Assets \ A : /\ page'[s][a].chapter # 0 <=> page[s][a].chapter # 0
                                   /\ page[s][a].chapter # 0 => page'[s][a].show = page[s][a].show
      PROVE  \A a \in Assets \ A : SameShow(a)
  BY <1>2, StackStays DEF SameShow
<1>3. ASSUME NEW list \in PageLists, CreateStack(s, list)
      PROVE  Recomputed(Range(list), Range(list))
  <2>1. Range(list) \in SUBSET Assets
    BY ListType
  <2>2. PagesOf(page[s]) = {}
    BY <1>3, NoChaptersNoPages DEF CreateStack, StackExists
  <2>3. \A a \in Assets \ Range(list) : page'[s][a].chapter = 0
    BY <1>0, <1>3 DEF CreateStack, SetPages, InsertPages
  <2>4. \A a \in Assets \ Range(list) : SameShow(a)
    BY <1>0, <1>2, <2>1, <2>2, <2>3
  <2> QED BY <1>3, <2>1, <2>4 DEF CreateStack
<1>4. ASSUME NEW list \in PageLists, NEW chapter \in 1 .. MaxChapters, AddPages(s, list, chapter)
      PROVE  Recomputed(Range(list), Range(list))
  <2>1. Range(list) \in SUBSET Assets
    BY ListType
  <2>2. \A a \in Assets \ Range(list) : page'[s][a] = page[s][a]
    BY <1>0, <1>4 DEF AddPages, SetPages, InsertPages
  <2>3. \A a \in Assets \ Range(list) : SameShow(a)
    BY <1>2, <2>1, <2>2
  <2> QED BY <1>4, <2>1, <2>3 DEF AddPages
<1>5. ASSUME NEW chapters \in ChapterLists, ReplaceStructure(s, chapters)
      PROVE  Recomputed(ChapterPages(chapters), PagesOf(page[s]) \cup ChapterPages(chapters))
  <2> DEFINE A == PagesOf(page[s]) \cup ChapterPages(chapters)
  <2>1. ChapterPages(chapters) \in SUBSET Assets /\ A \in SUBSET Assets
    BY ChapterListType DEF PagesOf
  <2>2. \A a \in Assets \ A : page'[s][a].chapter = 0 /\ page[s][a].chapter = 0
    BY <1>0, <1>5 DEF ReplaceStructure, SetPages, PlaceChapters, NoPage
  <2>3. \A a \in Assets \ A : SameShow(a)
    <3> HIDE DEF A
    <3> QED BY <1>2, <2>1, <2>2
  <2> QED BY <1>5, <2>1, <2>3 DEF ReplaceStructure
<1>6. ASSUME NEW a \in Assets, RemovePage(s, a) PROVE Recomputed({}, {a})
  <2> DEFINE less == [page[s] EXCEPT ![a] = NoPage]
  <2>1. less \in Pages /\ \A b \in Assets \ {a} : less[b] = page[s][b]
    BY <1>0, NoPagesType DEF NoPages, Pages
  <2>2. page'[s] = RenumberPages(less)
    BY <1>0, <1>6 DEF RemovePage, SetPages
  <2> HIDE DEF less
  <2>3. \A b \in Assets \ {a} : /\ page'[s][b].chapter = less[b].chapter
                                /\ less[b].chapter # 0 => page'[s][b].show = less[b].show
    <3>1. \A b \in Assets : /\ RenumberPages(less)[b].chapter = less[b].chapter
                            /\ less[b].chapter # 0 => RenumberPages(less)[b].show = less[b].show
      BY <2>1, RenumberedShows
    <3> QED BY <2>2, <3>1
  <2>4. \A b \in Assets \ {a} : SameShow(b)
    BY <1>2, <2>1, <2>3
  <2>5. UpdateRows({}, {a})
    BY <1>6 DEF RemovePage
  <2> QED BY <2>4, <2>5
<1>7. ASSUME NEW a \in Assets, SetCover(s, a) PROVE UNCHANGED <<row, page>>
  BY <1>7 DEF SetCover
<1>8. ASSUME NEW a \in Assets, NEW show \in BOOLEAN, SetPageFlag(s, a, show)
      PROVE  Recomputed({}, {a})
  <2>1. \A b \in Assets \ {a} : page'[s][b] = page[s][b]
    BY <1>0, <1>8 DEF SetPageFlag, SetPages, Pages
  <2>2. \A b \in Assets \ {a} : SameShow(b)
    BY <1>2, <2>1
  <2>3. UpdateRows({}, {a})
    BY <1>8 DEF SetPageFlag
  <2> QED BY <2>2, <2>3
<1>9. ASSUME DeleteStack(s) PROVE Recomputed({}, PagesOf(page[s]))
  <2>1. PagesOf(page[s]) \in SUBSET Assets
    BY DEF PagesOf
  <2>2. \A a \in Assets \ PagesOf(page[s]) : page'[s][a].chapter = 0 /\ page[s][a].chapter = 0
    BY <1>0, <1>9 DEF DeleteStack, SetPages
  <2>3. \A a \in Assets \ PagesOf(page[s]) : SameShow(a)
    BY <1>2, <2>1, <2>2
  <2> QED BY <1>9, <2>1, <2>3 DEF DeleteStack
<1> HIDE DEF Recomputed
<1> QED BY <1>3, <1>4, <1>5, <1>6, <1>7, <1>8, <1>9 DEF StackStep

LEMMA StackVisible ==
  ASSUME TypeOK, VisibleIsExact, NEW s \in Stacks, WellFormed(page[s], stack[s]), StackStep(s)
  PROVE  VisibleIsExact'
<1>1. CASE UNCHANGED <<row, page>>
  BY <1>1 DEF VisibleIsExact, Shown
<1>2. ASSUME NEW promoted \in SUBSET Assets, NEW affected \in SUBSET Assets,
             promoted \subseteq affected, UpdateRows(promoted, affected),
             \A a \in Assets \ affected : SameShow(a)
      PROVE  VisibleIsExact'
  <2>1. \A a \in Assets :
          /\ row'[a].lifecycle = IF a \in promoted /\ row[a].lifecycle = "duplicate"
                                 THEN "active" ELSE row[a].lifecycle
          /\ row'[a].visible = IF a \in affected THEN Shown(row'[a].lifecycle, page', a)
                               ELSE row[a].visible
    BY <1>2, RowUpdateType, RowUpdateMarks
  <2>2. \A a \in Assets \ affected : Shown(row[a].lifecycle, page, a)
                                       <=> Shown(row'[a].lifecycle, page', a)
    BY <1>2, <2>1 DEF Shown, SameShow
  <2>3. \A a \in Assets : row'[a].visible <=> Shown(row'[a].lifecycle, page', a)
    BY <2>1, <2>2 DEF VisibleIsExact
  <2> QED BY <2>3 DEF VisibleIsExact
<1> QED BY <1>1, <1>2, AffectedAreAll

\* A step that leaves the pages and what Shown reads of the rows alone, or
\* hides what it takes out of the timeline.
LEMMA SameVisible ==
  ASSUME VisibleIsExact, UNCHANGED page,
         \A a \in Assets :
           \/ row'[a].visible = row[a].visible /\ row'[a].lifecycle = row[a].lifecycle
           \/ row'[a].visible = FALSE /\ row'[a].lifecycle # "active"
           \/ row'[a].visible = Shown(row'[a].lifecycle, page, a)
  PROVE  VisibleIsExact'
<1>1. \A a \in Assets : row'[a].visible <=> Shown(row'[a].lifecycle, page, a)
  BY DEF VisibleIsExact, Shown
<1> QED BY <1>1 DEF VisibleIsExact, Shown

LEMMA OtherVisible ==
  ASSUME Inv, NeededIsStored, VisibleIsExact, [Next]_vars, \A s \in Stacks : ~StackStep(s)
  PROVE  VisibleIsExact'
<1>0. row \in [Assets -> Row] /\ UNCHANGED page
  BY PagesStay DEF Inv, TypeOK
<1> DEFINE Exact(a) ==
      \/ row'[a].visible = row[a].visible /\ row'[a].lifecycle = row[a].lifecycle
      \/ row'[a].visible = FALSE /\ row'[a].lifecycle # "active"
      \/ row'[a].visible = Shown(row'[a].lifecycle, page, a)
<1>1. SUFFICES \A a \in Assets : Exact(a)
  BY <1>0, SameVisible
<1>2. CASE UNCHANGED row
  BY <1>2
<1>3. ASSUME NEW b \in Assets, CommitUpload(b) PROVE \A a \in Assets : Exact(a)
  <2>1. ~OnPage(b)
    BY <1>3 DEF Inv, UploadsOwnTheirFile, CommitUpload, NeededIsStored, Referenced
  <2>2. Shown("active", page, b) = TRUE
    BY <2>1 DEF Shown, OnPage
  <2>3. /\ \A a \in Assets \ {b} : row'[a] = row[a]
        /\ \/ row'[b].visible = TRUE /\ row'[b].lifecycle = "active"
           \/ row'[b].visible = FALSE /\ row'[b].lifecycle = "duplicate"
    BY <1>0, <1>3 DEF CommitUpload, NoRow
  <2> QED BY <2>2, <2>3
<1>4. ASSUME NEW b \in Assets, Trash(b) \/ RestoreDuplicate(b) \/ Expire(b)
      PROVE  \A a \in Assets : Exact(a)
  <2>1. CASE Trash(b)
    <3>1. /\ \A a \in Assets \ {b} : row'[a] = row[a]
          /\ row'[b].visible = FALSE /\ row'[b].lifecycle = "trashed"
      BY <1>0, <2>1 DEF Trash
    <3> QED BY <3>1
  <2>2. CASE RestoreDuplicate(b)
    <3>1. /\ \A a \in Assets \ {b} : row'[a] = row[a]
          /\ row'[b].visible = FALSE /\ row'[b].lifecycle = "duplicate"
      BY <1>0, <2>2 DEF RestoreDuplicate
    <3> QED BY <3>1
  <2>3. CASE Expire(b)
    <3>1. \A a \in Assets : row'[a].visible = row[a].visible /\ row'[a].lifecycle = row[a].lifecycle
      BY <1>0, <2>3 DEF Expire, Row
    <3> QED BY <3>1
  <2> QED BY <1>4, <2>1, <2>2, <2>3
<1>5. ASSUME NEW b \in Assets, RestorePrimary(b) PROVE \A a \in Assets : Exact(a)
  BY <1>5, Restored DEF Inv
<1>6. ASSUME NEW w \in Purgers, NEW b \in Assets, PurgeNow(w, b) PROVE \A a \in Assets : Exact(a)
  BY <1>0, <1>6 DEF PurgeNow, Row
<1>7. CASE MarkDue
  BY <1>0, <1>7 DEF MarkDue, MarkAndList, Row
<1>8. ASSUME NEW w \in Purgers, NEW b \in Assets, CheckTombstone(w, b)
      PROVE  \A a \in Assets : Exact(a)
  <2>1. CASE UNCHANGED row
    BY <2>1
  <2>2. CASE row[b].lifecycle = "purging" /\ Referenced(b)
    <3> DEFINE visible == ~row[b].trashed /\ OnPage(b) /\ Shown("active", page, b)
    <3>1. row' = [row EXCEPT ![b] = [@ EXCEPT !.lifecycle = FormerLifecycle(b),
                                              !.visible = visible]]
      BY <1>8, <2>2 DEF CheckTombstone
    <3>2. visible = Shown(FormerLifecycle(b), page, b)
      <4>1. row[b].trashed \in BOOLEAN
        BY <1>0 DEF Row
      <4>2. FormerLifecycle(b) = "active" <=> ~row[b].trashed /\ OnPage(b)
        BY <4>1 DEF FormerLifecycle
      <4> QED BY <4>2 DEF Shown
    <3> HIDE DEF visible
    <3>3. /\ \A a \in Assets \ {b} : row'[a] = row[a]
          /\ row'[b].visible = visible /\ row'[b].lifecycle = FormerLifecycle(b)
      BY <1>0, <3>1 DEF Row
    <3> QED BY <3>2, <3>3
  <2> QED BY <1>8, <2>1, <2>2 DEF CheckTombstone
<1>9. ASSUME NEW w \in Purgers, NEW b \in Assets, Erase(w, b) PROVE \A a \in Assets : Exact(a)
  <2>1. row'[b] = NoRow /\ \A a \in Assets \ {b} : row'[a] = row[a]
    BY <1>0, <1>9 DEF Erase
  <2> QED BY <2>1 DEF NoRow
<1>10. ASSUME NEW w \in Purgers, NEW b \in Assets,
              EraseLost(w, b) \/ EraseFails(w, b) \/ EndPurge(w)
       PROVE  UNCHANGED row
  BY <1>10 DEF EraseLost, EraseFails, EndPurge, Tables
<1>11. ASSUME NEW b \in Assets, ThumbnailStep(b) \/ WriteUpload(b) \/ FailUpload(b)
       PROVE  UNCHANGED row
  BY <1>11 DEF ThumbnailStep, ReadSource, StoreDerived, WriteUpload, FailUpload, Tables
<1>12. CASE RunDue \/ Crash \/ UNCHANGED vars \/ \E w \in Purgers : EndPurge(w)
  BY <1>2, <1>12 DEF RunDue, Crash, EndPurge, Tables, vars
<1> HIDE DEF Exact
<1> QED BY <1>2, <1>3, <1>4, <1>5, <1>6, <1>7, <1>8, <1>9, <1>10, <1>11, <1>12
        DEF Next, Work, Fault, UploadStep, AssetStep, PurgeStep

\* I6: visible_in_timeline is what its definition in docs/02 says in every
\* row: no upload, restore, promotion, stack edit, purge or rescue of a
\* tombstone forgets to recompute it, for libraries of any size.
THEOREM VisibilityStaysExact == Spec => []VisibleIsExact
<1>1. Init => VisibleIsExact
  <2> SUFFICES ASSUME Init PROVE VisibleIsExact
    OBVIOUS
  <2>1. \A a \in Assets : row[a].visible = FALSE /\ row[a].lifecycle # "active"
    <3>1. CASE EmptyTables
      BY <3>1 DEF EmptyTables, NoRow
    <3>2. ASSUME NEW p \in Assets, NEW D \in SUBSET (Assets \ {p}), LegacyDuplicates(p, D)
          PROVE  \A a \in Assets : row[a].visible = FALSE /\ row[a].lifecycle # "active"
      BY <3>2 DEF LegacyDuplicates, NoRow
    <3>3. ASSUME NEW p \in Assets, NEW s \in Stacks, NEW wasTrashed \in BOOLEAN,
                 LegacyPage(p, s, wasTrashed)
          PROVE  \A a \in Assets : row[a].visible = FALSE /\ row[a].lifecycle # "active"
      BY <3>3 DEF LegacyPage, NoRow
    <3> QED BY <3>1, <3>2, <3>3 DEF Init
  <2> QED BY <2>1 DEF VisibleIsExact, Shown
<1>2. /\ Inv /\ NeededIsStored /\ StacksAreWellFormed /\ VisibleIsExact /\ [Next]_vars
      => VisibleIsExact'
  BY EachIsWellFormed, StackVisible, OtherVisible DEF Inv
<1> QED BY <1>1, <1>2, Invariance, NeededStaysStored, StacksStayWellFormed, PTL DEF Spec
=============================================================================
