------------------------ MODULE CatalogCurationProofs ------------------------
(***************************************************************************)
(* Theorems of CatalogCuration for any number of editors, listings,        *)
(* offers, revisions and saves on the way.  The argument: a revision names *)
(* one content.  Whatever an editor or a request carries as the listings   *)
(* of the current revision are the document's, and what carries an older   *)
(* revision cannot replace it.  An editor who stays in the view waits for  *)
(* one answer at a time, and does not edit while waiting.                  *)
(***************************************************************************)
EXTENDS CatalogCuration, FiniteSetTheorems, TLAPS

-----------------------------------------------------------------------------
(* Drafts *)

\* A catalog is a function from some listing ids to listings.
LEMMA CatalogIsFunction ==
    ASSUME NEW L
    PROVE  L \in ListingSet <=> DOMAIN L \subseteq ListingIds /\ L \in [DOMAIN L -> Listing]
BY DEF ListingSet

\* Counting listings gives an order.
LEMMA CountIsOrder ==
    ASSUME NEW ids \in SUBSET ListingIds
    PROVE  Cardinality(ids) \in 0 .. Cardinality(ListingIds)
<1>1. IsFiniteSet(ListingIds)
  BY ListingsAssumption
<1>2. IsFiniteSet(ids) /\ Cardinality(ids) <= Cardinality(ListingIds)
  BY <1>1, FS_Subset
<1>3. Cardinality(ids) \in Nat /\ Cardinality(ListingIds) \in Nat
  BY <1>1, <1>2, FS_CardinalityType
<1> QED
  BY <1>2, <1>3

\* onMoveListing and onDeleteListing number what is left.
LEMMA RenumberedIsCatalog ==
    ASSUME NEW L \in ListingSet
    PROVE  Renumbered(L) \in ListingSet
<1>1. DOMAIN L \subseteq ListingIds /\ L \in [DOMAIN L -> Listing]
  BY CatalogIsFunction
<1>2. ASSUME NEW id \in DOMAIN L
      PROVE  [L[id] EXCEPT !.order = Cardinality({x \in DOMAIN L : L[x].order < L[id].order})] \in Listing
  <2>1. Cardinality({x \in DOMAIN L : L[x].order < L[id].order}) \in 0 .. Cardinality(ListingIds)
    BY <1>1, CountIsOrder
  <2> QED
    BY <1>1, <2>1 DEF Listing
<1>3. Renumbered(L) \in [DOMAIN L -> Listing]
  BY <1>2 DEF Renumbered
<1> QED
  BY <1>1, <1>3, CatalogIsFunction

\* The empty catalog.
LEMMA NothingIsCatalog == NoListings \in ListingSet
BY CatalogIsFunction DEF NoListings

\* What an answer shows is a state of the view.
LEMMA MappedIsState ==
    ASSUME NEW d \in Document, NEW r \in Reads, NEW status \in {"clean", "saved"}
    PROVE  Mapped(d, r, status) \in UiState
BY DEF Mapped, UiState, Document, Reads

-----------------------------------------------------------------------------
(* Type correctness *)

\* Edit, for every operation that edits a draft.
LEMMA EditKeepsTypes ==
    ASSUME CurationTypeOK, NEW e \in Editors, NEW L \in ListingSet, NEW status \in {"dirty", "error"},
           Edit(e, L, status)
    PROVE  CurationTypeOK'
<1>1. ui[e] \in UiState /\ ui[e].kind = "ready"
  BY DEF CurationTypeOK, Edit, IsReady
<1>2. [ui[e] EXCEPT !.listings = L, !.status = status] \in UiState
  BY <1>1 DEF UiState
<1>3. ui' = [ui EXCEPT ![e] = [ui[e] EXCEPT !.listings = L, !.status = status]]
  BY DEF Edit, CurationTypeOK
<1> QED
  BY <1>2, <1>3 DEF Edit, CurationTypeOK

\* The draft of an editor who may edit.
LEMMA DraftIsCatalog ==
    ASSUME CurationTypeOK, NEW e \in Editors, IsReady(e)
    PROVE  /\ ui[e].listings \in ListingSet /\ ui[e].origin \in ListingSet
           /\ ui[e].revision \in 0 .. MaxRevision
BY DEF CurationTypeOK, IsReady, UiState

\* onCreateListing, onAssignOffer, onUpdateListing, onMoveListing, onDeleteListing.
LEMMA DraftingKeepsTypes ==
    ASSUME CurationTypeOK, NEW e \in Editors, Drafting(e)
    PROVE  CurationTypeOK'
<1> DEFINE L == ui[e].listings
<1>1. IsReady(e)
  BY DEF Drafting, CreateListing, AssignOffer, UnassignOffer, UpdateListing, DeleteListing, MoveListing
<1>2. L \in ListingSet /\ DOMAIN L \subseteq ListingIds /\ L \in [DOMAIN L -> Listing]
  BY <1>1, DraftIsCatalog, CatalogIsFunction
<1>3. ASSUME NEW o \in Offers, NEW id \in ListingIds, CreateListing(e, o, id)
      PROVE  CurationTypeOK'
  <2> DEFINE N == [x \in DOMAIN L \cup {id} |-> IF x = id THEN Fresh(L, o) ELSE L[x]]
  <2>1. Fresh(L, o) \in Listing
    BY <1>2, CountIsOrder, ListingsAssumption DEF Fresh, Listing
  <2>2. N \in [DOMAIN N -> Listing] /\ DOMAIN N \subseteq ListingIds
    BY <1>2, <2>1
  <2>3. N \in ListingSet
    BY <2>2, CatalogIsFunction
  <2>4. Edit(e, N, "dirty")
    BY <1>3 DEF CreateListing
  <2> QED
    BY <2>3, <2>4, EditKeepsTypes
<1>4. ASSUME NEW o \in Offers, NEW id \in ListingIds, AssignOffer(e, o, id)
      PROVE  CurationTypeOK'
  <2> DEFINE N == [L EXCEPT ![id].offers = @ \cup {o}]
  <2>1. N \in [DOMAIN L -> Listing]
    BY <1>2 DEF Listing
  <2>2. N \in ListingSet
    BY <1>2, <2>1, CatalogIsFunction
  <2>3. Edit(e, N, "dirty")
    BY <1>4 DEF AssignOffer
  <2> QED
    BY <2>2, <2>3, EditKeepsTypes
<1>5. ASSUME NEW o \in Offers, NEW id \in ListingIds, UnassignOffer(e, o, id)
      PROVE  CurationTypeOK'
  <2> DEFINE N == [L EXCEPT ![id].offers = @ \ {o}]
  <2>1. N \in [DOMAIN L -> Listing]
    BY <1>2 DEF Listing
  <2>2. N \in ListingSet
    BY <1>2, <2>1, CatalogIsFunction
  <2>3. Edit(e, L, "error") \/ Edit(e, N, "dirty")
    BY <1>5 DEF UnassignOffer
  <2> QED
    BY <1>2, <2>2, <2>3, EditKeepsTypes
<1>6. ASSUME NEW id \in ListingIds, UpdateListing(e, id)
      PROVE  CurationTypeOK'
  <2>1. PICK c \in Contents : Edit(e, [L EXCEPT ![id].content = c], "dirty")
    BY <1>6 DEF UpdateListing
  <2>2. [L EXCEPT ![id].content = c] \in [DOMAIN L -> Listing]
    BY <1>2 DEF Listing
  <2>3. [L EXCEPT ![id].content = c] \in ListingSet
    BY <1>2, <2>2, CatalogIsFunction
  <2> QED
    BY <2>1, <2>3, EditKeepsTypes
<1>7. ASSUME NEW id \in ListingIds, DeleteListing(e, id)
      PROVE  CurationTypeOK'
  <2> DEFINE N == [x \in DOMAIN L \ {id} |-> L[x]]
  <2>1. N \in [DOMAIN N -> Listing] /\ DOMAIN N \subseteq ListingIds
    BY <1>2
  <2>2. Renumbered(N) \in ListingSet
    BY <2>1, CatalogIsFunction, RenumberedIsCatalog
  <2>3. Edit(e, Renumbered(N), "dirty")
    BY <1>7 DEF DeleteListing
  <2> QED
    BY <2>2, <2>3, EditKeepsTypes
<1>8. ASSUME NEW id \in ListingIds, NEW x \in ListingIds, MoveListing(e, id, x)
      PROVE  CurationTypeOK'
  <2> DEFINE N == [L EXCEPT ![id].order = L[x].order, ![x].order = L[id].order]
  <2>1. L[id].order \in 0 .. Cardinality(ListingIds) /\ L[x].order \in 0 .. Cardinality(ListingIds)
    BY <1>2, <1>8 DEF Listing, MoveListing
  <2>2. N \in [DOMAIN L -> Listing]
    BY <1>2, <2>1 DEF Listing
  <2>3. Renumbered(N) \in ListingSet
    BY <1>2, <2>2, CatalogIsFunction, RenumberedIsCatalog
  <2>4. Edit(e, Renumbered(N), "dirty")
    BY <1>8 DEF MoveListing
  <2> QED
    BY <2>3, <2>4, EditKeepsTypes
<1> QED
  BY <1>3, <1>4, <1>5, <1>6, <1>7, <1>8 DEF Drafting

\* The application's fetches, its save button and its undo.
LEMMA BrowsingKeepsTypes ==
    ASSUME CurationTypeOK, NEW e \in Editors,
           \/ Show(e) \/ Retry(e) \/ FetchLoads(e) \/ FetchAnswers(e) \/ FetchFails(e)
           \/ PressSave(e) \/ Reset(e)
    PROVE  CurationTypeOK'
<1>1. LoadingView \in UiState /\ FailedView \in UiState
  BY DEF LoadingView, FailedView, UiState
<1>2. CASE Show(e) \/ Retry(e)
  BY <1>1, <1>2 DEF Show, Retry, FetchWorkspace, CurationTypeOK
<1>3. CASE FetchLoads(e)
  BY <1>3 DEF FetchLoads, CurationTypeOK
<1>4. CASE FetchAnswers(e)
  <2>1. fetch[e].document \in Document
    BY <1>4 DEF FetchAnswers, CurationTypeOK, Idle, Sent
  <2>2. PICK r \in Reads : ui' = [ui EXCEPT ![e] = Mapped(fetch[e].document, r, "clean")]
    BY <1>4 DEF FetchAnswers
  <2>3. Mapped(fetch[e].document, r, "clean") \in UiState
    BY <2>1, MappedIsState
  <2> QED
    BY <1>4, <2>2, <2>3 DEF FetchAnswers, CurationTypeOK
<1>5. CASE FetchFails(e)
  BY <1>1, <1>5 DEF FetchFails, CurationTypeOK
<1>6. CASE PressSave(e)
  <2>1. ui[e] \in UiState /\ ui[e].kind = "ready"
    BY <1>6 DEF PressSave, IsReady, CurationTypeOK
  <2>2. ui[e].revision \in 0 .. MaxRevision - 1
    BY <1>6, <2>1, BoundAssumption DEF PressSave, UiState
  <2>3. \A status \in {"saving", "error"} : [ui[e] EXCEPT !.status = status] \in UiState
    BY <2>1 DEF UiState
  <2>4. ui' \in [Editors -> UiState]
    BY <1>6, <2>3 DEF PressSave, CurationTypeOK
  <2>5. save' \in [Editors -> [Slots -> SaveState \cup {NoSave}]]
    <3> DEFINE s == [ phase |-> "sent", awaited |-> TRUE, revision |-> ui[e].revision,
                      listings |-> ui[e].listings, origin |-> ui[e].origin ]
    <3>1. s \in SaveState
      BY <2>1, <2>2 DEF SaveState, UiState
    <3>2. save' = save \/ \E i \in Slots : save' = [save EXCEPT ![e][i] = s]
      BY <1>6 DEF PressSave
    <3> HIDE DEF s
    <3> QED
      BY <3>1, <3>2 DEF CurationTypeOK
  <2> QED
    BY <1>6, <2>4, <2>5 DEF PressSave, CurationTypeOK
<1>7. CASE Reset(e)
  <2>1. ui[e] \in UiState /\ ui[e].kind = "ready"
    BY <1>7 DEF Reset, IsReady, CurationTypeOK
  <2>2. [ui[e] EXCEPT !.listings = ui[e].origin, !.status = "clean"] \in UiState
    BY <2>1 DEF UiState
  <2>3. ui' = [ui EXCEPT ![e] = LoadingView]
        \/ ui' = [ui EXCEPT ![e] = [ui[e] EXCEPT !.listings = ui[e].origin, !.status = "clean"]]
    BY <1>7 DEF Reset, FetchWorkspace, CurationTypeOK
  <2> QED
    BY <1>1, <1>7, <2>2, <2>3 DEF Reset, FetchWorkspace, CurationTypeOK
<1> QED
  BY <1>2, <1>3, <1>4, <1>5, <1>6, <1>7

\* Tell, whatever the editor shows.
LEMMA ToldIsState ==
    ASSUME CurationTypeOK, NEW e \in Editors, NEW status \in {"error", "conflict"}, Tell(e, status)
    PROVE  ui' \in [Editors -> UiState]
<1>1. ui[e] \in UiState
  BY DEF CurationTypeOK
<1>2. IsReady(e) => [ui[e] EXCEPT !.status = status] \in UiState
  BY <1>1 DEF IsReady, UiState
<1> QED
  BY <1>1, <1>2 DEF Tell, CurationTypeOK

\* The server's steps of a save, and its answer.
LEMMA SavingKeepsTypes ==
    ASSUME CurationTypeOK, NEW e \in Editors, NEW i \in Slots,
           SaveChecks(e, i) \/ SaveCommits(e, i) \/ SaveAnswers(e, i) \/ SaveIsLost(e, i)
    PROVE  CurationTypeOK'
<1> DEFINE s == save[e][i]
<1>1. s \in SaveState
  BY DEF CurationTypeOK, SaveChecks, SaveCommits, SaveAnswers, SaveIsLost, Awaited
<1>2. \A phase \in {"saved", "conflict", "refused"} : Ends(s, phase) \in SaveState \cup {NoSave}
  BY <1>1 DEF Ends, SaveState
<1>3. [s EXCEPT !.phase = "checked"] \in SaveState /\ [s EXCEPT !.awaited = FALSE] \in SaveState
  BY <1>1 DEF SaveState
<1>4. s.revision + 1 \in 0 .. MaxRevision /\ s.listings \in ListingSet
  BY <1>1, BoundAssumption DEF SaveState
<1>5. \A t \in SaveState \cup {NoSave} :
         [save EXCEPT ![e][i] = t] \in [Editors -> [Slots -> SaveState \cup {NoSave}]]
  BY DEF CurationTypeOK
<1>6. CASE SaveChecks(e, i)
  <2>1. \E t \in SaveState \cup {NoSave} : save' = [save EXCEPT ![e][i] = t]
    BY <1>2, <1>3, <1>6 DEF SaveChecks
  <2> QED
    BY <1>5, <1>6, <2>1 DEF SaveChecks, CurationTypeOK
<1>7. CASE SaveCommits(e, i)
  <2>1. \E t \in SaveState \cup {NoSave} : save' = [save EXCEPT ![e][i] = t]
    BY <1>2, <1>7 DEF SaveCommits
  <2>2. document' \in Document
    BY <1>4, <1>7 DEF SaveCommits, Document, CurationTypeOK
  <2> QED
    BY <1>5, <1>7, <2>1, <2>2 DEF SaveCommits, CurationTypeOK
<1>8. CASE SaveAnswers(e, i)
  <2>1. save' = [save EXCEPT ![e][i] = NoSave]
    BY <1>8 DEF SaveAnswers
  <2>2. ui' \in [Editors -> UiState]
    <3> DEFINE d == [revision |-> s.revision + 1, listings |-> s.listings]
    <3>1. d \in Document
      BY <1>4 DEF Document
    <3>2. \A r \in Reads : Mapped(d, r, "saved") \in UiState
      BY <3>1, MappedIsState
    <3>3. CASE s.phase = "saved"
      <4>1. \E r \in Reads : ui' = [ui EXCEPT ![e] = Mapped(d, r, "saved")]
        BY <1>8, <3>3 DEF SaveAnswers
      <4> QED
        BY <3>2, <4>1 DEF CurationTypeOK
    <3>4. CASE s.phase # "saved"
      <4>1. Tell(e, "conflict") \/ Tell(e, "error")
        BY <1>8, <3>4 DEF SaveAnswers
      <4> QED
        BY <4>1, ToldIsState
    <3> QED
      BY <3>3, <3>4
  <2> QED
    BY <1>5, <1>8, <2>1, <2>2 DEF SaveAnswers, CurationTypeOK
<1>9. CASE SaveIsLost(e, i)
  <2>1. \E t \in SaveState \cup {NoSave} : save' = [save EXCEPT ![e][i] = t]
    BY <1>3, <1>9 DEF SaveIsLost, CurationTypeOK
  <2>2. ui' \in [Editors -> UiState]
    BY <1>9, ToldIsState DEF SaveIsLost
  <2> QED
    BY <1>5, <1>9, <2>1, <2>2 DEF SaveIsLost, CurationTypeOK
<1> QED
  BY <1>6, <1>7, <1>8, <1>9

\* Every step is one of the three kinds above, or changes nothing.
LEMMA TypesAreKept == CurationTypeOK /\ [CurationNext]_cuvars => CurationTypeOK'
<1> SUFFICES ASSUME CurationTypeOK, [CurationNext]_cuvars
             PROVE  CurationTypeOK'
  OBVIOUS
<1>1. CASE UNCHANGED cuvars
  BY <1>1 DEF cuvars, CurationTypeOK
<1>2. ASSUME NEW e \in Editors, Drafting(e)
      PROVE  CurationTypeOK'
  BY <1>2, DraftingKeepsTypes
<1>3. ASSUME NEW e \in Editors,
             \/ Show(e) \/ Retry(e) \/ FetchLoads(e) \/ FetchAnswers(e) \/ FetchFails(e)
             \/ PressSave(e) \/ Reset(e)
      PROVE  CurationTypeOK'
  BY <1>3, BrowsingKeepsTypes
<1>4. ASSUME NEW e \in Editors, NEW i \in Slots,
             SaveChecks(e, i) \/ SaveCommits(e, i) \/ SaveAnswers(e, i) \/ SaveIsLost(e, i)
      PROVE  CurationTypeOK'
  BY <1>4, SavingKeepsTypes
<1> QED
  BY <1>1, <1>2, <1>3, <1>4 DEF CurationNext

\* The document, every view and every request on the way are well-formed, and no revision
\* is ahead of those that were published (CatalogCurationDocument, mapWorkspace).
THEOREM CurationTypes == CurationSpec => []CurationTypeOK
<1>1. CurationInit => CurationTypeOK
  BY NothingIsCatalog, BoundAssumption DEF CurationInit, CurationTypeOK, Document, UiState, LoadingView
<1> QED
  BY <1>1, TypesAreKept, PTL DEF CurationSpec

-----------------------------------------------------------------------------
(* A revision names one content *)

\* What claims to be revision r of the catalog may be, when the document is d.
Fits(d, r, L) == r <= d.revision /\ (r = d.revision => L = d.listings)

ViewsFit ==
    \A e \in Editors : IsReady(e) =>
        /\ Fits(document, ui[e].revision, ui[e].origin)
        /\ ui[e].status \in {"clean", "saved"} => ui[e].listings = ui[e].origin

FetchesFit ==
    \A e \in Editors : fetch[e].at = "loaded" => Fits(document, fetch[e].document.revision, fetch[e].document.listings)

SaveFits(d, s) ==
    /\ Fits(d, s.revision, s.origin)
    /\ s.phase = "saved" => Fits(d, s.revision + 1, s.listings)

SavesFit == \A e \in Editors, i \in Slots : save[e][i] # NoSave => SaveFits(document, save[e][i])

RevisionsFit == CurationTypeOK /\ ViewsFit /\ FetchesFit /\ SavesFit

\* What an answer shows is in step with the document it was mapped from.
LEMMA MappedFits ==
    ASSUME NEW d, NEW r, NEW status, Fits(document, d.revision, d.listings),
           Mapped(d, r, status).kind = "ready"
    PROVE  /\ Fits(document, Mapped(d, r, status).revision, Mapped(d, r, status).origin)
           /\ Mapped(d, r, status).listings = Mapped(d, r, status).origin
BY DEF Mapped

\* An edit keeps where the draft came from.
LEMMA EditFits ==
    ASSUME RevisionsFit, NEW e \in Editors, NEW L, NEW status \in {"dirty", "error"}, Edit(e, L, status)
    PROVE  ViewsFit' /\ FetchesFit' /\ SavesFit'
<1>1. /\ ui' = [ui EXCEPT ![e] = [ui[e] EXCEPT !.listings = L, !.status = status]]
      /\ UNCHANGED <<document, fetch, save>>
  BY DEF Edit, RevisionsFit, CurationTypeOK
<1>2. ui[e] \in UiState /\ ui[e].kind = "ready" /\ Fits(document, ui[e].revision, ui[e].origin)
  BY DEF Edit, IsReady, RevisionsFit, ViewsFit, CurationTypeOK
<1>3. ViewsFit'
  <2> SUFFICES ASSUME NEW x \in Editors, IsReady(x)'
               PROVE  /\ Fits(document, ui'[x].revision, ui'[x].origin)
                      /\ ui'[x].status \in {"clean", "saved"} => ui'[x].listings = ui'[x].origin
    BY <1>1 DEF ViewsFit, Fits
  <2>1. CASE x = e
    BY <1>1, <1>2, <2>1 DEF UiState, RevisionsFit, CurationTypeOK
  <2>2. CASE x # e
    BY <1>1, <2>2 DEF RevisionsFit, CurationTypeOK, ViewsFit, IsReady
  <2> QED
    BY <2>1, <2>2
<1> QED
  BY <1>1, <1>3 DEF RevisionsFit, FetchesFit, SavesFit, SaveFits, Fits

\* Only a commit changes the document, and it puts it a revision ahead of all that was known.
LEMMA CommitFits ==
    ASSUME RevisionsFit, NEW e \in Editors, NEW i \in Slots, SaveCommits(e, i)
    PROVE  ViewsFit' /\ FetchesFit' /\ SavesFit'
<1> DEFINE s == save[e][i]
<1>1. s \in SaveState /\ s # NoSave /\ SaveFits(document, s) /\ document \in Document
  BY DEF RevisionsFit, CurationTypeOK, SavesFit, SaveCommits
<1>2. CASE document.revision = s.revision
  <2>1. /\ document' = [revision |-> s.revision + 1, listings |-> s.listings]
        /\ save' = [save EXCEPT ![e][i] = Ends(s, "saved")]
        /\ UNCHANGED <<ui, fetch>>
    BY <1>2 DEF SaveCommits, Replaceable
  <2>2. \A r \in Nat : \A L : Fits(document, r, L) => Fits(document', r, L)
    <3> SUFFICES ASSUME NEW r \in Nat, NEW L, Fits(document, r, L)
                 PROVE  Fits(document', r, L)
      OBVIOUS
    <3>1. r <= document.revision /\ document'.revision = document.revision + 1
      BY <1>2, <2>1 DEF Fits
    <3>2. document.revision \in Nat
      BY <1>1 DEF Document
    <3> QED
      BY <3>1, <3>2 DEF Fits
  <2>3. Fits(document', s.revision + 1, s.listings)
    BY <1>1, <2>1 DEF Fits, SaveState
  <2>4. ViewsFit'
    BY <2>1, <2>2 DEF RevisionsFit, ViewsFit, IsReady, CurationTypeOK, UiState
  <2>5. FetchesFit'
    BY <2>1, <2>2 DEF RevisionsFit, FetchesFit, CurationTypeOK, Document, Idle, Sent
  <2>6. SavesFit'
    <3> SUFFICES ASSUME NEW x \in Editors, NEW j \in Slots, save'[x][j] # NoSave
                 PROVE  SaveFits(document', save'[x][j])
      BY DEF SavesFit
    <3>1. CASE x = e /\ j = i
      <4>1. save'[x][j] = [s EXCEPT !.phase = "saved"]
        BY <2>1, <3>1 DEF Ends, RevisionsFit, CurationTypeOK
      <4>2. save'[x][j].revision = s.revision /\ save'[x][j].origin = s.origin
            /\ save'[x][j].listings = s.listings /\ s.revision \in Nat
        BY <1>1, <4>1 DEF SaveState
      <4>3. Fits(document', s.revision, s.origin)
        BY <1>1, <2>2, <4>2 DEF SaveFits
      <4> QED
        BY <2>3, <4>2, <4>3 DEF SaveFits, Fits
    <3>2. CASE ~(x = e /\ j = i)
      <4>1. save'[x][j] = save[x][j] /\ save[x][j] \in SaveState /\ SaveFits(document, save[x][j])
        BY <2>1, <3>2 DEF RevisionsFit, CurationTypeOK, SavesFit
      <4>2. save[x][j].revision \in Nat /\ save[x][j].revision + 1 \in Nat
        BY <4>1 DEF SaveState
      <4> QED
        BY <2>2, <4>1, <4>2 DEF SaveFits, Fits
    <3> QED
      BY <3>1, <3>2
  <2> QED
    BY <2>4, <2>5, <2>6
<1>3. CASE document.revision # s.revision
  <2>1. save' = [save EXCEPT ![e][i] = Ends(s, "conflict")] /\ UNCHANGED <<document, ui, fetch>>
    BY <1>3 DEF SaveCommits, Replaceable
  <2>2. Ends(s, "conflict") # NoSave => SaveFits(document, Ends(s, "conflict"))
    BY <1>1 DEF Ends, SaveFits, SaveState
  <2>3. SavesFit'
    BY <2>1, <2>2 DEF RevisionsFit, CurationTypeOK, SavesFit, SaveFits, Fits
  <2> QED
    BY <2>1, <2>3 DEF RevisionsFit, ViewsFit, FetchesFit, IsReady, Fits
<1> QED
  BY <1>2, <1>3

\* One view takes a new state; document and saves stay.
LEMMA ViewFits ==
    ASSUME RevisionsFit, NEW e \in Editors, NEW u, ui' = [ui EXCEPT ![e] = u], UNCHANGED document,
           u.kind = "ready" =>
              /\ Fits(document, u.revision, u.origin)
              /\ u.status \in {"clean", "saved"} => u.listings = u.origin
    PROVE  ViewsFit'
BY DEF RevisionsFit, CurationTypeOK, ViewsFit, IsReady

\* The application's fetches, its save button and its undo.
LEMMA BrowsingFits ==
    ASSUME RevisionsFit, NEW e \in Editors,
           \/ Show(e) \/ Retry(e) \/ FetchLoads(e) \/ FetchAnswers(e) \/ FetchFails(e)
           \/ PressSave(e) \/ Reset(e)
    PROVE  ViewsFit' /\ FetchesFit' /\ SavesFit'
<1>1. UNCHANGED document
  BY DEF Show, Retry, FetchLoads, FetchAnswers, FetchFails, PressSave, Reset
<1>2. LoadingView.kind # "ready" /\ FailedView.kind # "ready" /\ Sent.at # "loaded" /\ Idle.at # "loaded"
  BY DEF LoadingView, FailedView, Sent, Idle
<1>3. ViewsFit'
  <2>1. CASE Show(e) \/ Retry(e) \/ FetchFails(e) \/ (Reset(e) /\ ui' = [ui EXCEPT ![e] = LoadingView])
    <3>1. ui' = [ui EXCEPT ![e] = LoadingView] \/ ui' = [ui EXCEPT ![e] = FailedView]
      BY <2>1 DEF Show, Retry, FetchFails, FetchWorkspace
    <3> QED
      BY <1>1, <1>2, <3>1, ViewFits
  <2>2. CASE FetchLoads(e)
    BY <1>1, <2>2 DEF FetchLoads, RevisionsFit, ViewsFit, IsReady
  <2>3. CASE FetchAnswers(e)
    <3> DEFINE d == fetch[e].document
    <3>1. PICK r \in Reads : ui' = [ui EXCEPT ![e] = Mapped(d, r, "clean")]
      BY <2>3 DEF FetchAnswers
    <3>2. Fits(document, d.revision, d.listings)
      BY <2>3 DEF FetchAnswers, RevisionsFit, FetchesFit
    <3>3. Mapped(d, r, "clean").kind = "ready" =>
             /\ Fits(document, Mapped(d, r, "clean").revision, Mapped(d, r, "clean").origin)
             /\ Mapped(d, r, "clean").listings = Mapped(d, r, "clean").origin
      BY <3>2, MappedFits
    <3> QED
      BY <1>1, <3>1, <3>3, ViewFits
  <2>4. CASE PressSave(e) \/ (Reset(e) /\ ui' # [ui EXCEPT ![e] = LoadingView])
    <3>1. ui[e] \in UiState /\ ui[e].kind = "ready" /\ Fits(document, ui[e].revision, ui[e].origin)
      BY <2>4 DEF PressSave, Reset, IsReady, RevisionsFit, ViewsFit, CurationTypeOK
    <3>2. \/ \E status \in {"saving", "error"} : ui' = [ui EXCEPT ![e] = [ui[e] EXCEPT !.status = status]]
          \/ ui' = [ui EXCEPT ![e] = [ui[e] EXCEPT !.listings = ui[e].origin, !.status = "clean"]]
      BY <2>4 DEF PressSave, Reset, FetchWorkspace, RevisionsFit, CurationTypeOK
    <3>3. CASE \E status \in {"saving", "error"} : ui' = [ui EXCEPT ![e] = [ui[e] EXCEPT !.status = status]]
      <4>1. PICK status \in {"saving", "error"} : ui' = [ui EXCEPT ![e] = [ui[e] EXCEPT !.status = status]]
        BY <3>3
      <4> DEFINE u == [ui[e] EXCEPT !.status = status]
      <4>2. u.status = status /\ u.revision = ui[e].revision /\ u.origin = ui[e].origin
        BY <3>1 DEF UiState
      <4> HIDE DEF u
      <4> QED
        BY <1>1, <3>1, <4>1, <4>2, ViewFits DEF u
    <3>4. CASE ui' = [ui EXCEPT ![e] = [ui[e] EXCEPT !.listings = ui[e].origin, !.status = "clean"]]
      <4> DEFINE u == [ui[e] EXCEPT !.listings = ui[e].origin, !.status = "clean"]
      <4>1. u.listings = u.origin /\ u.revision = ui[e].revision /\ u.origin = ui[e].origin
        BY <3>1 DEF UiState
      <4> QED
        BY <1>1, <3>1, <3>4, <4>1, ViewFits
    <3> QED
      BY <3>2, <3>3, <3>4
  <2> QED
    BY <2>1, <2>2, <2>3, <2>4
<1>4. FetchesFit'
  <2>1. document.revision \in Nat
    BY DEF RevisionsFit, CurationTypeOK, Document
  <2>2. CASE FetchLoads(e)
    BY <1>1, <2>1, <2>2 DEF FetchLoads, RevisionsFit, CurationTypeOK, FetchesFit, Fits
  <2>3. CASE ~FetchLoads(e)
    <3>1. fetch' = fetch \/ fetch' = [fetch EXCEPT ![e] = Sent] \/ fetch' = [fetch EXCEPT ![e] = Idle]
      BY <2>3 DEF Show, Retry, FetchAnswers, FetchFails, PressSave, Reset, FetchWorkspace
    <3> QED
      BY <1>1, <1>2, <3>1 DEF RevisionsFit, CurationTypeOK, FetchesFit
  <2> QED
    BY <2>2, <2>3
<1>5. SavesFit'
  <2>1. CASE save' = save
    BY <1>1, <2>1 DEF RevisionsFit, SavesFit
  <2>2. CASE save' # save
    <3> DEFINE s == [ phase |-> "sent", awaited |-> TRUE, revision |-> ui[e].revision,
                      listings |-> ui[e].listings, origin |-> ui[e].origin ]
    <3>1. PressSave(e)
      BY <2>2 DEF Show, Retry, FetchLoads, FetchAnswers, FetchFails, Reset
    <3>2. PICK i \in Slots : save' = [save EXCEPT ![e][i] = s]
      BY <2>2, <3>1 DEF PressSave
    <3>3. SaveFits(document, s)
      BY <3>1 DEF PressSave, RevisionsFit, ViewsFit, SaveFits
    <3> HIDE DEF s
    <3> QED
      BY <1>1, <3>2, <3>3 DEF RevisionsFit, CurationTypeOK, SavesFit
  <2> QED
    BY <2>1, <2>2
<1> QED
  BY <1>3, <1>4, <1>5

\* What becomes of a save except its commit.
LEMMA SavingFits ==
    ASSUME RevisionsFit, NEW e \in Editors, NEW i \in Slots,
           SaveChecks(e, i) \/ SaveAnswers(e, i) \/ SaveIsLost(e, i)
    PROVE  ViewsFit' /\ FetchesFit' /\ SavesFit'
<1> DEFINE s == save[e][i]
<1>1. s \in SaveState /\ s # NoSave /\ SaveFits(document, s) /\ ui[e] \in UiState
  BY DEF RevisionsFit, CurationTypeOK, SavesFit, SaveChecks, SaveAnswers, SaveIsLost, Awaited
<1>2. UNCHANGED <<document, fetch>>
  BY DEF SaveChecks, SaveAnswers, SaveIsLost
<1>3. ASSUME NEW status \in {"error", "conflict"}, Tell(e, status)
      PROVE  ViewsFit'
  <2> DEFINE u == IF IsReady(e) THEN [ui[e] EXCEPT !.status = status] ELSE ui[e]
  <2>1. ui' = [ui EXCEPT ![e] = u]
    BY <1>3 DEF Tell, RevisionsFit, CurationTypeOK
  <2>2. CASE IsReady(e)
    <3>1. u.status = status /\ u.revision = ui[e].revision /\ u.origin = ui[e].origin
      BY <1>1, <2>2 DEF UiState, IsReady
    <3>2. Fits(document, ui[e].revision, ui[e].origin)
      BY <2>2 DEF RevisionsFit, ViewsFit
    <3> HIDE DEF u
    <3> QED
      BY <1>2, <2>1, <3>1, <3>2, ViewFits
  <2>3. CASE ~IsReady(e)
    BY <1>2, <2>1, <2>3, ViewFits DEF IsReady
  <2> QED
    BY <2>2, <2>3
<1>4. ViewsFit'
  <2>1. CASE ui' = ui
    BY <1>2, <2>1 DEF RevisionsFit, ViewsFit, IsReady
  <2>2. CASE SaveAnswers(e, i) /\ s.phase = "saved"
    <3> DEFINE d == [revision |-> s.revision + 1, listings |-> s.listings]
    <3>1. PICK r \in Reads : ui' = [ui EXCEPT ![e] = Mapped(d, r, "saved")]
      BY <2>2 DEF SaveAnswers
    <3>2. Fits(document, s.revision + 1, s.listings)
      BY <1>1, <2>2 DEF SaveFits
    <3>3. Mapped(d, r, "saved").kind = "ready" =>
             /\ Fits(document, Mapped(d, r, "saved").revision, Mapped(d, r, "saved").origin)
             /\ Mapped(d, r, "saved").listings = Mapped(d, r, "saved").origin
      BY <3>2, MappedFits
    <3> QED
      BY <1>2, <3>1, <3>3, ViewFits
  <2>3. CASE SaveAnswers(e, i) /\ s.phase # "saved"
    <3>1. Tell(e, "conflict") \/ Tell(e, "error")
      BY <2>3 DEF SaveAnswers
    <3> QED
      BY <1>3, <3>1
  <2>4. CASE SaveIsLost(e, i)
    BY <1>3, <2>4 DEF SaveIsLost
  <2> QED
    BY <2>1, <2>2, <2>3, <2>4 DEF SaveChecks
<1>5. SavesFit'
  <2>1. \E t : save' = [save EXCEPT ![e][i] = t] /\ (t # NoSave => SaveFits(document, t))
    <3>1. /\ SaveFits(document, [s EXCEPT !.phase = "checked"])
          /\ SaveFits(document, [s EXCEPT !.awaited = FALSE])
          /\ Ends(s, "refused") # NoSave => SaveFits(document, Ends(s, "refused"))
      BY <1>1 DEF Ends, SaveFits, SaveState
    <3>2. CASE SaveChecks(e, i)
      BY <3>1, <3>2 DEF SaveChecks
    <3>3. CASE SaveAnswers(e, i)
      BY <3>3 DEF SaveAnswers
    <3>4. CASE SaveIsLost(e, i)
      BY <3>1, <3>4 DEF SaveIsLost, RevisionsFit, CurationTypeOK
    <3> QED
      BY <3>2, <3>3, <3>4
  <2> QED
    BY <1>2, <2>1 DEF RevisionsFit, CurationTypeOK, SavesFit
<1> QED
  BY <1>2, <1>4, <1>5 DEF RevisionsFit, FetchesFit

\* RevisionsFit is inductive.
LEMMA RevisionsStayFit == RevisionsFit /\ [CurationNext]_cuvars => RevisionsFit'
<1> SUFFICES ASSUME RevisionsFit, [CurationNext]_cuvars
             PROVE  ViewsFit' /\ FetchesFit' /\ SavesFit'
  BY TypesAreKept DEF RevisionsFit
<1>1. CASE UNCHANGED cuvars
  BY <1>1 DEF cuvars, RevisionsFit, ViewsFit, FetchesFit, SavesFit, SaveFits, IsReady, Fits
<1>2. ASSUME NEW e \in Editors, Drafting(e)
      PROVE  ViewsFit' /\ FetchesFit' /\ SavesFit'
  <2>1. \E L, status : status \in {"dirty", "error"} /\ Edit(e, L, status)
    BY <1>2 DEF Drafting, CreateListing, AssignOffer, UnassignOffer, UpdateListing, DeleteListing,
                MoveListing
  <2> QED
    BY <2>1, EditFits
<1>3. ASSUME NEW e \in Editors,
             \/ Show(e) \/ Retry(e) \/ FetchLoads(e) \/ FetchAnswers(e) \/ FetchFails(e)
             \/ PressSave(e) \/ Reset(e)
      PROVE  ViewsFit' /\ FetchesFit' /\ SavesFit'
  BY <1>3, BrowsingFits
<1>4. ASSUME NEW e \in Editors, NEW i \in Slots,
             SaveChecks(e, i) \/ SaveCommits(e, i) \/ SaveAnswers(e, i) \/ SaveIsLost(e, i)
      PROVE  ViewsFit' /\ FetchesFit' /\ SavesFit'
  BY <1>4, SavingFits, CommitFits
<1> QED
  BY <1>1, <1>2, <1>3, <1>4 DEF CurationNext

LEMMA RevisionsAreFit == CurationSpec => []RevisionsFit
<1>1. CurationInit => RevisionsFit
  BY NothingIsCatalog, BoundAssumption
     DEF CurationInit, RevisionsFit, CurationTypeOK, ViewsFit, FetchesFit, SavesFit, IsReady, Document, UiState,
         LoadingView, Idle
<1> QED
  BY <1>1, RevisionsStayFit, PTL DEF CurationSpec

\* A draft shown as synchronised or saved is the document, until another is published.
THEOREM SyncedDraftsArePublished == CurationSpec => []SyncedMeansPublished
<1>1. RevisionsFit => SyncedMeansPublished
  BY DEF RevisionsFit, ViewsFit, Fits, SyncedMeansPublished
<1> QED
  BY <1>1, RevisionsAreFit, PTL

\* Whoever replaces the document had started from the listings that are replaced, for any
\* number of admins and of saves whose answers were lost (_execute_save).
THEOREM UpdatesAreNotLost == CurationSpec => NoUpdateIsLost
<1> DEFINE Seen == \A e \in Editors, i \in Slots :
                      document' # document /\ save'[e][i] # save[e][i] =>
                          save[e][i].origin = document.listings
<1>1. RevisionsFit /\ [CurationNext]_cuvars => [Seen]_cuvars
  <2> SUFFICES ASSUME RevisionsFit, CurationNext, NEW e \in Editors, NEW i \in Slots,
                      document' # document, save'[e][i] # save[e][i]
               PROVE  save[e][i].origin = document.listings
    BY DEF cuvars
  <2>1. PICK x \in Editors, j \in Slots : SaveCommits(x, j)
    <3>1. ASSUME NEW x \in Editors, Drafting(x)
          PROVE  document' = document
      <4>1. \E L, status : Edit(x, L, status)
        BY <3>1 DEF Drafting, CreateListing, AssignOffer, UnassignOffer, UpdateListing, DeleteListing,
                    MoveListing
      <4> QED
        BY <4>1 DEF Edit
    <3>2. ASSUME NEW x \in Editors,
                 \/ Show(x) \/ Retry(x) \/ FetchLoads(x) \/ FetchAnswers(x) \/ FetchFails(x)
                 \/ PressSave(x) \/ Reset(x)
          PROVE  document' = document
      BY <3>2 DEF Show, Retry, FetchLoads, FetchAnswers, FetchFails, PressSave, Reset
    <3>3. ASSUME NEW x \in Editors, NEW j \in Slots,
                 SaveChecks(x, j) \/ SaveAnswers(x, j) \/ SaveIsLost(x, j)
          PROVE  document' = document
      BY <3>3 DEF SaveChecks, SaveAnswers, SaveIsLost
    <3> QED
      BY <3>1, <3>2, <3>3 DEF CurationNext
  <2>2. x = e /\ j = i
    BY <2>1 DEF SaveCommits, RevisionsFit, CurationTypeOK
  <2>3. save[e][i].revision = document.revision /\ SaveFits(document, save[e][i])
    BY <2>1, <2>2 DEF SaveCommits, Replaceable, RevisionsFit, SavesFit
  <2> QED
    BY <2>3 DEF SaveFits, Fits
<1> QED
  BY <1>1, RevisionsAreFit, PTL DEF CurationSpec, NoUpdateIsLost

-----------------------------------------------------------------------------
(* An editor who stays waits for one answer at a time *)

Stays(e) ==
    /\ IsReady(e) => fetch[e] = Idle
    /\ \A i \in Slots : Awaited(e, i) => IsReady(e) /\ ui[e].status = "saving"
    /\ \A i, j \in Slots : Awaited(e, i) /\ Awaited(e, j) => i = j

\* A patient editor looks at a draft only when no fetch is on the way, and waits for a save only while
\* the draft says so, for one at a time.
OneAnswerIsDue == \A e \in Patient : Stays(e)

\* A save nobody waits for ends without an answer.
AnswersAreAwaited ==
    \A e \in Editors, i \in Slots :
        save[e][i] # NoSave /\ save[e][i].phase \in {"saved", "conflict", "refused"} => save[e][i].awaited

PatienceInv == CurationTypeOK /\ OneAnswerIsDue /\ AnswersAreAwaited

\* A step of one editor, or of the service for that editor.
Acts(e) ==
    \/ Drafting(e)
    \/ Show(e) \/ Retry(e) \/ FetchLoads(e) \/ FetchAnswers(e) \/ FetchFails(e) \/ PressSave(e) \/ Reset(e)
    \/ \E i \in Slots : SaveChecks(e, i) \/ SaveCommits(e, i) \/ SaveAnswers(e, i) \/ SaveIsLost(e, i)

LEMMA DraftingIsEdit ==
    ASSUME NEW e, Drafting(e)
    PROVE  \E L, status : status \in {"dirty", "error"} /\ Edit(e, L, status)
BY DEF Drafting, CreateListing, AssignOffer, UnassignOffer, UpdateListing, DeleteListing, MoveListing

\* It touches no other editor's view, fetch or saves.
LEMMA OthersAreLeft ==
    ASSUME CurationTypeOK, NEW x \in Editors, Acts(x), NEW e \in Editors, e # x
    PROVE  ui'[e] = ui[e] /\ fetch'[e] = fetch[e] /\ save'[e] = save[e]
<1>1. CASE Drafting(x)
  <2>1. PICK L, status : Edit(x, L, status)
    BY <1>1, DraftingIsEdit
  <2>2. ui' = [ui EXCEPT ![x].listings = L, ![x].status = status] /\ fetch' = fetch /\ save' = save
    BY <2>1 DEF Edit
  <2> QED
    BY <2>2 DEF CurationTypeOK
<1>2. CASE Show(x) \/ Retry(x) \/ FetchLoads(x) \/ FetchAnswers(x) \/ FetchFails(x)
  BY <1>2 DEF Show, Retry, FetchLoads, FetchAnswers, FetchFails, FetchWorkspace, CurationTypeOK
<1>3. CASE PressSave(x) \/ Reset(x)
  <2>1. /\ ui'[e] = ui[e] /\ fetch'[e] = fetch[e]
        /\ save' = save \/ \E i \in Slots : \E s : save' = [save EXCEPT ![x][i] = s]
    BY <1>3 DEF PressSave, Reset, FetchWorkspace, CurationTypeOK
  <2> QED
    BY <2>1 DEF CurationTypeOK
<1>4. ASSUME NEW i \in Slots, SaveChecks(x, i) \/ SaveCommits(x, i)
      PROVE  ui'[e] = ui[e] /\ fetch'[e] = fetch[e] /\ save'[e] = save[e]
  <2>1. ui' = ui /\ fetch' = fetch /\ \E s : save' = [save EXCEPT ![x][i] = s]
    BY <1>4 DEF SaveChecks, SaveCommits
  <2> QED
    BY <2>1 DEF CurationTypeOK
<1>5. ASSUME NEW i \in Slots, SaveAnswers(x, i) \/ SaveIsLost(x, i)
      PROVE  ui'[e] = ui[e] /\ fetch'[e] = fetch[e] /\ save'[e] = save[e]
  <2>1. fetch' = fetch /\ \E v : ui' = [ui EXCEPT ![x] = v]
    BY <1>5 DEF SaveAnswers, SaveIsLost, Tell
  <2>2. \E s : save' = [save EXCEPT ![x][i] = s]
    BY <1>5 DEF SaveAnswers, SaveIsLost, CurationTypeOK
  <2> QED
    BY <2>1, <2>2 DEF CurationTypeOK
<1> QED
  BY <1>1, <1>2, <1>3, <1>4, <1>5 DEF Acts

\* A step of a save changes that save alone.
LEMMA OneSaveChanges ==
    ASSUME CurationTypeOK, NEW e \in Editors, NEW i \in Slots, NEW s, save' = [save EXCEPT ![e][i] = s]
    PROVE  save'[e][i] = s /\ \A j \in Slots \ {i} : save'[e][j] = save[e][j]
BY DEF CurationTypeOK

\* No step begins to wait for a save but the button, and what ends unawaited ends silently.
LEMMA SavesGoOn ==
    ASSUME CurationTypeOK, AnswersAreAwaited, NEW e \in Editors, NEW i \in Slots,
           SaveChecks(e, i) \/ SaveCommits(e, i)
    PROVE  /\ \A j \in Slots : Awaited(e, j)' => Awaited(e, j)
           /\ \A j \in Slots :
                 save'[e][j] # NoSave /\ save'[e][j].phase \in {"saved", "conflict", "refused"} =>
                     save'[e][j].awaited
<1> DEFINE s == save[e][i]
<1>1. s # NoSave /\ s \in SaveState
  BY DEF CurationTypeOK, SaveChecks, SaveCommits
<1>2. PICK t : /\ save' = [save EXCEPT ![e][i] = t]
               /\ \/ t = [s EXCEPT !.phase = "checked"]
                  \/ \E phase \in {"saved", "conflict", "refused"} : t = Ends(s, phase)
  BY DEF SaveChecks, SaveCommits
<1>3. t = [s EXCEPT !.phase = "checked"] => t.awaited = s.awaited /\ t.phase = "checked"
  BY <1>1 DEF SaveState
<1>4. ASSUME NEW phase, t = Ends(s, phase)
      PROVE  t = NoSave \/ (t.awaited /\ s.awaited)
  BY <1>1, <1>4 DEF Ends, SaveState
<1>5. save'[e][i] = t /\ \A j \in Slots \ {i} : save'[e][j] = save[e][j]
  BY <1>2, OneSaveChanges
<1>6. t # NoSave /\ t.awaited => s.awaited
  BY <1>2, <1>3, <1>4
<1>7. t # NoSave /\ t.phase \in {"saved", "conflict", "refused"} => t.awaited
  BY <1>2, <1>3, <1>4
<1> HIDE DEF s
<1>8. \A j \in Slots : Awaited(e, j)' => Awaited(e, j)
  BY <1>1, <1>5, <1>6 DEF Awaited, s
<1> QED
  BY <1>5, <1>7, <1>8 DEF AnswersAreAwaited

\* An answer, or its loss, ends the wait.
LEMMA WaitsEnd ==
    ASSUME PatienceInv, NEW e \in Editors, NEW i \in Slots, SaveAnswers(e, i) \/ SaveIsLost(e, i)
    PROVE  /\ Awaited(e, i) /\ ~Awaited(e, i)'
           /\ fetch' = fetch
           /\ \A j \in Slots \ {i} : save'[e][j] = save[e][j]
           /\ save'[e][i] # NoSave => save'[e][i].phase \in {"sent", "checked"}
<1> DEFINE s == save[e][i]
<1>1. Awaited(e, i)
  BY DEF SaveAnswers, SaveIsLost, PatienceInv, AnswersAreAwaited, Awaited
<1>2. s \in SaveState
  BY <1>1 DEF PatienceInv, CurationTypeOK, Awaited
<1>3. PICK t : /\ save' = [save EXCEPT ![e][i] = t]
               /\ \/ t = NoSave
                  \/ t = [s EXCEPT !.awaited = FALSE] /\ s.phase \in {"sent", "checked"}
  BY DEF SaveAnswers, SaveIsLost, PatienceInv, CurationTypeOK
<1>4. t # NoSave => ~t.awaited /\ t.phase \in {"sent", "checked"}
  BY <1>2, <1>3 DEF SaveState
<1>5. save'[e][i] = t /\ \A j \in Slots \ {i} : save'[e][j] = save[e][j]
  BY <1>3, OneSaveChanges DEF PatienceInv
<1>6. fetch' = fetch
  BY DEF SaveAnswers, SaveIsLost
<1> HIDE DEF s
<1> QED
  BY <1>1, <1>4, <1>5, <1>6 DEF Awaited

\* The editor's own step keeps the draft and the answers due to it in order.
LEMMA StaysOn ==
    ASSUME PatienceInv, NEW e \in Patient, Acts(e)
    PROVE  Stays(e)'
<1>0. e \in Editors /\ CurationTypeOK /\ Stays(e)
  BY PatienceAssumption DEF PatienceInv, OneAnswerIsDue
<1>1. CASE Drafting(e)
  <2>1. PICK L, status : Edit(e, L, status)
    BY <1>1, DraftingIsEdit
  <2>2. IsReady(e) /\ fetch' = fetch /\ save' = save /\ \A i \in Slots : ~Awaited(e, i)
    BY <1>0, <2>1 DEF Edit, Stays
  <2> QED
    BY <1>0, <2>2 DEF Stays, Awaited
<1>2. CASE Show(e) \/ Retry(e) \/ (Reset(e) /\ ui[e].status = "conflict")
  <2>1. \A i \in Slots : ~Awaited(e, i)
    BY <1>0, <1>2 DEF Show, Retry, Reset, Stays, IsReady
  <2>2. save' = save /\ ui'[e] = LoadingView
    BY <1>0, <1>2 DEF Show, Retry, Reset, FetchWorkspace, CurationTypeOK
  <2> QED
    BY <2>1, <2>2 DEF Stays, Awaited, IsReady, LoadingView
<1>3. CASE FetchLoads(e)
  <2>1. ~IsReady(e) /\ ui' = ui /\ save' = save
    BY <1>0, <1>3 DEF FetchLoads, Stays, Sent, Idle
  <2> QED
    BY <1>0, <2>1 DEF Stays, Awaited, IsReady
<1>4. CASE FetchAnswers(e) \/ FetchFails(e)
  <2>1. fetch[e] # Idle
    BY <1>4 DEF FetchAnswers, FetchFails, Idle
  <2>2. fetch'[e] = Idle /\ save' = save
    BY <1>0, <1>4 DEF FetchAnswers, FetchFails, CurationTypeOK
  <2>3. \A i \in Slots : ~Awaited(e, i)
    BY <1>0, <2>1 DEF Stays
  <2> QED
    BY <2>2, <2>3 DEF Stays, Awaited
<1>5. CASE PressSave(e)
  <2>1. IsReady(e) /\ fetch' = fetch /\ \A i \in Slots : ~Awaited(e, i)
    BY <1>0, <1>5 DEF PressSave, Stays
  <2>2. CASE save' = save
    BY <1>0, <2>1, <2>2 DEF Stays, Awaited
  <2>3. CASE save' # save
    <3>1. PICK i \in Slots : \E s : save' = [save EXCEPT ![e][i] = s]
      BY <1>5, <2>3 DEF PressSave
    <3>2. \A j \in Slots : Awaited(e, j)' => j = i
      BY <1>0, <2>1, <3>1, OneSaveChanges DEF Awaited
    <3>3. ui' = [ui EXCEPT ![e].status = "saving"]
      BY <1>5, <2>3 DEF PressSave
    <3>4. ui[e] \in UiState /\ ui[e].kind = "ready"
      BY <1>0, <2>1 DEF CurationTypeOK, IsReady
    <3>5. ui'[e] = [ui[e] EXCEPT !.status = "saving"]
      BY <1>0, <3>3 DEF CurationTypeOK
    <3>6. IsReady(e)' /\ ui'[e].status = "saving"
      BY <3>4, <3>5 DEF UiState, IsReady
    <3> QED
      BY <1>0, <2>1, <3>2, <3>6 DEF Stays
  <2> QED
    BY <2>2, <2>3
<1>6. CASE Reset(e) /\ ui[e].status # "conflict"
  <2>1. IsReady(e) /\ fetch' = fetch /\ save' = save /\ \A i \in Slots : ~Awaited(e, i)
    BY <1>0, <1>6 DEF Reset, Stays
  <2> QED
    BY <1>0, <2>1 DEF Stays, Awaited
<1>7. ASSUME NEW i \in Slots, SaveChecks(e, i) \/ SaveCommits(e, i)
      PROVE  Stays(e)'
  <2>1. ui' = ui /\ fetch' = fetch
    BY <1>7 DEF SaveChecks, SaveCommits
  <2>2. \A j \in Slots : Awaited(e, j)' => Awaited(e, j)
    BY <1>0, <1>7, SavesGoOn DEF PatienceInv
  <2> QED
    BY <1>0, <2>1, <2>2 DEF Stays, IsReady
<1>8. ASSUME NEW i \in Slots, SaveAnswers(e, i) \/ SaveIsLost(e, i)
      PROVE  Stays(e)'
  <2>1. /\ Awaited(e, i) /\ ~Awaited(e, i)' /\ fetch' = fetch
        /\ \A j \in Slots \ {i} : save'[e][j] = save[e][j]
    BY <1>0, <1>8, WaitsEnd
  <2>2. \A j \in Slots : ~Awaited(e, j)'
    BY <1>0, <2>1 DEF Stays, Awaited
  <2> QED
    BY <1>0, <2>1, <2>2 DEF Stays
<1> QED
  BY <1>1, <1>2, <1>3, <1>4, <1>5, <1>6, <1>7, <1>8 DEF Acts

\* What became of a save is kept for those who wait.
LEMMA AnswersStayAwaited ==
    ASSUME PatienceInv, NEW e \in Editors, Acts(e)
    PROVE  \A j \in Slots :
              save'[e][j] # NoSave /\ save'[e][j].phase \in {"saved", "conflict", "refused"} =>
                  save'[e][j].awaited
<1>1. CASE save' = save
  BY <1>1 DEF PatienceInv, AnswersAreAwaited
<1>2. CASE PressSave(e) /\ save' # save
  <2> DEFINE s == [ phase |-> "sent", awaited |-> TRUE, revision |-> ui[e].revision,
                    listings |-> ui[e].listings, origin |-> ui[e].origin ]
  <2>1. PICK i \in Slots : save' = [save EXCEPT ![e][i] = s]
    BY <1>2 DEF PressSave
  <2>2. s.awaited
    OBVIOUS
  <2> HIDE DEF s
  <2>3. save'[e][i] = s /\ \A j \in Slots \ {i} : save'[e][j] = save[e][j]
    BY <2>1, OneSaveChanges DEF PatienceInv
  <2> QED
    BY <2>2, <2>3 DEF PatienceInv, AnswersAreAwaited
<1>3. ASSUME NEW i \in Slots, SaveChecks(e, i) \/ SaveCommits(e, i)
      PROVE  \A j \in Slots :
                save'[e][j] # NoSave /\ save'[e][j].phase \in {"saved", "conflict", "refused"} =>
                    save'[e][j].awaited
  BY <1>3, SavesGoOn DEF PatienceInv
<1>4. ASSUME NEW i \in Slots, SaveAnswers(e, i) \/ SaveIsLost(e, i)
      PROVE  \A j \in Slots :
                save'[e][j] # NoSave /\ save'[e][j].phase \in {"saved", "conflict", "refused"} =>
                    save'[e][j].awaited
  BY <1>4, WaitsEnd DEF PatienceInv, AnswersAreAwaited
<1>5. CASE Drafting(e)
  BY <1>1, <1>5, DraftingIsEdit DEF Edit
<1>6. CASE Show(e) \/ Retry(e) \/ FetchLoads(e) \/ FetchAnswers(e) \/ FetchFails(e) \/ Reset(e)
  BY <1>1, <1>6 DEF Show, Retry, FetchLoads, FetchAnswers, FetchFails, Reset
<1> QED
  BY <1>1, <1>2, <1>3, <1>4, <1>5, <1>6 DEF Acts

LEMMA PatienceIsKept == PatienceInv /\ [CurationNext]_cuvars => PatienceInv'
<1> SUFFICES ASSUME PatienceInv, [CurationNext]_cuvars
             PROVE  PatienceInv'
  OBVIOUS
<1>1. CurationTypeOK'
  BY TypesAreKept DEF PatienceInv
<1>2. CASE UNCHANGED cuvars
  BY <1>1, <1>2 DEF cuvars, PatienceInv, OneAnswerIsDue, Stays, AnswersAreAwaited, Awaited, IsReady
<1>3. ASSUME NEW x \in Editors, Acts(x)
      PROVE  PatienceInv'
  <2>1. ASSUME NEW e \in Editors, e # x
        PROVE  ui'[e] = ui[e] /\ fetch'[e] = fetch[e] /\ save'[e] = save[e]
    BY <1>3, <2>1, OthersAreLeft DEF PatienceInv
  <2>2. ASSUME NEW e \in Patient
        PROVE  Stays(e)'
    <3>1. e \in Editors /\ Stays(e)
      BY PatienceAssumption DEF PatienceInv, OneAnswerIsDue
    <3>2. CASE e = x
      BY <1>3, <3>2, StaysOn
    <3>3. CASE e # x
      BY <2>1, <3>1, <3>3 DEF Stays, Awaited, IsReady
    <3> QED
      BY <3>2, <3>3
  <2>3. AnswersAreAwaited'
    BY <1>3, <2>1, AnswersStayAwaited DEF PatienceInv, AnswersAreAwaited
  <2> QED
    BY <1>1, <2>2, <2>3 DEF PatienceInv, OneAnswerIsDue
<1> QED
  BY <1>2, <1>3 DEF CurationNext, Acts

LEMMA PatienceHolds == CurationSpec => []PatienceInv
<1>1. CurationInit => PatienceInv
  <2> SUFFICES ASSUME CurationInit
               PROVE  PatienceInv
    OBVIOUS
  <2>1. CurationTypeOK
    BY NothingIsCatalog, BoundAssumption DEF CurationInit, CurationTypeOK, Document, UiState, LoadingView
  <2> QED
    BY <2>1, PatienceAssumption
       DEF CurationInit, PatienceInv, OneAnswerIsDue, Stays, AnswersAreAwaited, Awaited, IsReady, LoadingView
<1> QED
  BY <1>1, PatienceIsKept, PTL DEF CurationSpec

\* Edits not yet saved are not replaced by the answer to an earlier request, if the editor stays in
\* the view until a save is answered, for any number of editors and saves (updateReady, _execute_save).
THEOREM AnswersKeepEdits == CurationSpec => EditsSurviveAnswers
<1> DEFINE Kept == \A e \in Patient :
                      IsReady(e) /\ ui[e].status \in {"dirty", "error", "conflict"} /\ Answered(e) =>
                          ui'[e].kind = "ready" /\ ui'[e].listings = ui[e].listings
<1>1. PatienceInv /\ [CurationNext]_cuvars => [Kept]_cuvars
  <2> SUFFICES ASSUME PatienceInv, CurationNext, NEW e \in Patient, IsReady(e),
                      ui[e].status \in {"dirty", "error", "conflict"}, Answered(e)
               PROVE  ui'[e].kind = "ready" /\ ui'[e].listings = ui[e].listings
    BY DEF cuvars
  <2>1. e \in Editors /\ CurationTypeOK /\ ui[e].kind = "ready"
    BY PatienceAssumption DEF PatienceInv, IsReady
  <2>2. fetch[e] = Idle /\ (\A i \in Slots : ~Awaited(e, i)) /\ save'[e] # save[e]
    BY DEF PatienceInv, OneAnswerIsDue, Stays, Answered
  <2>3. PICK x \in Editors : Acts(x)
    BY DEF CurationNext, Acts
  <2>4. x = e
    BY <2>1, <2>2, <2>3, OthersAreLeft
  <2>5. ~Drafting(e)
    BY <2>2, DraftingIsEdit DEF Edit
  <2>6. ~(Show(e) \/ Retry(e) \/ FetchLoads(e) \/ FetchAnswers(e) \/ FetchFails(e) \/ Reset(e))
    BY <2>2 DEF Show, Retry, FetchLoads, FetchAnswers, FetchFails, Reset
  <2>7. \A i \in Slots : ~SaveAnswers(e, i) /\ ~SaveIsLost(e, i)
    BY <2>1, <2>2, WaitsEnd
  <2>8. CASE PressSave(e)
    <3>1. \E status : ui' = [ui EXCEPT ![e].status = status]
      BY <2>8 DEF PressSave
    <3>2. ui[e] \in UiState
      BY <2>1 DEF CurationTypeOK
    <3> QED
      BY <2>1, <3>1, <3>2 DEF CurationTypeOK, UiState
  <2>9. CASE \E i \in Slots : SaveChecks(e, i) \/ SaveCommits(e, i)
    BY <2>1, <2>9 DEF SaveChecks, SaveCommits
  <2> QED
    BY <2>3, <2>4, <2>5, <2>6, <2>7, <2>8, <2>9 DEF Acts
<1> QED
  BY <1>1, PatienceHolds, PTL DEF CurationSpec, EditsSurviveAnswers

-----------------------------------------------------------------------------
(* A conflict is one with a newer document *)

\* The save that a patient editor waits for was of the draft as it is shown, and its conflict, like one
\* already told, is with a newer document.
ConflictIsReal(e) ==
    /\ IsReady(e) /\ ui[e].status = "conflict" => ui[e].revision < document.revision
    /\ \A i \in Slots : Awaited(e, i) =>
          /\ save[e][i].revision = ui[e].revision
          /\ save[e][i].phase = "conflict" => save[e][i].revision < document.revision

ConflictsAreReal == \A e \in Patient : ConflictIsReal(e)

\* The document only grows.
LEMMA DocumentGrows ==
    ASSUME CurationTypeOK, NEW e \in Editors, Acts(e)
    PROVE  document.revision \in Nat /\ document'.revision \in Nat /\ document.revision <= document'.revision
<1>1. document.revision \in Nat
  BY DEF CurationTypeOK, Document
<1>2. CASE document' = document
  BY <1>1, <1>2
<1>3. ASSUME NEW i \in Slots, SaveCommits(e, i)
      PROVE  document' = document \/ document'.revision = document.revision + 1
  BY <1>3 DEF SaveCommits, Replaceable
<1>4. CASE Drafting(e)
  BY <1>2, <1>4, DraftingIsEdit DEF Edit
<1>5. CASE \/ Show(e) \/ Retry(e) \/ FetchLoads(e) \/ FetchAnswers(e) \/ FetchFails(e)
           \/ PressSave(e) \/ Reset(e)
  BY <1>2, <1>5 DEF Show, Retry, FetchLoads, FetchAnswers, FetchFails, PressSave, Reset
<1>6. ASSUME NEW i \in Slots, SaveChecks(e, i) \/ SaveAnswers(e, i) \/ SaveIsLost(e, i)
      PROVE  document' = document
  BY <1>6 DEF SaveChecks, SaveAnswers, SaveIsLost
<1>7. CASE \E i \in Slots : SaveCommits(e, i)
  BY <1>1, <1>2, <1>3, <1>7
<1> QED
  BY <1>2, <1>4, <1>5, <1>6, <1>7 DEF Acts

\* What holds for an editor who sees no change goes on to hold.
LEMMA ConflictsStayReal ==
    ASSUME CurationTypeOK, NEW e \in Editors, ConflictIsReal(e), NEW x \in Editors, Acts(x),
           ui'[e] = ui[e], save'[e] = save[e]
    PROVE  ConflictIsReal(e)'
<1>1. document.revision \in Nat /\ document'.revision \in Nat /\ document.revision <= document'.revision
  BY DocumentGrows
<1>2. IsReady(e) => ui[e].revision \in Nat
  BY DEF CurationTypeOK, UiState, IsReady
<1>3. \A i \in Slots : Awaited(e, i) => save[e][i].revision \in Nat
  BY DEF CurationTypeOK, SaveState, Awaited
<1> QED
  BY <1>1, <1>2, <1>3 DEF ConflictIsReal, IsReady, Awaited

\* A commit that finds another revision finds a newer one.
LEMMA CommitConflictIsReal ==
    ASSUME RevisionsFit, PatienceInv, NEW e \in Editors, NEW i \in Slots,
           SaveChecks(e, i) \/ SaveCommits(e, i), ConflictIsReal(e)
    PROVE  ConflictIsReal(e)'
<1> DEFINE s == save[e][i]
<1>1. /\ CurationTypeOK /\ AnswersAreAwaited /\ ui' = ui
      /\ s \in SaveState /\ s # NoSave /\ SaveFits(document, s)
  BY DEF RevisionsFit, PatienceInv, SavesFit, CurationTypeOK, SaveChecks, SaveCommits
<1>2. document.revision \in Nat /\ document'.revision \in Nat /\ document.revision <= document'.revision
  BY <1>1, DocumentGrows DEF Acts
<1>3. PICK t : /\ save' = [save EXCEPT ![e][i] = t]
               /\ \/ t = [s EXCEPT !.phase = "checked"]
                  \/ \E phase \in {"saved", "refused"} : t = Ends(s, phase)
                  \/ t = Ends(s, "conflict") /\ s.revision # document.revision
  BY DEF SaveChecks, SaveCommits, Replaceable
<1>4. save'[e][i] = t /\ \A j \in Slots \ {i} : save'[e][j] = save[e][j]
  BY <1>1, <1>3, OneSaveChanges
<1>5. t # NoSave => t.revision = s.revision /\ (t.awaited => s.awaited)
  BY <1>1, <1>3 DEF Ends, SaveState
<1>6. t # NoSave /\ t.phase = "conflict" => s.revision < document.revision
  <2>1. s.revision \in Nat /\ s.revision <= document.revision
    BY <1>1 DEF SaveFits, Fits, SaveState
  <2>2. t = [s EXCEPT !.phase = "checked"] => t.phase = "checked"
    BY <1>1 DEF SaveState
  <2>3. \A phase \in {"saved", "refused"} : t = Ends(s, phase) => t = NoSave \/ t.phase = phase
    BY <1>1 DEF Ends, SaveState
  <2> QED
    BY <1>2, <1>3, <2>1, <2>2, <2>3
<1>7. \A j \in Slots : Awaited(e, j)' =>
         /\ Awaited(e, j) /\ save'[e][j].revision = save[e][j].revision
         /\ save'[e][j].phase = "conflict" => save[e][j].revision < document.revision
  <2> SUFFICES ASSUME NEW j \in Slots, Awaited(e, j)'
               PROVE  /\ Awaited(e, j) /\ save'[e][j].revision = save[e][j].revision
                      /\ save'[e][j].phase = "conflict" => save[e][j].revision < document.revision
    OBVIOUS
  <2> HIDE DEF s
  <2>1. CASE j = i
    BY <1>1, <1>4, <1>5, <1>6, <2>1 DEF Awaited, s
  <2>2. CASE j # i
    BY <1>4, <2>2 DEF Awaited, ConflictIsReal
  <2> QED
    BY <2>1, <2>2
<1>8. IsReady(e) => ui[e].revision \in Nat
  BY <1>1 DEF CurationTypeOK, UiState, IsReady
<1>9. \A j \in Slots : Awaited(e, j) => save[e][j].revision \in Nat
  BY <1>1 DEF CurationTypeOK, SaveState, Awaited
<1> QED
  BY <1>1, <1>2, <1>7, <1>8, <1>9 DEF ConflictIsReal, IsReady

\* The answer is told on the draft that was saved.
LEMMA AnswerConflictIsReal ==
    ASSUME PatienceInv, NEW e \in Patient, NEW i \in Slots, SaveAnswers(e, i) \/ SaveIsLost(e, i),
           ConflictIsReal(e)
    PROVE  ConflictIsReal(e)'
<1>1. /\ e \in Editors /\ Stays(e) /\ CurationTypeOK /\ Awaited(e, i) /\ ~Awaited(e, i)'
      /\ \A j \in Slots \ {i} : save'[e][j] = save[e][j]
  BY PatienceAssumption, WaitsEnd DEF PatienceInv, OneAnswerIsDue
<1>2. \A j \in Slots : ~Awaited(e, j)'
  BY <1>1 DEF Stays, Awaited
<1>3. document' = document /\ IsReady(e) /\ ui[e] \in UiState
  BY <1>1 DEF SaveAnswers, SaveIsLost, Stays, CurationTypeOK
<1>4. ASSUME NEW status \in {"error", "conflict"}, Tell(e, status)
      PROVE  ui'[e].status = status /\ ui'[e].revision = ui[e].revision
  BY <1>1, <1>3, <1>4 DEF Tell, CurationTypeOK, UiState, IsReady
<1>5. IsReady(e)' /\ ui'[e].status = "conflict" => ui'[e].revision < document.revision
  <2>1. CASE Tell(e, "error")
    BY <1>4, <2>1
  <2>2. CASE SaveAnswers(e, i) /\ save[e][i].phase = "conflict"
    <3>1. save[e][i].revision = ui[e].revision /\ ui[e].revision < document.revision
      BY <1>1, <2>2 DEF ConflictIsReal
    <3> QED
      BY <1>4, <2>2, <3>1 DEF SaveAnswers
  <2>3. CASE SaveAnswers(e, i) /\ save[e][i].phase = "saved"
    <3>1. \E d, r : ui' = [ui EXCEPT ![e] = Mapped(d, r, "saved")]
      BY <2>3 DEF SaveAnswers
    <3>2. \A d, r : Mapped(d, r, "saved").kind = "ready" => Mapped(d, r, "saved").status = "saved"
      BY DEF Mapped
    <3> QED
      BY <1>1, <3>1, <3>2 DEF CurationTypeOK, IsReady
  <2> QED
    BY <2>1, <2>2, <2>3 DEF SaveAnswers, SaveIsLost
<1> QED
  BY <1>2, <1>3, <1>5 DEF ConflictIsReal

\* What the editor does shows no conflict, and saves the draft as it is shown.
LEMMA ViewConflictIsReal ==
    ASSUME PatienceInv, NEW e \in Patient, ConflictIsReal(e),
           \/ Drafting(e) \/ Show(e) \/ Retry(e) \/ FetchLoads(e) \/ FetchAnswers(e) \/ FetchFails(e)
           \/ PressSave(e) \/ Reset(e)
    PROVE  ConflictIsReal(e)'
<1>1. e \in Editors /\ Stays(e) /\ CurationTypeOK /\ Acts(e)
  BY PatienceAssumption DEF PatienceInv, OneAnswerIsDue, Acts
<1>2. CASE ui'[e] = ui[e] /\ save' = save
  BY <1>1, <1>2, ConflictsStayReal
<1>3. ASSUME \A i \in Slots : ~Awaited(e, i), save' = save, IsReady(e)' => ui'[e].status # "conflict"
      PROVE  ConflictIsReal(e)'
  BY <1>3 DEF ConflictIsReal, Awaited
<1>4. ui[e].kind = "ready" => ui[e] \in UiState
  BY <1>1 DEF CurationTypeOK
<1>5. CASE Drafting(e)
  <2>1. PICK L, status : status \in {"dirty", "error"} /\ Edit(e, L, status)
    BY <1>5, DraftingIsEdit
  <2>2. \A i \in Slots : ~Awaited(e, i)
    BY <1>1, <2>1 DEF Edit, Stays
  <2>3. ui'[e].status = status
    BY <1>1, <1>4, <2>1 DEF Edit, IsReady, CurationTypeOK, UiState
  <2> QED
    BY <1>3, <2>1, <2>2, <2>3 DEF Edit
<1>6. CASE Show(e) \/ Retry(e) \/ (Reset(e) /\ ui[e].status = "conflict")
  <2>1. \A i \in Slots : ~Awaited(e, i)
    BY <1>1, <1>6 DEF Show, Retry, Reset, Stays, IsReady
  <2>2. save' = save /\ ui'[e] = LoadingView
    BY <1>1, <1>6 DEF Show, Retry, Reset, FetchWorkspace, CurationTypeOK
  <2> QED
    BY <1>3, <2>1, <2>2 DEF IsReady, LoadingView
<1>7. CASE FetchLoads(e)
  BY <1>2, <1>7 DEF FetchLoads
<1>8. CASE FetchAnswers(e) \/ FetchFails(e)
  <2>1. fetch[e] # Idle
    BY <1>8 DEF FetchAnswers, FetchFails, Idle
  <2>2. (\A i \in Slots : ~Awaited(e, i)) /\ save' = save
    BY <1>1, <1>8, <2>1 DEF Stays, FetchAnswers, FetchFails
  <2>3. ui'[e] = FailedView \/ \E d, r : ui'[e] = Mapped(d, r, "clean")
    BY <1>1, <1>8 DEF FetchAnswers, FetchFails, CurationTypeOK
  <2>4. \A d, r : Mapped(d, r, "clean").kind = "ready" => Mapped(d, r, "clean").status = "clean"
    BY DEF Mapped
  <2> QED
    BY <1>3, <2>2, <2>3, <2>4 DEF IsReady, FailedView
<1>9. CASE Reset(e) /\ ui[e].status # "conflict"
  <2>1. (\A i \in Slots : ~Awaited(e, i)) /\ save' = save /\ IsReady(e)
    BY <1>1, <1>9 DEF Reset, Stays
  <2>2. ui'[e].status = "clean"
    BY <1>1, <1>4, <1>9, <2>1 DEF Reset, IsReady, CurationTypeOK, UiState
  <2> QED
    BY <1>3, <2>1, <2>2
<1>10. CASE PressSave(e)
  <2>1. IsReady(e) /\ document' = document /\ \A i \in Slots : ~Awaited(e, i)
    BY <1>1, <1>10 DEF PressSave, Stays
  <2>2. \E status \in {"saving", "error"} : ui' = [ui EXCEPT ![e].status = status]
    BY <1>10 DEF PressSave
  <2>3. ui'[e].status \in {"saving", "error"} /\ ui'[e].revision = ui[e].revision
    BY <1>1, <1>4, <2>1, <2>2 DEF IsReady, CurationTypeOK, UiState
  <2>4. CASE save' = save
    BY <1>3, <2>1, <2>3, <2>4
  <2>5. CASE save' # save
    <3> DEFINE s == [ phase |-> "sent", awaited |-> TRUE, revision |-> ui[e].revision,
                      listings |-> ui[e].listings, origin |-> ui[e].origin ]
    <3>1. PICK i \in Slots : save' = [save EXCEPT ![e][i] = s]
      BY <1>10, <2>5 DEF PressSave
    <3>2. s.phase = "sent" /\ s.revision = ui[e].revision
      OBVIOUS
    <3> HIDE DEF s
    <3>3. save'[e][i] = s /\ \A j \in Slots \ {i} : save'[e][j] = save[e][j]
      BY <1>1, <3>1, OneSaveChanges
    <3>4. \A j \in Slots : Awaited(e, j)' => j = i
      BY <2>1, <3>3 DEF Awaited
    <3> QED
      BY <2>3, <3>2, <3>3, <3>4 DEF ConflictIsReal
  <2> QED
    BY <2>4, <2>5
<1> QED
  BY <1>5, <1>6, <1>7, <1>8, <1>9, <1>10

\* A patient editor who is told of a conflict has started from a document that was replaced, for any
\* number of editors, saves, failures and lost answers (CatalogCurationConflict).
THEOREM ConflictsAreOfReplacedDocuments == CurationSpec => []ConflictMeansReplaced
<1>1. CurationInit => ConflictsAreReal
  BY PatienceAssumption DEF CurationInit, ConflictsAreReal, ConflictIsReal, IsReady, Awaited, LoadingView
<1>2. RevisionsFit /\ PatienceInv /\ ConflictsAreReal /\ [CurationNext]_cuvars => ConflictsAreReal'
  <2> SUFFICES ASSUME RevisionsFit, PatienceInv, ConflictsAreReal, [CurationNext]_cuvars, NEW e \in Patient
               PROVE  ConflictIsReal(e)'
    BY DEF ConflictsAreReal
  <2>1. e \in Editors /\ ConflictIsReal(e) /\ CurationTypeOK
    BY PatienceAssumption DEF ConflictsAreReal, PatienceInv
  <2>2. CASE UNCHANGED cuvars
    BY <2>1, <2>2 DEF cuvars, ConflictIsReal, IsReady, Awaited
  <2>3. ASSUME NEW x \in Editors, Acts(x)
        PROVE  ConflictIsReal(e)'
    <3>1. CASE x # e
      <4>1. ui'[e] = ui[e] /\ save'[e] = save[e]
        BY <2>1, <2>3, <3>1, OthersAreLeft
      <4> QED
        BY <2>1, <2>3, <4>1, ConflictsStayReal
    <3>2. CASE x = e
      BY <2>1, <2>3, <3>2, CommitConflictIsReal, AnswerConflictIsReal, ViewConflictIsReal DEF Acts
    <3> QED
      BY <3>1, <3>2
  <2> QED
    BY <2>2, <2>3 DEF CurationNext, Acts
<1>3. ConflictsAreReal => ConflictMeansReplaced
  BY DEF ConflictsAreReal, ConflictIsReal, ConflictMeansReplaced
<1> QED
  BY <1>1, <1>2, <1>3, RevisionsAreFit, PatienceHolds, PTL DEF CurationSpec
=============================================================================
