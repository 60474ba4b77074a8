--------------------------- MODULE CatalogCuration ---------------------------
(***************************************************************************)
(* The seller catalog: one versioned document that admins edit in their    *)
(* browsers (admin/src/catalog-curation-state.ts) and save through         *)
(* CatalogCurationService.  A step is the code between two awaits; a       *)
(* repository call is a transaction.  Names, texts and prices are left     *)
(* out: a listing is its order, the supplier offers behind it, and whether *)
(* it is hidden, visible, or lacks what validateDraft asks of it (a text,  *)
(* or the price of a visible listing).                                     *)
(***************************************************************************)
EXTENDS Naturals, FiniteSets

CONSTANTS
    Editors,       \* browser tabs of the admin application
    Patient,       \* those who do not leave the view before a save is answered
    ListingIds,
    Contents,      \* what a listing shows; "incomplete" fails validateDraft
    Offers,
    MaxRevision,   \* bound: an editor at this revision saves no more
    MaxInFlight,   \* bound: saves of one editor whose answer is on the way
    NoSave

ASSUME PatienceAssumption == Patient \subseteq Editors
ASSUME ListingsAssumption == IsFiniteSet(ListingIds) /\ {"hidden"} \subseteq Contents
ASSUME BoundAssumption == MaxRevision \in Nat /\ MaxInFlight \in Nat

NoListings == [id \in {} |-> NoSave]
Slots   == 1 .. MaxInFlight

Linked(L) == UNION {L[id].offers : id \in DOMAIN L}

\* A draft keeps what it was mapped from as origin: baseline.current, while it is shown.
VARIABLES
    document,   \* catalog_curation_documents; revision 0 is no row
    ui,         \* each editor: CatalogCurationState
    fetch,      \* each editor: the fetch it waits for and the document loaded for it
    save        \* each editor: its saves from request to answer and what they started from

cuvars == <<document, ui, fetch, save>>

\* _read_products: which offers have a product at the moment, and whether a source
\* failed to answer; sources fail on their own and may leave products out.
Reads == [seen : SUBSET Offers, failed : BOOLEAN]

-----------------------------------------------------------------------------
(* The admin application *)

\* mapWorkspace(_workspace_from(document, products))
Mapped(d, r, status) ==
    IF d.listings = NoListings /\ r.seen = {} /\ ~r.failed
    THEN [kind |-> "empty"]
    ELSE [ kind |-> "ready", revision |-> d.revision, listings |-> d.listings,
           offers |-> r.seen, status |-> status, origin |-> d.listings ]

LoadingView == [kind |-> "loading"]
FailedView  == [kind |-> "error"]
Idle    == [at |-> "idle"]
Sent    == [at |-> "sent"]

IsReady(e)  == ui[e].kind = "ready"
Awaited(e, i) == save[e][i] # NoSave /\ save[e][i].awaited

\* The effect of useCatalogCurationState: an older fetch is aborted.
FetchWorkspace(e) ==
    /\ ui' = [ui EXCEPT ![e] = LoadingView]
    /\ fetch' = [fetch EXCEPT ![e] = Sent]

\* The editor opens the view, or comes back to it: the time away is no state of its own,
\* as an answer that comes then might have come before.
Show(e) ==
    /\ e \in Patient => \A i \in Slots : ~Awaited(e, i)
    /\ FetchWorkspace(e)
    /\ UNCHANGED <<document, save>>

Retry(e) ==
    /\ ui[e].kind = "error"
    /\ FetchWorkspace(e)
    /\ UNCHANGED <<document, save>>

\* get_workspace: the document, then the suppliers, whose answer goes to the browser.
FetchLoads(e) ==
    /\ fetch[e] = Sent
    /\ fetch' = [fetch EXCEPT ![e] = [at |-> "loaded", document |-> document]]
    /\ UNCHANGED <<document, ui, save>>

FetchAnswers(e) ==
    /\ fetch[e].at = "loaded"
    /\ \E r \in Reads : ui' = [ui EXCEPT ![e] = Mapped(fetch[e].document, r, "clean")]
    /\ fetch' = [fetch EXCEPT ![e] = Idle]
    /\ UNCHANGED <<document, save>>

FetchFails(e) ==
    /\ fetch[e] # Idle
    /\ ui' = [ui EXCEPT ![e] = FailedView]
    /\ fetch' = [fetch EXCEPT ![e] = Idle]
    /\ UNCHANGED <<document, save>>

\* Mutants: an edit while the draft is being saved, an edit that leaves no mark.
EditWhileSaving(e, L, status) ==
    /\ IsReady(e)
    /\ ui' = [ui EXCEPT ![e].listings = L, ![e].status = "dirty"]
    /\ UNCHANGED <<document, fetch, save>>

EditUnmarked(e, L, status) ==
    /\ IsReady(e) /\ ui[e].status # "saving"
    /\ ui' = [ui EXCEPT ![e].listings = L]
    /\ UNCHANGED <<document, fetch, save>>

\* One edit, by an editor who looks at a draft that is not being saved (updateReady).
Edit(e, L, status) ==
    /\ IsReady(e) /\ ui[e].status # "saving"
    /\ ui' = [ui EXCEPT ![e].listings = L, ![e].status = status]
    /\ UNCHANGED <<document, fetch, save>>

Free(e)  == ui[e].offers \ Linked(ui[e].listings)
Fresh(L, o) == [order |-> Cardinality(DOMAIN L), content |-> "hidden", offers |-> {o}]

Renumbered(L) ==
    [id \in DOMAIN L |->
        [L[id] EXCEPT !.order = Cardinality({x \in DOMAIN L : L[x].order < L[id].order})]]

CreateListing(e, o, id) ==
    LET L == ui[e].listings
    IN  /\ IsReady(e) /\ o \in Free(e) /\ id \notin DOMAIN L
        /\ Edit(e, [x \in DOMAIN L \cup {id} |-> IF x = id THEN Fresh(L, o) ELSE L[x]], "dirty")

AssignOffer(e, o, id) ==
    LET L == ui[e].listings
    IN  /\ IsReady(e) /\ o \in Free(e) /\ id \in DOMAIN L
        /\ Edit(e, [L EXCEPT ![id].offers = @ \cup {o}], "dirty")

\* The last offer of a listing stays.
UnassignOffer(e, o, id) ==
    LET L == ui[e].listings
    IN  /\ IsReady(e) /\ o \in ui[e].offers
        /\ id \in DOMAIN L /\ o \in L[id].offers
        /\ IF L[id].offers = {o} THEN Edit(e, L, "error")
           ELSE Edit(e, [L EXCEPT ![id].offers = @ \ {o}], "dirty")

UpdateListing(e, id) ==
    LET L == ui[e].listings
    IN  /\ IsReady(e) /\ id \in DOMAIN L
        /\ \E c \in Contents : Edit(e, [L EXCEPT ![id].content = c], "dirty")

\* Two neighbours change places.
MoveListing(e, id, other) ==
    LET L == ui[e].listings
    IN  /\ IsReady(e) /\ id \in DOMAIN L /\ other \in DOMAIN L
        /\ L[other].order = L[id].order + 1
        /\ Edit(e, Renumbered([L EXCEPT ![id].order = L[other].order,
                                        ![other].order = L[id].order]), "dirty")

DeleteListing(e, id) ==
    LET L == ui[e].listings
    IN  /\ IsReady(e) /\ id \in DOMAIN L
        /\ Edit(e, Renumbered([x \in DOMAIN L \ {id} |-> L[x]]), "dirty")

\* validateDraft
Shaped(L) ==
    /\ \A id \in DOMAIN L : L[id].offers # {} /\ L[id].content # "incomplete"
    /\ \A id, x \in DOMAIN L : id # x => L[id].offers \cap L[x].offers = {}

PressSave(e) ==
    /\ IsReady(e) /\ ui[e].status \in {"dirty", "error"}
    /\ ui[e].revision < MaxRevision
    /\ IF Shaped(ui[e].listings)
       THEN \E i \in Slots :
              /\ save[e][i] = NoSave
              /\ save' = [save EXCEPT ![e][i] =
                            [ phase |-> "sent", awaited |-> TRUE, revision |-> ui[e].revision,
                              listings |-> ui[e].listings, origin |-> ui[e].origin ]]
              /\ ui' = [ui EXCEPT ![e].status = "saving"]
       ELSE ui' = [ui EXCEPT ![e].status = "error"] /\ save' = save
    /\ UNCHANGED <<document, fetch>>

\* Undo: after a conflict the document is fetched again.
Reset(e) ==
    /\ IsReady(e)
    /\ \/ ui[e].status = "conflict" /\ FetchWorkspace(e)
       \/ /\ ui[e].status \in {"dirty", "error"}
          /\ ui' = [ui EXCEPT ![e].listings = ui[e].origin, ![e].status = "clean"]
          /\ fetch' = fetch
    /\ UNCHANGED <<document, save>>

-----------------------------------------------------------------------------
(* save_workspace *)

\* CatalogCurationSaveRequest
WellFormed(L) ==
    /\ Shaped(L)
    /\ \A id, x \in DOMAIN L : id # x => L[id].order # L[x].order

\* Whatever becomes of a save nobody waits for any more.
Ends(s, phase) == IF s.awaited THEN [s EXCEPT !.phase = phase] ELSE NoSave

\* The suppliers are read before the document is touched.
SaveChecks(e, i) ==
    LET s == save[e][i]
    IN  /\ s # NoSave /\ s.phase = "sent"
        /\ \E r \in Reads :
              save' = [save EXCEPT ![e][i] =
                 IF WellFormed(s.listings) /\ Linked(s.listings) \subseteq r.seen
                 THEN [s EXCEPT !.phase = "checked"] ELSE Ends(s, "refused")]
        /\ UNCHANGED <<document, ui, fetch>>

\* Mutant: the first revision is upserted.
ReplaceableFirst(revision) == revision = 0 \/ document.revision = revision

\* Insert of the first revision, update of a later one.
Replaceable(revision) == document.revision = revision

SaveCommits(e, i) ==
    LET s == save[e][i]
    IN  /\ s # NoSave /\ s.phase = "checked"
        /\ IF Replaceable(s.revision)
           THEN /\ document' = [revision |-> s.revision + 1, listings |-> s.listings]
                /\ save' = [save EXCEPT ![e][i] = Ends(s, "saved")]
           ELSE /\ save' = [save EXCEPT ![e][i] = Ends(s, "conflict")]
                /\ UNCHANGED document
        /\ UNCHANGED <<ui, fetch>>

Tell(e, status) == ui' = [ui EXCEPT ![e] = IF IsReady(e) THEN [@ EXCEPT !.status = status] ELSE @]

\* The browser hears of it, whatever it shows meanwhile.
SaveAnswers(e, i) ==
    LET s == save[e][i]
    IN  /\ s # NoSave /\ s.phase \in {"saved", "conflict", "refused"}
        /\ save' = [save EXCEPT ![e][i] = NoSave]
        /\ IF s.phase = "saved"
           THEN \E r \in Reads :
                   /\ Linked(s.listings) \subseteq r.seen
                   /\ ui' = [ui EXCEPT ![e] = Mapped([revision |-> s.revision + 1, listings |-> s.listings],
                                                    r, "saved")]
           ELSE Tell(e, IF s.phase = "conflict" THEN "conflict" ELSE "error")
        /\ UNCHANGED <<document, fetch>>

\* The database or the connection fails; the server may go on, or not.
SaveIsLost(e, i) ==
    /\ Awaited(e, i)
    /\ Tell(e, "error")
    /\ \/ save' = [save EXCEPT ![e][i] = NoSave]
       \/ /\ save[e][i].phase \in {"sent", "checked"}
          /\ save' = [save EXCEPT ![e][i].awaited = FALSE]
    /\ UNCHANGED <<document, fetch>>

CurationInit ==
    /\ document = [revision |-> 0, listings |-> NoListings]
    /\ ui = [e \in Editors |-> LoadingView]
    /\ fetch = [e \in Editors |-> Idle]
    /\ save = [e \in Editors |-> [i \in Slots |-> NoSave]]

Drafting(e) ==
    \/ \E o \in Offers, id \in ListingIds :
          CreateListing(e, o, id) \/ AssignOffer(e, o, id) \/ UnassignOffer(e, o, id)
    \/ \E id \in ListingIds :
          UpdateListing(e, id) \/ DeleteListing(e, id) \/ \E x \in ListingIds : MoveListing(e, id, x)

CurationNext ==
    \E e \in Editors :
        \/ Show(e) \/ Retry(e)
        \/ FetchLoads(e) \/ FetchAnswers(e) \/ FetchFails(e)
        \/ Drafting(e) \/ PressSave(e) \/ Reset(e)
        \/ \E i \in Slots : SaveChecks(e, i) \/ SaveCommits(e, i) \/ SaveAnswers(e, i) \/ SaveIsLost(e, i)

CurationSpec == CurationInit /\ [][CurationNext]_cuvars

-----------------------------------------------------------------------------

Listing    == [order : 0 .. Cardinality(ListingIds), content : Contents, offers : SUBSET Offers]
ListingSet == UNION {[ids -> Listing] : ids \in SUBSET ListingIds}
Document   == [revision : 0 .. MaxRevision, listings : ListingSet]

UiState ==
    [kind : {"loading", "error", "empty"}]
    \cup [ kind : {"ready"}, revision : 0 .. MaxRevision, listings : ListingSet,
           offers : SUBSET Offers, origin : ListingSet,
           status : {"clean", "dirty", "saving", "saved", "error", "conflict"} ]

SaveState ==
    [ phase : {"sent", "checked", "saved", "conflict", "refused"}, awaited : BOOLEAN,
      revision : 0 .. MaxRevision - 1, listings : ListingSet, origin : ListingSet ]

\* The document, the editors and the requests on the way are well-formed: no revision is
\* ahead of those that were ever published.
CurationTypeOK ==
    /\ document \in Document
    /\ ui \in [Editors -> UiState]
    /\ fetch \in [Editors -> {Idle, Sent} \cup [at : {"loaded"}, document : Document]]
    /\ save \in [Editors -> [Slots -> SaveState \cup {NoSave}]]

\* "a stale revision returns 409" (docs/contracts/catalog-curation.md): whoever replaces
\* the document had started from the very listings that are replaced, whatever order
\* saves, fetches, undos and lost answers came in.
NoUpdateIsLost ==
    [][\A e \in Editors, i \in Slots :
          document' # document /\ save'[e][i] # save[e][i] =>
              save[e][i].origin = document.listings]_cuvars

\* A draft shown as synchronised or saved is the document, until another is published.
SyncedMeansPublished ==
    \A e \in Editors :
        IsReady(e) =>
            /\ ui[e].revision <= document.revision
            /\ ui[e].status \in {"clean", "saved"} /\ ui[e].revision = document.revision =>
                   ui[e].listings = document.listings

\* Edits not yet saved are not replaced by the answer to an earlier request, if the
\* editor stays in the view until a save is answered.
Answered(e) ==
    \/ save'[e] # save[e]
    \/ fetch[e] # Idle /\ fetch'[e] = Idle

EditsSurviveAnswers ==
    [][\A e \in Patient :
          IsReady(e) /\ ui[e].status \in {"dirty", "error", "conflict"} /\ Answered(e) =>
              ui'[e].kind = "ready" /\ ui'[e].listings = ui[e].listings]_cuvars

\* "The catalog has changed, undo to load the new one" (the message of a conflict) is true:
\* who reads it, and has not left the view meanwhile, has started from a document that was
\* replaced, be it by a save of their own whose answer was lost.
ConflictMeansReplaced ==
    \A e \in Patient :
        IsReady(e) /\ ui[e].status = "conflict" => ui[e].revision < document.revision
=============================================================================
