----------------------------- MODULE CatalogView ------------------------------
(***************************************************************************)
(* The read-only half of the admin page: useCatalogState                   *)
(* (admin/src/catalog-state.ts), the dashboard that shows it and the theme *)
(* (theme.ts).  Two effects of one hook fetch the list of sources and the  *)
(* catalog of the selected one; React runs an effect's cleanup, which      *)
(* aborts its fetch, some time after the state change that made it stale,  *)
(* so an answer may come in between.                                       *)
(***************************************************************************)
EXTENDS Integers, FiniteSets

CONSTANTS
    Suppliers,      \* the live sources a server may be configured with
    MaxClicks,      \* bound on the clicks that start a read
    NoSource

ASSUME ViewAssumption == NoSource \notin Suppliers \cup {"all"} /\ MaxClicks \in Nat

VARIABLES
    version, offered, aggregate, selected,  \* requestVersion, sources, aggregateAvailable,
                    \*   selectedSource
    catalog,        \* its panel: [kind, of, retry]; retry: the panel has a button for it
    supplier,       \* the other panel: [kind, of]
    listed, shown,  \* what each effect last ran for: a version, a [version, source]
    reads,          \* fetches on their way: [what, version, of, aborted]
    clicks,         \* retries, selections and reloads so far
    theme, saved    \* the theme on the page and in localStorage

panels == <<catalog, supplier>>
choice == <<offered, aggregate, selected>>
hook   == <<version, choice, panels, listed, shown, reads, clicks>>
look   == <<theme, saved>>
vvars  == <<hook, look>>

Selections == Suppliers \cup {"all"}
Themes     == {"light", "dark"}

Loading  == [kind |-> "loading", of |-> NoSource, retry |-> FALSE]
Failed   == [kind |-> "error", of |-> NoSource, retry |-> TRUE]
Reading  == [kind |-> "loading", of |-> NoSource]
NotReady == [kind |-> "error", of |-> NoSource]

-----------------------------------------------------------------------------
(* What the server answers and what the page makes of it *)

\* catalog/sources: at least one source, and "all" exactly when both are live.
Listings == (SUBSET Suppliers) \ {{}}
Aggregates(listing) == listing = Suppliers /\ Cardinality(listing) > 1

\* A catalog response as far as the panel tells them apart.
Responses == [state : {"fresh", "empty"}, retryable : {FALSE}]
        \cup [state : {"stale", "error"}, retryable : BOOLEAN]

\* mapCatalogState, and the conditions under which AdminDashboard draws a retry button.
mapCatalogState(source, response) ==
    CASE response.state = "error" ->
            [kind |-> "error", of |-> source, retry |-> response.retryable]
      [] response.state = "empty" ->
            [kind |-> "empty", of |-> source, retry |-> FALSE]
      [] OTHER ->
            [kind |-> "success", of |-> source, retry |-> response.retryable]

\* The retry buttons AdminDashboard draws: on an error or a warning that may go away, and
\* on every error of the supplier panel.
CatalogRetry  == catalog.retry
SupplierRetry == supplier.kind = "error"
RetryOffered  == CatalogRetry \/ SupplierRetry

\* The source a new listing leaves selected: the old one while it is still on offer.
Reselect(current, listing) ==
    CASE current = "all" /\ Aggregates(listing) -> {"all"}
      [] current \in listing                    -> {current}
      [] Aggregates(listing)                    -> {"all"}
      [] OTHER                                  -> listing  \* the first, in the server's order

-----------------------------------------------------------------------------
(* The hook *)

EffectsRan == listed = version /\ shown = <<version, selected>>

Fetch(what, vers, source) ==
    [what |-> what, version |-> vers, of |-> source, aborted |-> FALSE]

\* The effects whose dependencies changed: each aborts its last fetch and starts a new
\* one; with no source selected there is no catalog to fetch.
EffectsFor(vers, source) ==
    LET rerun   == {what \in {"sources"} : listed # vers}
              \cup {what \in {"catalog"} : shown # <<vers, source>>}
        started == {Fetch(what, vers, NoSource) : what \in rerun \ {"catalog"}}
              \cup {Fetch(what, vers, source) : what \in {w \in rerun \ {"sources"} : source # NoSource}}
    IN  /\ listed' = vers
        /\ shown' = <<vers, source>>
        /\ reads' = {IF r.what \in rerun THEN [r EXCEPT !.aborted = TRUE] ELSE r : r \in reads}
                        \cup started

\* The effects of a state change made by an answer: React runs them after it has painted.
RunEffects ==
    /\ ~EffectsRan
    /\ EffectsFor(version, selected)
    /\ UNCHANGED <<version, choice, panels, clicks, look>>

\* A click that puts both panels to loading; React runs its effects before the event ends,
\* and those still due before it begins.
Click(vers, source) ==
    /\ clicks < MaxClicks
    /\ EffectsRan
    /\ clicks' = clicks + 1
    /\ catalog' = Loading
    /\ supplier' = Reading
    /\ EffectsFor(vers, source)
    /\ UNCHANGED look

\* Mutant: the panels are put to loading and no version is drawn.
retryInPlace ==
    /\ RetryOffered
    /\ Click(version, selected)
    /\ UNCHANGED <<version, choice>>

retry ==
    /\ RetryOffered
    /\ Click(version + 1, selected)
    /\ version' = version + 1
    /\ UNCHANGED choice

selectSource(source) ==
    /\ source # selected
    /\ IF source = "all" THEN aggregate ELSE source \in offered
    /\ Click(version, source)
    /\ selected' = source
    /\ UNCHANGED <<version, offered, aggregate>>

\* Mutant: the answer of an aborted fetch is used like any other.
CurrentUnchecked(read) == TRUE

\* The check on controller.signal.aborted in each continuation.
Current(read) == ~read.aborted

SourcesAnswer(read) ==
    /\ read.what = "sources"
    /\ Current(read)
    /\ \/ \E listing \in Listings :
            /\ offered' = listing
            /\ aggregate' = Aggregates(listing)
            /\ selected' \in Reselect(selected, listing)
            /\ UNCHANGED panels
       \/ /\ offered' = {}
          /\ aggregate' = FALSE
          /\ selected' = NoSource
          /\ catalog' = Failed
          /\ supplier' = NotReady

\* Promise.allSettled over fetchCatalog and fetchCapabilities, either of which may fail.
CatalogAnswer(read) ==
    /\ read.what = "catalog"
    /\ Current(read)
    /\ \/ /\ catalog' = Failed
          /\ supplier' = NotReady
       \/ \E response \in Responses :
            /\ catalog' = mapCatalogState(read.of, response)
            /\ supplier' \in {NotReady, [kind |-> "ready", of |-> read.of]}
    /\ UNCHANGED choice

Ignored(read) == ~Current(read) /\ UNCHANGED <<choice, panels>>

Answer ==
    /\ \E read \in reads :
          /\ SourcesAnswer(read) \/ CatalogAnswer(read) \/ Ignored(read)
          /\ reads' = reads \ {read}
    /\ UNCHANGED <<version, listed, shown, clicks, look>>

-----------------------------------------------------------------------------
(* The theme *)

\* readTheme: light when storage cannot be read or holds nothing.
readTheme(readable) == IF readable /\ saved # "nothing" THEN saved ELSE "light"

\* persistTheme: when it cannot be stored the page shows light.
persistTheme(asked, writable) ==
    IF writable THEN [shows |-> asked, saves |-> asked] ELSE [shows |-> "light", saves |-> saved]

toggleTheme ==
    \E writable \in BOOLEAN :
        LET kept == persistTheme(IF theme = "light" THEN "dark" ELSE "light", writable)
        IN  /\ theme' = kept.shows
            /\ saved' = kept.saves
            /\ UNCHANGED hook

-----------------------------------------------------------------------------

\* The state the page starts from, and starts from again when it is reloaded.
StartHook(v, o, a, s, c, p, l, h, r) ==
    /\ v = 0
    /\ o = {} /\ a = FALSE /\ s = NoSource
    /\ c = Loading /\ p = Reading
    /\ l = -1 /\ h = <<-1, NoSource>>
    /\ r = {}

ViewInit ==
    /\ StartHook(version, offered, aggregate, selected, catalog, supplier, listed, shown, reads)
    /\ clicks = 0
    /\ saved = "nothing"
    /\ theme = "light"

\* The tab is loaded again: its fetches go with it.
ReloadView ==
    /\ clicks < MaxClicks
    /\ clicks' = clicks + 1
    /\ StartHook(version', offered', aggregate', selected', catalog', supplier', listed', shown',
                 reads')
    /\ theme' \in {readTheme(readable) : readable \in BOOLEAN}
    /\ UNCHANGED saved

ViewNext ==
    \/ retry
    \/ \E source \in Selections : selectSource(source)
    \/ RunEffects
    \/ Answer
    \/ toggleTheme
    \/ ReloadView

ViewSpec == ViewInit /\ [][ViewNext]_vvars

-----------------------------------------------------------------------------

\* Once React is at rest and no catalog is on its way, what the page shows is an answer
\* about the source it names as selected, whatever order the two fetches ended in.
PanelIsOfSelection ==
    EffectsRan /\ selected # NoSource /\ {r \in reads : r.what = "catalog" /\ ~r.aborted} = {} =>
        catalog.of \in {selected, NoSource}

=============================================================================
