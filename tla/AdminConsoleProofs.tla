-------------------------- MODULE AdminConsoleProofs ---------------------------
(***************************************************************************)
(* Proofs about the admin page, for any live sources, clicks, keys, visits *)
(* and requests.                                                           *)
(***************************************************************************)
EXTENDS AdminConsole, FiniteSetTheorems, TLAPS

-----------------------------------------------------------------------------
(* The overview: types *)

Sources == Selections \cup {NoSource}
Kinds   == {"loading", "error", "empty", "success", "ready"}
Fetches == [what : {"sources", "catalog"}, version : Nat, of : Sources, aborted : BOOLEAN]

ViewTypeOK ==
    /\ version \in Nat /\ offered \subseteq Suppliers /\ aggregate \in BOOLEAN
    /\ selected \in Sources
    /\ catalog \in [kind : Kinds, of : Sources, retry : BOOLEAN]
    /\ supplier \in [kind : Kinds, of : Sources]
    /\ reads \subseteq Fetches
    /\ clicks \in Nat
    /\ theme \in Themes /\ saved \in Themes \cup {"nothing"}

LEMMA PanelTypes ==
  /\ Loading \in [kind : Kinds, of : Sources, retry : BOOLEAN]
  /\ Failed \in [kind : Kinds, of : Sources, retry : BOOLEAN]
  /\ Reading \in [kind : Kinds, of : Sources] /\ NotReady \in [kind : Kinds, of : Sources]
  /\ Loading.of = NoSource /\ Failed.of = NoSource
  BY DEF Loading, Failed, Reading, NotReady, Kinds, Sources

LEMMA MappedTypes ==
  ASSUME NEW source \in Sources, NEW response \in Responses
  PROVE  /\ mapCatalogState(source, response) \in [kind : Kinds, of : Sources, retry : BOOLEAN]
         /\ mapCatalogState(source, response).of = source
<1>1. response.state \in {"fresh", "empty", "stale", "error"} /\ response.retryable \in BOOLEAN
  BY DEF Responses
<1>2. CASE response.state = "error"
  BY <1>1, <1>2 DEF mapCatalogState, Kinds
<1>3. CASE response.state = "empty"
  BY <1>1, <1>3 DEF mapCatalogState, Kinds
<1>4. CASE response.state \notin {"error", "empty"}
  BY <1>1, <1>4 DEF mapCatalogState, Kinds
<1> QED
  BY <1>2, <1>3, <1>4

LEMMA ReselectTypes ==
  ASSUME NEW listing \in Listings
  PROVE  Reselect(selected, listing) \subseteq Sources
  BY DEF Reselect, Listings, Sources, Selections

\* What the effects leave on its way: what was, perhaps aborted, and what they start.
LEMMA EffectsAbort ==
  ASSUME reads \subseteq Fetches, NEW vers \in Nat, NEW source \in Sources,
         EffectsFor(vers, source)
  PROVE  /\ shown' = <<vers, source>> /\ reads' \subseteq Fetches
         /\ shown = <<vers, source>> =>
              {r \in reads' : r.what = "catalog" /\ ~r.aborted}
                = {r \in reads : r.what = "catalog" /\ ~r.aborted}
         /\ shown # <<vers, source>> /\ source # NoSource =>
              Fetch("catalog", vers, source) \in reads'
         /\ shown # <<vers, source>> =>
              \A r \in reads' : r.what = "catalog" /\ ~r.aborted => r.of = source
<1> DEFINE rerun   == {what \in {"sources"} : listed # vers}
                 \cup {what \in {"catalog"} : shown # <<vers, source>>}
           started == {Fetch(what, vers, NoSource) : what \in rerun \ {"catalog"}}
                 \cup {Fetch(what, vers, source) : what \in {w \in rerun \ {"sources"} : source # NoSource}}
           kept(r) == IF r.what \in rerun THEN [r EXCEPT !.aborted = TRUE] ELSE r
<1>1. shown' = <<vers, source>> /\ reads' = {kept(r) : r \in reads} \cup started
  BY DEF EffectsFor
<1>2. \A r \in reads :
        /\ kept(r) \in Fetches /\ kept(r).what = r.what
        /\ r.what = "catalog" /\ shown = <<vers, source>> => kept(r) = r
        /\ r.what = "catalog" /\ shown # <<vers, source>> => kept(r).aborted
  BY DEF Fetches
<1>3. /\ Fetch("catalog", vers, source) \in Fetches
      /\ Fetch("catalog", vers, source).of = source
      /\ Fetch("catalog", vers, source).what = "catalog"
      /\ Fetch("sources", vers, NoSource) \in Fetches
      /\ Fetch("sources", vers, NoSource).what = "sources"
  BY DEF Fetch, Fetches, Sources
<1>4. \A r \in started : \/ r = Fetch("sources", vers, NoSource)
                         \/ r = Fetch("catalog", vers, source) /\ shown # <<vers, source>>
  OBVIOUS
<1>5. shown # <<vers, source>> /\ source # NoSource => Fetch("catalog", vers, source) \in started
  OBVIOUS
<1> HIDE DEF rerun, started, kept
<1>6. reads' \subseteq Fetches
  BY <1>1, <1>2, <1>3, <1>4
<1>7. shown = <<vers, source>> =>
              {r \in reads' : r.what = "catalog" /\ ~r.aborted}
                = {r \in reads : r.what = "catalog" /\ ~r.aborted}
  BY <1>1, <1>2, <1>3, <1>4
<1>8. shown # <<vers, source>> =>
              \A r \in reads' : r.what = "catalog" /\ ~r.aborted => r.of = source
  BY <1>1, <1>2, <1>3, <1>4
<1> QED
  BY <1>1, <1>5, <1>6, <1>7, <1>8

-----------------------------------------------------------------------------
(* The overview: the panel and the selection *)

LiveReads == {r \in reads : r.what = "catalog" /\ ~r.aborted}

\* The catalog effect last ran for shown: what it has on its way is for that source, and
\* with nothing on its way the panel has an answer for it.
PanelFollowsEffect ==
    /\ \A r \in LiveReads : r.of = shown[2]
    /\ shown[2] # NoSource /\ LiveReads = {} => catalog.of \in {shown[2], NoSource}

ViewInv == ViewTypeOK /\ PanelFollowsEffect

\* A hook that starts has no source and nothing on its way.
LEMMA HookStarts ==
  ASSUME StartHook(version, offered, aggregate, selected, catalog, supplier, listed, shown, reads)
  PROVE  /\ version \in Nat /\ offered \subseteq Suppliers /\ aggregate \in BOOLEAN
         /\ selected \in Sources /\ reads \subseteq Fetches
         /\ catalog \in [kind : Kinds, of : Sources, retry : BOOLEAN]
         /\ supplier \in [kind : Kinds, of : Sources]
         /\ PanelFollowsEffect
<1>1. catalog = Loading /\ supplier = Reading /\ shown[2] = NoSource /\ reads = {}
        /\ version = 0 /\ offered = {} /\ aggregate = FALSE /\ selected = NoSource
  BY DEF StartHook
<1> QED
  BY <1>1, PanelTypes DEF PanelFollowsEffect, LiveReads, Sources

LEMMA ViewStarts == ViewInit => ViewInv
  BY HookStarts DEF ViewInit, ViewInv, ViewTypeOK, Themes

\* Effects that run, with the panel as it is or put to loading, leave it to what they start.
LEMMA EffectsKeepPanel ==
  ASSUME ViewInv, NEW vers \in Nat, NEW source \in Sources, EffectsFor(vers, source),
         catalog' \in {catalog, Loading}
  PROVE  PanelFollowsEffect'
<1> USE DEF ViewInv, ViewTypeOK, PanelFollowsEffect
<1>0. shown'[2] = source /\ Loading.of = NoSource
  BY EffectsAbort, PanelTypes
<1>1. CASE shown = <<vers, source>>
  <2>1. LiveReads' = LiveReads /\ shown[2] = source
    BY <1>1, EffectsAbort DEF LiveReads
  <2> QED
    BY <1>0, <2>1
<1>2. CASE shown # <<vers, source>>
  <2>1. \A r \in LiveReads' : r.of = source
    BY <1>2, EffectsAbort DEF LiveReads
  <2>2. source # NoSource => LiveReads' # {}
    <3> SUFFICES ASSUME source # NoSource PROVE LiveReads' # {}
      OBVIOUS
    <3>1. Fetch("catalog", vers, source) \in reads'
      BY <1>2, EffectsAbort
    <3>2. Fetch("catalog", vers, source).what = "catalog" /\ ~Fetch("catalog", vers, source).aborted
      BY DEF Fetch
    <3> QED
      BY <3>1, <3>2 DEF LiveReads
  <2> QED
    BY <1>0, <2>1, <2>2
<1> QED
  BY <1>1, <1>2

LEMMA ClickKeeps ==
  ASSUME ViewInv, NEW vers \in Nat, NEW source \in Sources, Click(vers, source)
  PROVE  /\ PanelFollowsEffect' /\ reads' \subseteq Fetches
         /\ catalog' = Loading /\ supplier' = Reading /\ clicks' \in Nat /\ UNCHANGED <<theme, saved>>
<1>1. EffectsFor(vers, source) /\ catalog' = Loading /\ supplier' = Reading
        /\ clicks' = clicks + 1 /\ UNCHANGED <<theme, saved>>
  BY DEF Click, look
<1> QED
  BY <1>1, EffectsKeepPanel, EffectsAbort DEF ViewInv, ViewTypeOK

LEMMA SourcesAnswerKeeps ==
  ASSUME ViewInv, NEW read \in reads, SourcesAnswer(read), reads' = reads \ {read},
         UNCHANGED <<version, listed, shown, clicks, look>>
  PROVE  ViewInv'
<1> USE DEF ViewInv, ViewTypeOK
<1>1. LiveReads' = LiveReads
  BY DEF LiveReads, SourcesAnswer
<1>2. CASE \E listing \in Listings :
             /\ offered' = listing
             /\ aggregate' = Aggregates(listing)
             /\ selected' \in Reselect(selected, listing)
             /\ UNCHANGED panels
  <2>1. PICK listing \in Listings :
             /\ offered' = listing
             /\ aggregate' = Aggregates(listing)
             /\ selected' \in Reselect(selected, listing)
             /\ UNCHANGED panels
    BY <1>2
  <2>2. Aggregates(listing) \in BOOLEAN /\ listing \subseteq Suppliers
    BY DEF Aggregates, Listings
  <2>3. selected' \in Sources
    BY <2>1, ReselectTypes
  <2> QED
    BY <1>1, <2>1, <2>2, <2>3 DEF panels, look, PanelFollowsEffect
<1>3. CASE /\ offered' = {} /\ aggregate' = FALSE /\ selected' = NoSource
           /\ catalog' = Failed /\ supplier' = NotReady
  BY <1>1, <1>3, PanelTypes DEF look, PanelFollowsEffect, Sources
<1> QED
  BY <1>2, <1>3 DEF SourcesAnswer

LEMMA CatalogAnswerKeeps ==
  ASSUME ViewInv, NEW read \in reads, CatalogAnswer(read), reads' = reads \ {read},
         UNCHANGED <<version, listed, shown, clicks, look>>
  PROVE  ViewInv'
<1> USE DEF ViewInv, ViewTypeOK
<1>1. read \in LiveReads /\ read.of \in Sources /\ read.of = shown[2]
  BY DEF LiveReads, CatalogAnswer, Current, PanelFollowsEffect, Fetches
<1>2. LiveReads' \subseteq LiveReads
  BY DEF LiveReads
<1>3. /\ catalog' \in [kind : Kinds, of : Sources, retry : BOOLEAN] /\ catalog'.of \in {read.of, NoSource}
      /\ supplier' \in [kind : Kinds, of : Sources]
  <2>1. [kind |-> "ready", of |-> read.of] \in [kind : Kinds, of : Sources]
    BY <1>1 DEF Kinds
  <2>2. CASE catalog' = Failed /\ supplier' = NotReady
    BY <2>2, PanelTypes
  <2>3. CASE \E response \in Responses :
               /\ catalog' = mapCatalogState(read.of, response)
               /\ supplier' \in {NotReady, [kind |-> "ready", of |-> read.of]}
    BY <1>1, <2>1, <2>3, MappedTypes, PanelTypes
  <2> QED
    BY <2>2, <2>3 DEF CatalogAnswer
<1> QED
  BY <1>1, <1>2, <1>3 DEF CatalogAnswer, choice, look, PanelFollowsEffect

LEMMA ViewStep == ViewInv /\ [ViewNext]_vvars => ViewInv'
<1> SUFFICES ASSUME ViewInv, [ViewNext]_vvars
             PROVE  ViewInv'
  OBVIOUS
<1> USE DEF ViewInv, ViewTypeOK
<1>1. CASE retry
  <2>1. version + 1 \in Nat /\ version' = version + 1 /\ UNCHANGED choice /\ Click(version + 1, selected)
    BY <1>1 DEF retry
  <2> QED
    BY <2>1, ClickKeeps, PanelTypes DEF choice
<1>2. ASSUME NEW source \in Selections, selectSource(source)
      PROVE  ViewInv'
  <2>1. source \in Sources /\ selected' = source /\ Click(version, source)
          /\ UNCHANGED <<version, offered, aggregate>>
    BY <1>2 DEF selectSource, Sources
  <2> QED
    BY <2>1, ClickKeeps, PanelTypes
<1>3. CASE RunEffects
  <2>1. EffectsFor(version, selected) /\ UNCHANGED <<version, choice, panels, clicks, look>>
    BY <1>3 DEF RunEffects
  <2>2. PanelFollowsEffect' /\ reads' \subseteq Fetches
    BY <2>1, EffectsKeepPanel, EffectsAbort DEF panels
  <2> QED
    BY <2>1, <2>2 DEF choice, panels, look
<1>4. CASE Answer
  <2>1. PICK read \in reads :
           /\ SourcesAnswer(read) \/ CatalogAnswer(read) \/ Ignored(read)
           /\ reads' = reads \ {read}
    BY <1>4 DEF Answer
  <2>2. UNCHANGED <<version, listed, shown, clicks, look>>
    BY <1>4 DEF Answer
  <2>3. CASE Ignored(read)
    <3>1. LiveReads' = LiveReads
      BY <2>1, <2>3 DEF LiveReads, Ignored, Current
    <3> QED
      BY <2>1, <2>2, <2>3, <3>1 DEF Ignored, choice, panels, look, PanelFollowsEffect
  <2> QED
    BY <2>1, <2>2, <2>3, SourcesAnswerKeeps, CatalogAnswerKeeps
<1>5. CASE toggleTheme
  <2>1. UNCHANGED hook /\ theme' \in Themes /\ saved' \in Themes \cup {"nothing"}
    BY <1>5 DEF toggleTheme, persistTheme, Themes
  <2> QED
    BY <2>1 DEF hook, choice, panels, PanelFollowsEffect, LiveReads
<1>6. CASE ReloadView
  <2>1. theme' \in Themes
    BY <1>6 DEF ReloadView, readTheme, Themes
  <2>2. StartHook(version, offered, aggregate, selected, catalog, supplier, listed, shown, reads)'
    BY <1>6 DEF ReloadView, StartHook
  <2>3. /\ version' \in Nat /\ offered' \subseteq Suppliers /\ aggregate' \in BOOLEAN
        /\ selected' \in Sources /\ reads' \subseteq Fetches
        /\ catalog' \in [kind : Kinds, of : Sources, retry : BOOLEAN]
        /\ supplier' \in [kind : Kinds, of : Sources]
        /\ PanelFollowsEffect'
    <3>1. catalog' = Loading /\ supplier' = Reading /\ shown'[2] = NoSource /\ reads' = {}
            /\ version' = 0 /\ offered' = {} /\ aggregate' = FALSE /\ selected' = NoSource
      BY <2>2 DEF StartHook
    <3> QED
      BY <3>1, PanelTypes DEF PanelFollowsEffect, LiveReads, Sources
  <2> QED
    BY <1>6, <2>1, <2>3 DEF ReloadView
<1>7. CASE UNCHANGED vvars
  BY <1>7 DEF vvars, hook, look, choice, panels, PanelFollowsEffect, LiveReads
<1> QED
  BY <1>1, <1>2, <1>3, <1>4, <1>5, <1>6, <1>7 DEF ViewNext

\* The hook, its fetches and the theme keep their types.
THEOREM ViewTypes == ViewSpec => []ViewTypeOK
<1>1. ViewInv => ViewTypeOK
  BY DEF ViewInv
<1> QED
  BY <1>1, ViewStarts, ViewStep, PTL DEF ViewSpec

\* Once React is at rest and no catalog is on its way, the panel shows the selected source.
THEOREM PanelsFollowTheSelection == ViewSpec => []PanelIsOfSelection
<1>1. ViewInv => PanelIsOfSelection
  BY DEF ViewInv, PanelFollowsEffect, PanelIsOfSelection, EffectsRan, LiveReads
<1> QED
  BY <1>1, ViewStarts, ViewStep, PTL DEF ViewSpec

-----------------------------------------------------------------------------
(* The checkout: types *)

Forms == [loaded : BOOLEAN, orders : Orders, pending : Pending \cup {None},
          result : Results \cup {None}, submitted : BOOLEAN, locked : BOOLEAN]

Ordering == {"place", "reconcile"}

\* What a continuation waits for, and the answer it has.
RepliesAreAwaited ==
    reply # None =>
        waiting # None /\ (waiting.what \in Ordering => reply.order \in States)

\* Without an open view there is no component and none of its continuations.
ClosedIsBlank == mount = 0 => form = Blank /\ waiting = None

PageInv == CheckoutTypeOK /\ RepliesAreAwaited /\ ClosedIsBlank

LEMMA NoneIsNothing ==
  /\ None \notin Keys /\ None \notin States /\ None \notin Requests /\ None \notin Replies
  /\ None \notin Pending /\ None \notin Results /\ None \notin Final
  BY CheckoutAssumption DEF Final, States

LEMMA RequestTypes ==
  ASSUME NEW r \in Requests
  PROVE  /\ r.what \in {"place", "reconcile", "refresh", "history"}
         /\ r.what = "place" => r.key \in Keys /\ r.with \in Scenarios
         /\ r.what = "reconcile" => r.key \in Keys /\ r.with \in Evidence
         /\ r.what \notin Ordering => r.key = None
         /\ [r EXCEPT !.what = "history", !.key = None, !.with = None] \in Requests
         /\ [r EXCEPT !.what = "history", !.key = None, !.with = None].what = "history"
<1>1. \/ r \in [n : Nat, what : {"place"}, key : Keys, with : Scenarios]
      \/ r \in [n : Nat, what : {"reconcile"}, key : Keys, with : Evidence]
      \/ r \in [n : Nat, what : {"refresh", "history"}, key : {None}, with : {None}]
  BY DEF Requests
<1>2. /\ [r EXCEPT !.what = "history", !.key = None, !.with = None]
           \in [n : Nat, what : {"refresh", "history"}, key : {None}, with : {None}]
      /\ [r EXCEPT !.what = "history", !.key = None, !.with = None].what = "history"
  BY <1>1
<1>3. [r EXCEPT !.what = "history", !.key = None, !.with = None] \in Requests
  BY <1>2 DEF Requests
<1>4. /\ r.what \in {"place", "reconcile", "refresh", "history"}
      /\ r.what = "place" => r.key \in Keys /\ r.with \in Scenarios
      /\ r.what = "reconcile" => r.key \in Keys /\ r.with \in Evidence
      /\ r.what \notin Ordering => r.key = None
  BY <1>1 DEF Ordering
<1> QED
  BY <1>2, <1>3, <1>4

LEMMA BlankTypes ==
  /\ Blank \in Forms /\ ~Blank.loaded /\ ~Blank.submitted /\ Blank.pending = None
  /\ Blank.result = None /\ \A k \in Keys : Blank.orders[k] = None
<1>1. Nothing \in Orders /\ \A k \in Keys : Nothing[k] = None
  BY DEF Nothing, Orders
<1> QED
  BY <1>1 DEF Blank, Forms

\* What a click that sends a request does to the form.
LEMMA FormWrites ==
  ASSUME PageInv
  PROVE  /\ form \in Forms
         /\ \A p \in Pending :
              LET f == [form EXCEPT !.locked = TRUE, !.pending = p]
              IN  /\ f \in Forms /\ f.pending = p /\ f.submitted = form.submitted
                  /\ f.orders = form.orders /\ f.result = form.result
         /\ LET f == [form EXCEPT !.locked = TRUE]
            IN  /\ f \in Forms /\ f.pending = form.pending /\ f.submitted = form.submitted
                /\ f.orders = form.orders /\ f.result = form.result
         /\ LET f == Unlocked(form)
            IN  /\ f \in Forms /\ f.pending = form.pending /\ f.submitted = form.submitted
                /\ f.orders = form.orders /\ f.result = form.result
         /\ LET f == [form EXCEPT !.pending = None, !.result = None, !.submitted = FALSE]
            IN  /\ f \in Forms /\ f.pending = None /\ ~f.submitted
                /\ f.orders = form.orders /\ f.result = None
         /\ \A o \in Orders :
              LET f == Unlocked([form EXCEPT !.loaded = TRUE, !.orders = o])
              IN  /\ f \in Forms /\ f.pending = form.pending /\ f.submitted = form.submitted
                  /\ f.orders = o /\ f.result = form.result
         /\ \A x \in Results :
              LET f == [form EXCEPT !.result = x, !.submitted = TRUE, !.pending = None]
              IN  /\ f \in Forms /\ f.pending = None /\ f.submitted
                  /\ f.orders = form.orders /\ f.result = x
         /\ \A x \in Results :
              LET f == [form EXCEPT !.result = x]
              IN  /\ f \in Forms /\ f.pending = form.pending /\ f.submitted = form.submitted
                  /\ f.orders = form.orders /\ f.result = x
<1>0. form \in Forms
  BY DEF PageInv, CheckoutTypeOK, Forms
<1>1. ASSUME NEW p \in Pending
      PROVE  LET f == [form EXCEPT !.locked = TRUE, !.pending = p]
             IN  /\ f \in Forms /\ f.pending = p /\ f.submitted = form.submitted
                 /\ f.orders = form.orders /\ f.result = form.result
  BY <1>0 DEF Forms
<1>2. LET f == [form EXCEPT !.locked = TRUE]
      IN  /\ f \in Forms /\ f.pending = form.pending /\ f.submitted = form.submitted
          /\ f.orders = form.orders /\ f.result = form.result
  BY <1>0 DEF Forms
<1>3. LET f == Unlocked(form)
      IN  /\ f \in Forms /\ f.pending = form.pending /\ f.submitted = form.submitted
          /\ f.orders = form.orders /\ f.result = form.result
  BY <1>0 DEF Forms, Unlocked
<1>4. LET f == [form EXCEPT !.pending = None, !.result = None, !.submitted = FALSE]
      IN  /\ f \in Forms /\ f.pending = None /\ ~f.submitted
          /\ f.orders = form.orders /\ f.result = None
  BY <1>0 DEF Forms
<1>5. ASSUME NEW o \in Orders
      PROVE  LET f == Unlocked([form EXCEPT !.loaded = TRUE, !.orders = o])
             IN  /\ f \in Forms /\ f.pending = form.pending /\ f.submitted = form.submitted
                 /\ f.orders = o /\ f.result = form.result
  <2> DEFINE g == [form EXCEPT !.loaded = TRUE, !.orders = o]
  <2>1. g \in Forms /\ g.pending = form.pending /\ g.submitted = form.submitted
          /\ g.orders = o /\ g.result = form.result
    BY <1>0 DEF Forms
  <2> HIDE DEF g
  <2>2. LET f == [g EXCEPT !.locked = FALSE]
        IN  /\ f \in Forms /\ f.pending = g.pending /\ f.submitted = g.submitted
            /\ f.orders = g.orders /\ f.result = g.result
    BY <2>1 DEF Forms
  <2> QED
    BY <2>1, <2>2 DEF Unlocked, g
<1>6. ASSUME NEW x \in Results
      PROVE  LET f == [form EXCEPT !.result = x, !.submitted = TRUE, !.pending = None]
             IN  /\ f \in Forms /\ f.pending = None /\ f.submitted
                 /\ f.orders = form.orders /\ f.result = x
  BY <1>0 DEF Forms
<1>7. ASSUME NEW x \in Results
      PROVE  LET f == [form EXCEPT !.result = x]
             IN  /\ f \in Forms /\ f.pending = form.pending /\ f.submitted = form.submitted
                 /\ f.orders = form.orders /\ f.result = x
  BY <1>0 DEF Forms
<1> QED
  BY <1>0, <1>1, <1>2, <1>3, <1>4, <1>5, <1>6, <1>7

\* A request of a click.
LEMMA SendWrites ==
  ASSUME PageInv, NEW what, NEW key, NEW with,
         \/ what = "place" /\ key \in Keys /\ with \in Scenarios
         \/ what = "reconcile" /\ key \in Keys /\ with \in Evidence
         \/ what = "refresh" /\ key = None /\ with = None,
         Send(Request(what, key, with))
  PROVE  /\ sent' \in Nat /\ reply' = None /\ waiting' \in Requests /\ wire' = wire \cup {waiting'}
         /\ waiting'.what = what /\ waiting'.key = key
<1>1. sent + 1 \in Nat
  BY DEF PageInv, CheckoutTypeOK
<1>2. /\ Request(what, key, with).what = what /\ Request(what, key, with).key = key
      /\ Request(what, key, with) \in Requests
  BY <1>1 DEF Request, Requests
<1> QED
  BY <1>1, <1>2 DEF Send

\* A request is served for a stored order that may become final, never for one that is.
LEMMA ServeWrites ==
  ASSUME PageInv, NEW r \in wire, Serve(r)
  PROVE  /\ r \in Requests /\ wire' = wire \ {r}
         /\ state' \in Orders /\ purchases' \in [Keys -> Nat]
         /\ \A k \in Keys : state[k] \in Final => state'[k] = state[k]
         /\ r.what \in Ordering => r.key \in Keys /\ state'[r.key] \in States
         /\ UNCHANGED <<mount, mounts, form, waiting, drawn, told, cycles, sent>>
         /\ \/ reply' = reply
            \/ /\ waiting = r /\ reply' \in Replies /\ reply'.orders = state'
               /\ r.key # None => reply'.order = state'[r.key]
<1>0. /\ r \in Requests /\ state \in Orders /\ purchases \in [Keys -> Nat]
  BY DEF PageInv, CheckoutTypeOK
<1>1. ASSUME r.what = "place"
      PROVE  /\ state' \in Orders /\ purchases' \in [Keys -> Nat]
             /\ \A k \in Keys : state[k] \in Final => state'[k] = state[k]
             /\ r.what \in Ordering => r.key \in Keys /\ state'[r.key] \in States
  <2>1. r.key \in Keys /\ Outcome(r.with) \in States /\ checkout(r)
    BY <1>0, <1>1, RequestTypes DEF Outcome, States, Serve
  <2>2. /\ state' \in Orders /\ purchases' \in [Keys -> Nat] /\ state'[r.key] \in States
        /\ \A k \in Keys : state[k] \in Final => state'[k] = state[k]
    <3>1. CASE state[r.key] \in {None, "PREPARED"}
      <4>1. PICK t \in States : state' = [state EXCEPT ![r.key] = t]
        BY <2>1, <3>1 DEF checkout, States
      <4>2. purchases' \in [Keys -> Nat]
        BY <1>0, <2>1, <3>1 DEF checkout
      <4>3. state[r.key] \notin Final
        BY <3>1, NoneIsNothing DEF Final
      <4> QED
        BY <1>0, <2>1, <4>1, <4>2, <4>3 DEF Orders
    <3>2. CASE state[r.key] \notin {None, "PREPARED"}
      BY <1>0, <2>1, <3>2 DEF checkout, server, Orders
    <3> QED
      BY <3>1, <3>2
  <2> QED
    BY <1>1, <2>1, <2>2
<1>2. ASSUME r.what = "reconcile"
      PROVE  /\ state' \in Orders /\ purchases' \in [Keys -> Nat]
             /\ \A k \in Keys : state[k] \in Final => state'[k] = state[k]
             /\ r.what \in Ordering => r.key \in Keys /\ state'[r.key] \in States
  <2>1. r.key \in Keys /\ Verdict(r.with) \in States /\ settle(r)
    BY <1>0, <1>2, RequestTypes DEF Verdict, States, Serve
  <2>2. /\ state' \in Orders /\ purchases' \in [Keys -> Nat] /\ state'[r.key] \in States
        /\ \A k \in Keys : state[k] \in Final => state'[k] = state[k]
    BY <1>0, <2>1 DEF settle, Orders, Final, States
  <2> QED
    BY <1>2, <2>1, <2>2
<1>3. ASSUME r.what \notin Ordering
      PROVE  /\ state' \in Orders /\ purchases' \in [Keys -> Nat]
             /\ \A k \in Keys : state[k] \in Final => state'[k] = state[k]
             /\ r.what \in Ordering => r.key \in Keys /\ state'[r.key] \in States
  BY <1>0, <1>3 DEF Serve, server, Ordering
<1>4. /\ state' \in Orders /\ purchases' \in [Keys -> Nat]
      /\ \A k \in Keys : state[k] \in Final => state'[k] = state[k]
      /\ r.what \in Ordering => r.key \in Keys /\ state'[r.key] \in States
  BY <1>1, <1>2, <1>3 DEF Ordering
<1>5. \/ reply' = reply
      \/ /\ waiting = r /\ reply' \in Replies /\ reply'.orders = state'
         /\ r.key # None => reply'.order = state'[r.key]
  <2> DEFINE answer == [order |-> IF r.key = None THEN None ELSE state'[r.key], orders |-> state']
  <2>1. reply' = reply \/ (waiting = r /\ reply' = answer)
    BY DEF Serve
  <2>2. r.key = None \/ r.key \in Keys
    BY <1>0, RequestTypes DEF Ordering
  <2>3. (IF r.key = None THEN None ELSE state'[r.key]) \in States \cup {None}
    BY <1>4, <2>2 DEF Orders
  <2>4. answer \in Replies
    BY <1>4, <2>3 DEF Replies
  <2> QED
    BY <2>1, <2>4
<1> QED
  BY <1>0, <1>4, <1>5 DEF Serve, page

\* An answer is taken up by the continuation that waits for it.
LEMMA ContinueWrites ==
  ASSUME PageInv, Continue
  PROVE  /\ reply \in Replies /\ waiting \in Requests /\ reply' = None
         /\ UNCHANGED <<mount, mounts, state, purchases, drawn, cycles, sent>>
         /\ form' \in Forms /\ wire' \subseteq Requests
         /\ waiting' = None \/ (waiting' \in Requests /\ waiting'.what = "history")
         /\ \/ /\ form'.orders = reply.orders /\ form'.result = form.result
               /\ form'.pending = form.pending /\ form'.submitted = form.submitted /\ told' = told
            \/ /\ form'.orders = form.orders /\ waiting.what = "place" /\ waiting.key \in Keys
               /\ form'.result = [key |-> waiting.key, state |-> reply.order]
               /\ form'.pending = None /\ form'.submitted /\ told' = told \cup {waiting.key}
            \/ /\ form'.orders = form.orders /\ waiting.what = "reconcile" /\ waiting.key \in Keys
               /\ form'.result = [key |-> waiting.key, state |-> reply.order]
               /\ form'.pending = form.pending /\ form'.submitted = form.submitted /\ told' = told
<1>0. /\ reply \in Replies /\ waiting \in Requests /\ reply' = None /\ wire \subseteq Requests
      /\ waiting.what \in Ordering => reply.order \in States
      /\ UNCHANGED <<mount, mounts, state, purchases, drawn, cycles, sent>>
  BY DEF Continue, PageInv, CheckoutTypeOK, RepliesAreAwaited, server
<1>1. CASE Refreshed
  <2>1. reply.orders \in Orders
    BY <1>0 DEF Replies
  <2>2. form' = Unlocked([form EXCEPT !.loaded = TRUE, !.orders = reply.orders])
    BY <1>1 DEF Refreshed
  <2> QED
    BY <1>0, <1>1, <2>1, <2>2, FormWrites DEF Refreshed
<1>2. ASSUME ReadHistory
      PROVE  waiting' \in Requests /\ waiting'.what = "history" /\ wire' \subseteq Requests
  BY <1>0, <1>2, RequestTypes DEF ReadHistory
<1>3. CASE Placed
  <2>1. waiting.what = "place" /\ waiting.key \in Keys /\ reply.order \in States
    BY <1>0, <1>3, RequestTypes DEF Placed, Ordering
  <2>2. [key |-> waiting.key, state |-> reply.order] \in Results
    BY <2>1 DEF Results
  <2> QED
    BY <1>0, <1>2, <1>3, <2>1, <2>2, FormWrites DEF Placed
<1>4. CASE Reconciled
  <2>1. waiting.what = "reconcile" /\ waiting.key \in Keys /\ reply.order \in States
    BY <1>0, <1>4, RequestTypes DEF Reconciled, Ordering
  <2>2. [key |-> waiting.key, state |-> reply.order] \in Results
    BY <2>1 DEF Results
  <2> QED
    BY <1>0, <1>2, <1>4, <2>1, <2>2, FormWrites DEF Reconciled
<1> QED
  BY <1>0, <1>1, <1>3, <1>4 DEF Continue

LEMMA ClosedPage ==
  ASSUME PageInv
  PROVE  /\ mount = 0 => ~form.loaded /\ ~form.submitted
         /\ mount # 0 => mount \in Mounts
  BY BlankTypes, CheckoutAssumption DEF PageInv, ClosedIsBlank, CheckoutTypeOK, Mounts

LEMMA RefreshWrites ==
  ASSUME PageInv, refresh
  PROVE  /\ mount # 0 /\ form' = [form EXCEPT !.locked = TRUE]
         /\ sent' \in Nat /\ reply' = None /\ wire' = wire \cup {waiting'}
         /\ waiting' \in Requests /\ waiting'.what = "refresh"
         /\ UNCHANGED <<mount, mounts, state, purchases, drawn, told, cycles>>
<1>1. Send(Request("refresh", None, None))
  BY DEF refresh
<1> QED
  BY <1>1, SendWrites DEF refresh, server

LEMMA ReconcileWrites ==
  ASSUME PageInv, NEW k \in Keys, NEW e \in Evidence, reconcile(k, e)
  PROVE  /\ mount # 0 /\ form' = [form EXCEPT !.locked = TRUE]
         /\ sent' \in Nat /\ reply' = None /\ wire' = wire \cup {waiting'}
         /\ waiting' \in Requests /\ waiting'.what = "reconcile"
         /\ UNCHANGED <<mount, mounts, state, purchases, drawn, told, cycles>>
<1>1. Send(Request("reconcile", k, e))
  BY DEF reconcile
<1> QED
  BY <1>1, ClosedPage, SendWrites DEF reconcile, server

LEMMA SubmitWrites ==
  ASSUME PageInv, NEW k \in Keys, NEW s \in Scenarios, submit(k, s)
  PROVE  /\ mount # 0 /\ mount \in Mounts /\ ~form.submitted
         /\ \/ /\ form.pending = None /\ drawn[k] = 0
               /\ drawn' = [drawn EXCEPT ![k] = mount]
            \/ form.pending # None /\ form.pending.key = k /\ UNCHANGED drawn
         /\ form' \in Forms /\ form'.pending # None /\ form'.pending.key = k /\ ~form'.submitted
         /\ form'.orders = form.orders /\ form'.result = form.result
         /\ sent' \in Nat /\ reply' = None /\ wire' = wire \cup {waiting'}
         /\ waiting' \in Requests /\ waiting'.what = "place" /\ waiting'.key = k
         /\ UNCHANGED <<mount, mounts, state, purchases, told, cycles>>
<1> DEFINE p == [key |-> k, scenario |-> s]
<1>1. Send(Request("place", k, s)) /\ form' = [form EXCEPT !.locked = TRUE, !.pending = p]
        /\ ~form.submitted /\ form.loaded
  BY DEF submit
<1>2. /\ sent' \in Nat /\ reply' = None /\ wire' = wire \cup {waiting'}
      /\ waiting' \in Requests /\ waiting'.what = "place" /\ waiting'.key = k
  BY <1>1, SendWrites
<1>3. p \in Pending /\ p # None /\ p.key = k
  BY NoneIsNothing DEF Pending
<1>4. \/ /\ form.pending = None /\ drawn[k] = 0
         /\ drawn' = [drawn EXCEPT ![k] = mount]
      \/ form.pending = p /\ form.pending # None /\ UNCHANGED drawn
  BY DEF submit
<1> HIDE DEF p
<1>5. /\ form' \in Forms /\ form'.pending = p /\ form'.submitted = form.submitted
      /\ form'.orders = form.orders /\ form'.result = form.result
  BY <1>1, <1>3, FormWrites
<1>6. mount # 0 /\ mount \in Mounts
  BY <1>1, ClosedPage
<1> QED
  BY <1>1, <1>2, <1>3, <1>4, <1>5, <1>6 DEF submit, server

LEMMA PageStarts == CheckoutInit => PageInv
  BY BlankTypes, CheckoutAssumption
  DEF CheckoutInit, PageInv, CheckoutTypeOK, RepliesAreAwaited, ClosedIsBlank, Forms, Orders,
      Nothing, Mounts

LEMMA PageStep == PageInv /\ [CheckoutNext]_cvars => PageInv'
<1> SUFFICES ASSUME PageInv, [CheckoutNext]_cvars
             PROVE  PageInv'
  OBVIOUS
<1>0. form' \in Forms <=> form' \in
        [loaded : BOOLEAN, orders : Orders, pending : Pending \cup {None},
         result : Results \cup {None}, submitted : BOOLEAN, locked : BOOLEAN]
  BY DEF Forms
<1> USE <1>0, NoneIsNothing DEF PageInv, CheckoutTypeOK, RepliesAreAwaited, ClosedIsBlank
<1>1. CASE OpenCheckout
  BY <1>1, CheckoutAssumption DEF OpenCheckout, net, server
<1>2. CASE LeaveCheckout
  BY <1>2, BlankTypes, CheckoutAssumption DEF LeaveCheckout, server
<1>3. CASE refresh
  <2>1. form' \in Forms
    BY <1>3, RefreshWrites, FormWrites
  <2> QED
    BY <1>3, <2>1, RefreshWrites
<1>4. ASSUME NEW k \in Keys, NEW s \in Scenarios, submit(k, s)
      PROVE  PageInv'
  <2>1. drawn' \in [Keys -> 0..MaxMounts]
    BY <1>4, SubmitWrites, CheckoutAssumption DEF Mounts
  <2>2. form' \in Forms
    BY <1>4, SubmitWrites
  <2>3. /\ mount # 0 /\ sent' \in Nat /\ reply' = None /\ wire' = wire \cup {waiting'} /\ waiting' \in Requests
        /\ UNCHANGED <<mount, mounts, state, purchases, told, cycles>>
    BY <1>4, SubmitWrites
  <2> QED
    BY <2>1, <2>2, <2>3
<1>5. ASSUME NEW k \in Keys, NEW e \in Evidence, reconcile(k, e)
      PROVE  PageInv'
  <2>1. form' \in Forms
    BY <1>5, ReconcileWrites, FormWrites
  <2> QED
    BY <1>5, <2>1, ReconcileWrites
<1>6. CASE newOrder
  <2>1. mount \in Mounts /\ mount # 0 /\ cycles' \in [Mounts -> Nat]
    BY <1>6, ClosedPage DEF newOrder
  <2> QED
    BY <1>6, <2>1, FormWrites DEF newOrder, net, server
<1>7. ASSUME NEW r \in wire, Serve(r)
      PROVE  PageInv'
  <2>1. /\ wire' \subseteq Requests /\ state' \in Orders /\ purchases' \in [Keys -> Nat]
        /\ UNCHANGED <<mount, mounts, form, waiting, drawn, told, cycles, sent>>
    BY <1>7, ServeWrites
  <2>2. CASE reply' = reply
    BY <2>1, <2>2
  <2>3. CASE waiting = r /\ reply' \in Replies /\ (r.key # None => reply'.order = state'[r.key])
    <3>1. r \in Requests /\ (r.what \in Ordering => reply'.order \in States)
      BY <1>7, <2>3, ServeWrites
    <3> QED
      BY <2>1, <2>3, <3>1
  <2> QED
    BY <1>7, <2>2, <2>3, ServeWrites
<1>8. ASSUME NEW r \in wire, Refuse(r)
      PROVE  PageInv'
  BY <1>8 DEF Refuse, page, server
<1>9. CASE Failure
  <2>1. form' \in Forms
    BY <1>9, FormWrites DEF Failure
  <2> QED
    BY <1>9, <2>1 DEF Failure, server
<1>10. CASE Continue
  <2>1. mount # 0
    BY <1>10, ContinueWrites
  <2>2. told' \subseteq Keys
    BY <1>10, ContinueWrites
  <2> QED
    BY <1>10, <2>1, <2>2, ContinueWrites
<1>11. CASE UNCHANGED cvars
  BY <1>11 DEF cvars, page, net, server
<1> QED
  BY <1>1, <1>2, <1>3, <1>4, <1>5, <1>6, <1>7, <1>8, <1>9, <1>10, <1>11 DEF CheckoutNext

-----------------------------------------------------------------------------
(* The checkout: keys *)

\* The keys that the open page drew and was never told about are the one that is pending.
KeyIsPending ==
    /\ mount \in {0, mounts} /\ \A k \in Keys : drawn[k] <= mounts
    /\ form.submitted => form.pending = None
    /\ waiting # None /\ waiting.what = "place" =>
          form.pending # None /\ form.pending.key = waiting.key /\ ~form.submitted
    /\ \A k \in Keys : mount # 0 /\ drawn[k] = mount /\ k \notin told =>
          form.pending # None /\ form.pending.key = k

LEMMA KeysStart == CheckoutInit => KeyIsPending
  BY BlankTypes DEF CheckoutInit, KeyIsPending

LEMMA KeysStep == PageInv /\ KeyIsPending /\ [CheckoutNext]_cvars => KeyIsPending'
<1> SUFFICES ASSUME PageInv, KeyIsPending, [CheckoutNext]_cvars
             PROVE  KeyIsPending'
  OBVIOUS
<1>0. /\ mount \in Nat /\ mounts \in Nat /\ drawn \in [Keys -> Nat] /\ mount <= mounts
  BY CheckoutAssumption DEF PageInv, CheckoutTypeOK, KeyIsPending
<1> USE <1>0, NoneIsNothing DEF KeyIsPending
<1>1. CASE OpenCheckout
  BY <1>1 DEF OpenCheckout, net
<1>2. CASE LeaveCheckout
  BY <1>2, BlankTypes DEF LeaveCheckout
<1>3. CASE refresh
  <2>1. form'.pending = form.pending /\ form'.submitted = form.submitted
    BY <1>3, RefreshWrites, FormWrites
  <2> QED
    BY <1>3, <2>1, RefreshWrites
<1>4. ASSUME NEW k \in Keys, NEW s \in Scenarios, submit(k, s)
      PROVE  KeyIsPending'
  <2>1. /\ mount # 0 /\ UNCHANGED <<mount, mounts, told>> /\ ~form'.submitted
        /\ form'.pending # None /\ form'.pending.key = k
        /\ waiting'.what = "place" /\ waiting'.key = k
    BY <1>4, SubmitWrites
  <2>2. CASE form.pending = None /\ drawn[k] = 0 /\ drawn' = [drawn EXCEPT ![k] = mount]
    BY <2>1, <2>2
  <2>3. CASE form.pending # None /\ form.pending.key = k /\ UNCHANGED drawn
    BY <2>1, <2>3
  <2> QED
    BY <1>4, <2>2, <2>3, SubmitWrites
<1>5. ASSUME NEW k \in Keys, NEW e \in Evidence, reconcile(k, e)
      PROVE  KeyIsPending'
  <2>1. form'.pending = form.pending /\ form'.submitted = form.submitted
    BY <1>5, ReconcileWrites, FormWrites
  <2> QED
    BY <1>5, <2>1, ReconcileWrites
<1>6. CASE newOrder
  <2>1. form'.pending = None /\ ~form'.submitted /\ form.submitted
    BY <1>6, FormWrites DEF newOrder
  <2> QED
    BY <1>6, <2>1 DEF newOrder, net
<1>7. ASSUME NEW r \in wire, Serve(r)
      PROVE  KeyIsPending'
  BY <1>7 DEF Serve, page
<1>8. ASSUME NEW r \in wire, Refuse(r)
      PROVE  KeyIsPending'
  BY <1>8 DEF Refuse, page
<1>9. CASE Failure
  <2>1. form'.pending = form.pending /\ form'.submitted = form.submitted
    BY <1>9, FormWrites DEF Failure
  <2> QED
    BY <1>9, <2>1 DEF Failure
<1>10. CASE Continue
  <2>1. /\ UNCHANGED <<mount, mounts, drawn>> /\ waiting # None
        /\ waiting' = None \/ waiting'.what = "history"
    BY <1>10, ContinueWrites
  <2>2. CASE form'.pending = form.pending /\ form'.submitted = form.submitted /\ told' = told
    BY <2>1, <2>2
  <2>3. CASE waiting.what = "place" /\ form'.pending = None /\ told' = told \cup {waiting.key}
    BY <2>1, <2>3
  <2> QED
    BY <1>10, <2>2, <2>3, ContinueWrites
<1>11. CASE UNCHANGED cvars
  BY <1>11 DEF cvars, page, net
<1> QED
  BY <1>1, <1>2, <1>3, <1>4, <1>5, <1>6, <1>7, <1>8, <1>9, <1>10, <1>11 DEF CheckoutNext

-----------------------------------------------------------------------------
(* The checkout: cycles *)

KeysOf(m) == {k \in Keys : drawn[k] = m}

\* The first cycle of a visit is not clicked for; one that has a key, or was told of its
\* order, has used it up.
Begun(m) == IF m # mount \/ form.pending # None \/ form.submitted THEN 1 ELSE 0

KeysAreOfCycles ==
    \A m \in Mounts : IsFiniteSet(KeysOf(m)) /\ Cardinality(KeysOf(m)) <= cycles[m] + Begun(m)

LEMMA CyclesStart == CheckoutInit => KeysAreOfCycles
<1> SUFFICES ASSUME CheckoutInit, NEW m \in Mounts
             PROVE  IsFiniteSet(KeysOf(m)) /\ Cardinality(KeysOf(m)) <= cycles[m] + Begun(m)
  BY DEF KeysAreOfCycles
<1>1. KeysOf(m) = {} /\ cycles[m] = 0
  BY DEF CheckoutInit, KeysOf, Mounts
<1> QED
  BY <1>1, FS_EmptySet DEF Begun

\* A step that draws no key and leaves what the page has of its cycle.
LEMMA CyclesKept ==
  ASSUME KeysAreOfCycles, UNCHANGED <<drawn, cycles>>, PageInv,
         \A m \in Mounts : Begun(m)' \in {0, 1} /\ Begun(m)' >= Begun(m)
  PROVE  KeysAreOfCycles'
<1> SUFFICES ASSUME NEW m \in Mounts
             PROVE  /\ IsFiniteSet(KeysOf(m)')
                    /\ Cardinality(KeysOf(m)') <= cycles'[m] + Begun(m)'
  BY DEF KeysAreOfCycles
<1>1. KeysOf(m)' = KeysOf(m)
  BY DEF KeysOf
<1>2. Cardinality(KeysOf(m)) \in Nat /\ cycles[m] \in Nat /\ Begun(m) \in {0, 1}
  BY FS_CardinalityType DEF KeysAreOfCycles, PageInv, CheckoutTypeOK, Begun
<1> QED
  BY <1>1, <1>2 DEF KeysAreOfCycles

LEMMA CyclesStep ==
  PageInv /\ KeyIsPending /\ KeysAreOfCycles /\ [CheckoutNext]_cvars => KeysAreOfCycles'
<1> SUFFICES ASSUME PageInv, KeyIsPending, KeysAreOfCycles, [CheckoutNext]_cvars
             PROVE  KeysAreOfCycles'
  OBVIOUS
<1> USE NoneIsNothing
<1>0. \A m \in Mounts : /\ Cardinality(KeysOf(m)) \in Nat /\ cycles[m] \in Nat
                        /\ IsFiniteSet(KeysOf(m)) /\ m \in Nat \ {0}
  BY FS_CardinalityType DEF KeysAreOfCycles, PageInv, CheckoutTypeOK, Mounts
<1>1. CASE OpenCheckout
  <2> SUFFICES ASSUME NEW m \in Mounts
               PROVE  /\ IsFiniteSet(KeysOf(m)')
                      /\ Cardinality(KeysOf(m)') <= cycles'[m] + Begun(m)'
    BY DEF KeysAreOfCycles
  <2>1. KeysOf(m)' = KeysOf(m) /\ cycles'[m] = cycles[m]
    BY <1>1 DEF OpenCheckout, KeysOf
  <2>2. CASE m = mount'
    <3>1. \A k \in Keys : drawn[k] # m
      BY <1>1, <2>2, CheckoutAssumption
      DEF OpenCheckout, KeyIsPending, PageInv, CheckoutTypeOK
    <3>2. KeysOf(m) = {}
      BY <3>1 DEF KeysOf
    <3> QED
      BY <1>0, <2>1, <3>2, FS_EmptySet DEF Begun
  <2>3. CASE m # mount'
    BY <1>0, <2>1, <2>3 DEF KeysAreOfCycles, Begun
  <2> QED
    BY <2>2, <2>3
<1>2. CASE LeaveCheckout
  BY <1>0, <1>2, CyclesKept DEF LeaveCheckout, Begun
<1>3. CASE refresh
  <2>1. form'.pending = form.pending /\ form'.submitted = form.submitted
    BY <1>3, RefreshWrites, FormWrites
  <2> QED
    BY <1>3, <2>1, RefreshWrites, CyclesKept DEF Begun
<1>4. ASSUME NEW k \in Keys, NEW s \in Scenarios, submit(k, s)
      PROVE  KeysAreOfCycles'
  <2>1. /\ UNCHANGED <<mount, cycles>> /\ form'.pending # None /\ ~form.submitted /\ mount \in Mounts
    BY <1>4, SubmitWrites
  <2>2. CASE UNCHANGED drawn
    BY <2>1, <2>2, CyclesKept DEF Begun
  <2>3. CASE form.pending = None /\ drawn[k] = 0 /\ drawn' = [drawn EXCEPT ![k] = mount]
    <3> SUFFICES ASSUME NEW m \in Mounts
                 PROVE  /\ IsFiniteSet(KeysOf(m)')
                        /\ Cardinality(KeysOf(m)') <= cycles'[m] + Begun(m)'
      BY DEF KeysAreOfCycles
    <3>1. drawn \in [Keys -> 0..MaxMounts]
      BY DEF PageInv, CheckoutTypeOK
    <3>2. CASE m = mount
      <4>1. KeysOf(m)' = KeysOf(m) \cup {k} /\ k \notin KeysOf(m)
        BY <1>0, <2>1, <2>3, <3>1, <3>2 DEF KeysOf
      <4>2. IsFiniteSet(KeysOf(m)') /\ Cardinality(KeysOf(m)') = Cardinality(KeysOf(m)) + 1
        BY <1>0, <4>1, FS_AddElement
      <4>3. Cardinality(KeysOf(m)) <= cycles[m]
        BY <1>0, <2>1, <2>3, <3>2 DEF KeysAreOfCycles, Begun
      <4> QED
        BY <1>0, <2>1, <4>2, <4>3 DEF Begun
    <3>3. CASE m # mount
      <4>1. KeysOf(m)' = KeysOf(m)
        BY <1>0, <2>1, <2>3, <3>1, <3>3 DEF KeysOf
      <4> QED
        BY <1>0, <2>1, <3>3, <4>1 DEF KeysAreOfCycles, Begun
    <3> QED
      BY <3>2, <3>3
  <2> QED
    BY <1>4, <2>2, <2>3, SubmitWrites
<1>5. ASSUME NEW k \in Keys, NEW e \in Evidence, reconcile(k, e)
      PROVE  KeysAreOfCycles'
  <2>1. form'.pending = form.pending /\ form'.submitted = form.submitted
    BY <1>5, ReconcileWrites, FormWrites
  <2> QED
    BY <1>5, <2>1, ReconcileWrites, CyclesKept DEF Begun
<1>6. CASE newOrder
  <2> SUFFICES ASSUME NEW m \in Mounts
               PROVE  /\ IsFiniteSet(KeysOf(m)')
                      /\ Cardinality(KeysOf(m)') <= cycles'[m] + Begun(m)'
    BY DEF KeysAreOfCycles
  <2>1. /\ UNCHANGED <<mount, drawn>> /\ form.submitted /\ cycles' = [cycles EXCEPT ![mount] = @ + 1]
        /\ mount \in Mounts /\ cycles \in [Mounts -> Nat]
    BY <1>6, ClosedPage DEF newOrder, PageInv, CheckoutTypeOK
  <2>2. KeysOf(m)' = KeysOf(m)
    BY <2>1 DEF KeysOf
  <2> QED
    BY <1>0, <2>1, <2>2 DEF KeysAreOfCycles, Begun
<1>7. ASSUME NEW r \in wire, Serve(r)
      PROVE  KeysAreOfCycles'
  BY <1>7, CyclesKept DEF Serve, page, Begun
<1>8. ASSUME NEW r \in wire, Refuse(r)
      PROVE  KeysAreOfCycles'
  BY <1>8, CyclesKept DEF Refuse, page, Begun
<1>9. CASE Failure
  <2>1. form'.pending = form.pending /\ form'.submitted = form.submitted
    BY <1>9, FormWrites DEF Failure
  <2> QED
    BY <1>9, <2>1, CyclesKept DEF Failure, Begun
<1>10. CASE Continue
  <2>1. /\ UNCHANGED <<mount, drawn, cycles>>
        /\ \/ form'.pending = form.pending /\ form'.submitted = form.submitted
           \/ form'.submitted
    BY <1>10, ContinueWrites
  <2> QED
    BY <2>1, CyclesKept DEF Begun
<1>11. CASE UNCHANGED cvars
  BY <1>11, CyclesKept DEF cvars, page, Begun
<1> QED
  BY <1>1, <1>2, <1>3, <1>4, <1>5, <1>6, <1>7, <1>8, <1>9, <1>10, <1>11 DEF CheckoutNext

-----------------------------------------------------------------------------
(* The checkout: outcomes *)

\* An answer that waits to be taken up tells no final outcome the server does not hold.
AnswersAreFinal ==
    reply # None =>
        /\ \A k \in Keys : reply.orders[k] \in Final => state[k] = reply.orders[k]
        /\ waiting.key \in Keys /\ reply.order \in Final => state[waiting.key] = reply.order

FinalInv == ShownFinalIsFinal /\ AnswersAreFinal

LEMMA FinalsStart == CheckoutInit => FinalInv
  BY BlankTypes, NoneIsNothing
  DEF CheckoutInit, FinalInv, ShownFinalIsFinal, AnswersAreFinal

\* What the form shows of orders and their outcome is left as it is.
LEMMA ShownIsKept ==
  ASSUME ShownFinalIsFinal, UNCHANGED state,
         form'.orders = form.orders, form'.result = form.result \/ form'.result = None
  PROVE  ShownFinalIsFinal'
  BY DEF ShownFinalIsFinal

LEMMA FinalsStep == PageInv /\ FinalInv /\ [CheckoutNext]_cvars => FinalInv'
<1> SUFFICES ASSUME PageInv, FinalInv, [CheckoutNext]_cvars
             PROVE  FinalInv'
  OBVIOUS
<1> USE NoneIsNothing DEF FinalInv
<1>1. CASE OpenCheckout
  BY <1>1 DEF OpenCheckout, net, server, ShownFinalIsFinal, AnswersAreFinal
<1>2. CASE LeaveCheckout
  BY <1>2, BlankTypes DEF LeaveCheckout, server, ShownFinalIsFinal, AnswersAreFinal
<1>3. CASE refresh
  <2>1. form'.orders = form.orders /\ form'.result = form.result
    BY <1>3, RefreshWrites, FormWrites
  <2> QED
    BY <1>3, <2>1, RefreshWrites, ShownIsKept DEF AnswersAreFinal
<1>4. ASSUME NEW k \in Keys, NEW s \in Scenarios, submit(k, s)
      PROVE  FinalInv'
  BY <1>4, SubmitWrites, ShownIsKept DEF AnswersAreFinal
<1>5. ASSUME NEW k \in Keys, NEW e \in Evidence, reconcile(k, e)
      PROVE  FinalInv'
  <2>1. form'.orders = form.orders /\ form'.result = form.result
    BY <1>5, ReconcileWrites, FormWrites
  <2> QED
    BY <1>5, <2>1, ReconcileWrites, ShownIsKept DEF AnswersAreFinal
<1>6. CASE newOrder
  <2>1. form'.orders = form.orders /\ form'.result = None
    BY <1>6, FormWrites DEF newOrder
  <2> QED
    BY <1>6, <2>1, ShownIsKept DEF newOrder, net, server, AnswersAreFinal
<1>7. ASSUME NEW r \in wire, Serve(r)
      PROVE  FinalInv'
  <2>1. /\ \A k \in Keys : state[k] \in Final => state'[k] = state[k]
        /\ UNCHANGED <<form, waiting>>
    BY <1>7, ServeWrites
  <2>2. ShownFinalIsFinal'
    <3>1. form.result # None => form.result.key \in Keys
      BY DEF PageInv, CheckoutTypeOK, Results
    <3> QED
      BY <2>1, <3>1 DEF ShownFinalIsFinal
  <2>3. CASE reply' = reply
    BY <2>1, <2>2, <2>3 DEF AnswersAreFinal
  <2>4. CASE waiting = r /\ reply'.orders = state' /\ (r.key # None => reply'.order = state'[r.key])
    BY <2>1, <2>2, <2>4 DEF AnswersAreFinal
  <2> QED
    BY <1>7, <2>3, <2>4, ServeWrites
<1>8. ASSUME NEW r \in wire, Refuse(r)
      PROVE  FinalInv'
  BY <1>8 DEF Refuse, page, server, ShownFinalIsFinal, AnswersAreFinal
<1>9. CASE Failure
  <2>1. form'.orders = form.orders /\ form'.result = form.result
    BY <1>9, FormWrites DEF Failure
  <2> QED
    BY <1>9, <2>1, ShownIsKept DEF Failure, server, AnswersAreFinal
<1>10. CASE Continue
  <2>1. UNCHANGED state /\ reply' = None /\ reply # None
    BY <1>10, ContinueWrites
  <2>2. CASE form'.orders = reply.orders /\ form'.result = form.result
    BY <2>1, <2>2 DEF ShownFinalIsFinal, AnswersAreFinal
  <2>3. CASE /\ form'.orders = form.orders /\ waiting.key \in Keys
             /\ form'.result = [key |-> waiting.key, state |-> reply.order]
    BY <2>1, <2>3 DEF ShownFinalIsFinal, AnswersAreFinal
  <2> QED
    BY <1>10, <2>2, <2>3, ContinueWrites
<1>11. CASE UNCHANGED cvars
  BY <1>11 DEF cvars, page, net, server, ShownFinalIsFinal, AnswersAreFinal
<1> QED
  BY <1>1, <1>2, <1>3, <1>4, <1>5, <1>6, <1>7, <1>8, <1>9, <1>10, <1>11 DEF CheckoutNext

-----------------------------------------------------------------------------
(* The theorems about the checkout *)

CheckoutInv == PageInv /\ KeyIsPending /\ KeysAreOfCycles /\ FinalInv

LEMMA CheckoutInvariant == CheckoutSpec => []CheckoutInv
<1>1. CheckoutInit => CheckoutInv
  BY PageStarts, KeysStart, CyclesStart, FinalsStart DEF CheckoutInv
<1>2. CheckoutInv /\ [CheckoutNext]_cvars => CheckoutInv'
  BY PageStep, KeysStep, CyclesStep, FinalsStep DEF CheckoutInv
<1> QED
  BY <1>1, <1>2, PTL DEF CheckoutSpec

\* The page, what is on the wire and the orders of the server keep their types.
THEOREM CheckoutTypes == CheckoutSpec => []CheckoutTypeOK
<1>1. CheckoutInv => CheckoutTypeOK
  BY DEF CheckoutInv, PageInv
<1> QED
  BY <1>1, CheckoutInvariant, PTL

\* No lost answer, late request or "new order" makes the page forget a key the server may
\* have acted on.
THEOREM UntoldOrdersArePending == CheckoutSpec => []UntoldOrderIsPending
<1>1. CheckoutInv => UntoldOrderIsPending
  BY DEF CheckoutInv, KeyIsPending, UntoldOrderIsPending
<1> QED
  BY <1>1, CheckoutInvariant, PTL

\* While the view stays open, one order is created for each cycle.
THEOREM CyclesHaveOneOrder == CheckoutSpec => []OneOrderPerCycle
<1>1. CheckoutInv => OneOrderPerCycle
  <2> SUFFICES ASSUME CheckoutInv, NEW m \in Mounts
               PROVE  Cardinality({k \in Keys : drawn[k] = m /\ state[k] # None}) <= 1 + cycles[m]
    BY DEF OneOrderPerCycle
  <2> DEFINE ordered == {k \in Keys : drawn[k] = m /\ state[k] # None}
  <2>1. IsFiniteSet(KeysOf(m)) /\ ordered \subseteq KeysOf(m)
    BY DEF CheckoutInv, KeysAreOfCycles, KeysOf
  <2>2. Cardinality(ordered) \in Nat /\ Cardinality(ordered) <= Cardinality(KeysOf(m))
    BY <2>1, FS_Subset, FS_CardinalityType
  <2>3. Cardinality(KeysOf(m)) \in Nat /\ cycles[m] \in Nat
    BY <2>1, FS_CardinalityType DEF CheckoutInv, PageInv, CheckoutTypeOK
  <2>4. Cardinality(KeysOf(m)) <= cycles[m] + Begun(m) /\ Begun(m) \in {0, 1}
    BY DEF CheckoutInv, KeysAreOfCycles, Begun
  <2> QED
    BY <2>2, <2>3, <2>4
<1> QED
  BY <1>1, CheckoutInvariant, PTL

\* An outcome the page shows as final is the one the server holds.
THEOREM ShownFinalsAreFinal == CheckoutSpec => []ShownFinalIsFinal
<1>1. CheckoutInv => ShownFinalIsFinal
  BY DEF CheckoutInv, FinalInv
<1> QED
  BY <1>1, CheckoutInvariant, PTL

\* The views of the console leave each other alone (App.tsx gives them no common state):
\* what is proved of each holds of the whole.
LEMMA ViewsAreIndependent == ConsoleSpec => ViewSpec /\ CurationSpec /\ CheckoutSpec
<1>1. ConsoleInit => ViewInit /\ CurationInit /\ CheckoutInit
  BY DEF ConsoleInit
<1>2. [ConsoleNext]_cnvars => [ViewNext]_vvars /\ [CurationNext]_cuvars /\ [CheckoutNext]_cvars
  BY DEF ConsoleNext, Overview, Curation, Checkout, cnvars
<1> QED
  BY <1>1, <1>2, PTL DEF ConsoleSpec, ViewSpec, CurationSpec, CheckoutSpec

=============================================================================
