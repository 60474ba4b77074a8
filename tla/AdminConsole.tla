----------------------------- MODULE AdminConsole -----------------------------
(***************************************************************************)
(* App.tsx: the overview with its catalog, the curation of the seller      *)
(* catalog, and the checkout, which it shows one at a time.  The three     *)
(* share no state, so what is done in one leaves the others as they are: a *)
(* behaviour here moves one of them.                                       *)
(***************************************************************************)
EXTENDS CatalogView, CatalogCuration, MockCheckout

VARIABLE part   \* the view of the console that is used

Overview == part = "overview" /\ ViewNext /\ UNCHANGED <<part, cuvars, cvars>>
Curation == part = "curation" /\ CurationNext /\ UNCHANGED <<part, vvars, cvars>>
Checkout == part = "checkout" /\ CheckoutNext /\ UNCHANGED <<part, vvars, cuvars>>

ConsoleInit ==
    ViewInit /\ CurationInit /\ CheckoutInit /\ part \in {"overview", "curation", "checkout"}

ConsoleNext == Overview \/ Curation \/ Checkout

\* What happens without the operator: React runs pending effects, and a fetch of the
\* overview ends, if only by failing.
ReactRuns == part = "overview" /\ RunEffects /\ UNCHANGED <<part, cuvars, cvars>>
ReadEnds  == part = "overview" /\ Answer /\ UNCHANGED <<part, cuvars, cvars>>

cnvars == <<part, vvars, cuvars, cvars>>

ConsoleSpec == ConsoleInit /\ [][ConsoleNext]_cnvars /\ WF_cnvars(ReactRuns) /\ WF_cnvars(ReadEnds)

\* The panels of the overview leave their loading state for good after the last click:
\* whatever is aborted, refused or overtaken, a continuation is left that ends it.
OverviewSettles ==
    <>[](part = "overview" => catalog.kind # "loading" /\ supplier.kind # "loading")

=============================================================================
