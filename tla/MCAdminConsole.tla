---------------------------- MODULE MCAdminConsole ----------------------------
(* Instances of AdminConsole for TLC: in the curation, two admins of a catalog with one
   offer, one of whom always sees it and drafts nothing incomplete, or one admin who
   drafts the first revision from two offers.                                         *)
EXTENDS AdminConsole

Away(e) == ui[e] = LoadingView /\ fetch[e] = Idle

Drafts == {document.listings} \cup {ui[e].listings : e \in {x \in Editors : IsReady(x)}}
Seen   == UNION {Linked(L) : L \in Drafts}
             \cup UNION {ui[e].offers : e \in {x \in Editors : IsReady(x)}}

SmallOrAlone ==
    \/ /\ Seen \subseteq {CHOOSE o \in Offers : TRUE}
       /\ \A L \in Drafts : DOMAIN L \subseteq {CHOOSE id \in ListingIds : TRUE}
       /\ \A e \in Editors \ Patient : IsReady(e) => ui[e].offers # {} /\ Shaped(ui[e].listings)
    \/ /\ document.revision = 0
       /\ \E e \in Editors : \A x \in Editors \ {e} : Away(x) /\ \A i \in Slots : save[e][i] = NoSave
=============================================================================
