---------------------------- MODULE MCLiveEditor -----------------------------
(* One tab of a static page or of one with hot reloads. *)
EXTENDS LiveEditor

\* At most two requests are on their way when another is posted.
FewRequests == Cardinality(posts) <= 2

=============================================================================
