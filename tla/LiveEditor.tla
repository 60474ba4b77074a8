------------------------------ MODULE LiveEditor ------------------------------
(***************************************************************************)
(* Sessions (LiveSession) and copy edits (CopyEdits) of one tab.  They     *)
(* share no state: all an apply does to a session is to keep the user from *)
(* acting (pendingApplyInFlight), and LiveSession has a user who may wait  *)
(* at any time.  A behaviour here is one of either.                        *)
(***************************************************************************)
EXTENDS LiveSession, CopyEdits

VARIABLE part

SessionStep == part = "session" /\ Next /\ UNCHANGED <<part, copied>>
CopyStep    == part = "copy" /\ CopyNext /\ UNCHANGED <<part, vars>>

\* Copy edits are the same on either kind of page.
EditorInit ==
    /\ Init /\ CopyInit
    /\ part \in {"session", "copy"}
    /\ part = "copy" => framework

EditorNext == SessionStep \/ CopyStep

EditorSpec == EditorInit /\ [][EditorNext]_<<part, vars, copied>>

=============================================================================
