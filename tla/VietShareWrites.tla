---------------------------- MODULE VietShareWrites ----------------------------
(***************************************************************************)
(* The two write paths of suppliers/vietshare: the PostgreSQL gate, and    *)
(* the offline adapter with its SQLite journal.  They share no state, not  *)
(* even a supplier account, so a step of one leaves the other as it is: a  *)
(* behaviour here is one of either.                                        *)
(***************************************************************************)
EXTENDS VietShareGate, WriteJournal

VARIABLE path   \* the write path that is used

Gate    == path = "gate" /\ Next /\ UNCHANGED <<path, jvars>>
Offline == path = "offline" /\ JournalNext /\ UNCHANGED <<path, vars>>

WritesInit == Init /\ JournalInit /\ path \in {"gate", "offline"}

WritesNext == Gate \/ Offline

WritesSpec == WritesInit /\ [][WritesNext]_<<path, vars, jvars>>

=============================================================================
