----------------------------- MODULE MCScreens --------------------------------
(***************************************************************************)
(* Screens.tla for TLC: lists of up to four records, of which two share a  *)
(* key, on pages of two and three.                                           *)
(***************************************************************************)
EXTENDS Screens, TLC

MCMatching == "all" :> Rows @@ "some" :> {1, 2, 3}

\* Lists without forms are paged through further; the schedule, which does everything, less far.
MCAll == [s \in Screens |-> CASE s \in {Pages, AuditLog} -> 5 [] s = Scheduler -> 2 [] OTHER -> 3]

Record(key) == [state |-> "on", key |-> key, version |-> 1]
New == [state |-> "new", key |-> 1, version |-> 0]
Gone == [state |-> "gone", key |-> 1, version |-> 0]
MCTables ==
    "no" :> {<<Record(1), New, New, Gone>>} @@ "next" :> {<<Record(1), Record(2), Record(2), New>>}
    @@ "pages" :> {<<Record(1), Record(2), Record(2), New>>}
=============================================================================
