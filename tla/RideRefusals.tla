----------------------------- MODULE RideRefusals -----------------------------
(***************************************************************************)
(* When AcceptRide or CompleteRide may answer nullopt (a 409 of the        *)
(* handlers).  RideTransactions says a refused call leaves the tables      *)
(* alone; that would also hold if every call were refused.  This module    *)
(* adds the history a client could argue from: the calls that could have   *)
(* succeeded at every moment since they began.                             *)
(***************************************************************************)
EXTENDS RideTransactions

VARIABLE alwaysPossible   \* sessions whose call was possible all along

\* The atomic call of TaxiStorage would succeed on the committed tables.
Possible(s) ==
  \/ /\ txn[s].op = "accept"
     /\ drivers[txn[s].driver].status = "online"
     /\ rides[txn[s].ride].status = "searching"
  \/ /\ txn[s].op = "complete"
     /\ rides[txn[s].ride].status = "accepted"

Observe ==
  alwaysPossible' =
    {s \in Session : /\ Possible(s)'
                     /\ txn[s].pc = "idle" \/ s \in alwaysPossible}

HistoryInit == DbInit /\ alwaysPossible = {}

HistoryNext == DbNext /\ Observe

HistorySpec == HistoryInit /\ [][HistoryNext]_<<dbVars, alwaysPossible>>

\* The history does not disable a step: the fairness is that of FairSpec.
FairHistorySpec ==
  /\ HistorySpec
  /\ \A s \in Session : WF_dbVars(Finish(s)) /\ SF_dbVars(Acquire(s))

\* A call is refused only if at some moment between its begin and its refusal
\* the committed tables did not allow it: waiting behind a transaction that is
\* rolled back in the end never costs a call its ride.
RefusedOnlyIfImpossible ==
  \A s \in Session : txn[s].pc = "rollback" => s \notin alwaysPossible
=============================================================================
