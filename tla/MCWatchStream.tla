---------------------------- MODULE MCWatchStream ----------------------------
(***************************************************************************)
(* One query over two documents, with one lookup of a document at a time.  *)
(***************************************************************************)
EXTENDS WatchStream

CONSTANTS k1, k2

NoFaults == [f \in Fault |-> 0]

MCFaults == [f \in Fault |-> 2]

(***************************************************************************)
(* Four scenarios.  Versions and faults are only counted up and no         *)
(* fairness makes them happen, so within OneTrouble are all behaviours of  *)
(* each scenario by itself, with its liveness.                             *)
(***************************************************************************)
Within(bounds, version) ==
  Latest <= version /\ \A f \in Fault : faults[f] <= bounds[f]

(* The query is given up and listened to again, over a restart. *)
Churn == [NoFaults EXCEPT !["listen"] = 2, !["stop"] = 1, !["break"] = 1,
                          !["remove"] = 1, !["kill"] = 1]

(* Documents come into limbo and are looked up. *)
Limbo == [NoFaults EXCEPT !["listen"] = 1, !["break"] = 1, !["remove"] = 1,
                          !["reset"] = 1, !["deny"] = 1, !["offline"] = 1]

(* The count does not match, twice, with the stream breaking. *)
Filter == [NoFaults EXCEPT !["listen"] = 1, !["break"] = 2,
                           !["offline"] = 1, !["filter"] = 2]

(***************************************************************************)
(* The count does not match; a lookup that comes of it is resumed and told *)
(* that there is no document, which takes three versions.                  *)
(***************************************************************************)
Counts == [NoFaults EXCEPT !["listen"] = 1, !["break"] = 2,
                           !["filter"] = 2, !["remove"] = 1]

OneTrouble == \/ Within(Churn, 2) \/ Within(Limbo, 3)
              \/ Within(Filter, 2)
              \/ Within(Counts, 3)

(* An app killed after a mismatch. *)
MismatchFaults == [NoFaults EXCEPT !["listen"] = 2, !["break"] = 1,
                                   !["kill"] = 1, !["filter"] = 1]
==============================================================================
