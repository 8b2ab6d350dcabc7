---------------------------- MODULE MysqlService ----------------------------
(* The detailed query service of MysqlMngr implements QueryService.        *)
EXTENDS MysqlMngr

(* A query is cancelled once stop() marked it, released once the poller    *)
(* deleted it, and delivered once its QueryHandler was entered.            *)
StatusOf(q) ==
  IF q > nums THEN "unused"
  ELSE IF q \in aborted THEN "cancelled"
  ELSE IF q \in deleted THEN "released"
  ELSE IF calls[q] > 0 THEN "delivered"
  ELSE "pending"

Service == INSTANCE QueryService WITH
  Queries  <- Query,
  Tries    <- QUERY_RETRY_COUNT,
  status   <- [q \in Query |-> StatusOf(q)],
  tries    <- retry_count,
  callable <- fwd \ heap_low,
  stopping <- stop_threads

(* Refinement: whatever the game thread, the poller and the workers do in  *)
(* between (refsapi_mysql_mngr.h l.280-460, l.980-1010), each step is a    *)
(* step of the abstract service or invisible to it.  In particular a query *)
(* that no map change cancels is released only after its handler was       *)
(* called, after three failures, or when it has no handler to call; it is  *)
(* never retried or called again after that; and a map change cancels all  *)
(* queries at the same time.                                               *)
ImplementsService == Service!Spec

=============================================================================
