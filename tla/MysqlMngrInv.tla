---------------------------- MODULE MysqlMngrInv ----------------------------
(***************************************************************************)
(* The inductive invariant behind the safety properties of MysqlMngr: what *)
(* the flags of a query, the position of its worker and the lists of the   *)
(* poller and of the game thread say about each other.  It is stated for   *)
(* one query at a time.                                                    *)
(***************************************************************************)
EXTENDS MysqlMngr

InFrameForward(q) ==
  q = cur /\ gpc \in {"popped", "callback", "finish", "count"}

(* Only queries that were created appear anywhere; a query in the maps is  *)
(* not deleted; sync queries have no thread, and the ones that plugins     *)
(* hold are in the maps and gone before stop() marks anything.             *)
CreatedFacts(q) ==
  /\ q \in m_queries \/ q \in deleted \/ q \in async \/ q \in started
     \/ q \in aborted \/ q \in finished \/ q \in successful => q <= nums
  /\ q \in m_queries => q \notin deleted
  /\ q \in m_threads \/ q \in finished_threads => q \in async
  /\ q \in handles => /\ q \in m_queries /\ q \notin async
                      /\ q \notin finished /\ q \notin aborted
                      /\ gpc \notin {"stop_frames", "stop_mark", "stop_clear"}

(* The poller's lists exclude each other and are empty outside the phases  *)
(* that use them.                                                          *)
PollerFacts(q) ==
  /\ q \in todo => /\ ppc \in {"visit", "decide"} /\ q \in m_queries
                   /\ q \notin start_queries /\ q \notin finished_queries
                   /\ q \notin finished_threads
  /\ q \in start_queries => ppc \in {"visit", "decide"}
  /\ q \in finished_queries => /\ ppc # "sleep"
                               /\ q \in finished \/ q \in aborted
                               /\ q \in m_threads => q \in aborted
  /\ q \in finished_threads => ppc # "sleep"
  /\ q \in m_threads /\ q \in deleted => q \in aborted

(* The query that the poller decides on. *)
DecideFacts(q) ==
  ppc = "decide" /\ q = pq =>
    /\ q \in m_queries /\ (q \in finished \/ q \in aborted)
    /\ q \notin todo /\ q \notin start_queries /\ q \notin finished_queries
    /\ q \notin aborted => q \notin m_threads
    /\ q \in async /\ q \notin aborted => q \in finished_threads
    /\ q \in finished_threads =>
         q \in finished \/ (q \in aborted /\ q \in framed)

(* A finished or successful async query holds its start; one out of        *)
(* retries is finished.                                                    *)
FlagFacts(q) ==
  /\ q \in async /\ (q \in finished \/ q \in successful) => q \in started
  /\ retry_count[q] >= QUERY_RETRY_COUNT => q \in finished

(* A query on its way to a thread. *)
StartFacts(q) ==
  q \in start_queries =>
    /\ q \in async /\ q \in started /\ q \in m_queries
    /\ q \notin successful /\ q \notin finished /\ q \notin aborted
    /\ q \notin m_threads /\ q \notin finished_threads
    /\ wpc[q] = "none"

(* A query whose worker still touches it. *)
RunFacts(q) ==
  wpc[q] \in Touching =>
    /\ q \in async /\ q \in started /\ q \notin finished
    /\ q \notin m_frames /\ ~InFrameForward(q)
    /\ q \notin finished_threads \/ q \in aborted
    /\ q \in m_queries \/ q \in aborted
    /\ wpc[q] \in {"frame", "push"} => q \in successful
    /\ wpc[q] = "push" => q \in framed

(* A worker past its last access to the query. *)
ReturnFacts(q) ==
  /\ wpc[q] = "count" =>
       /\ q \in async /\ q \notin m_frames /\ ~InFrameForward(q)
       /\ (q \in finished /\ q \in started) \/ q \in finished_threads
  /\ wpc[q] = "exit" /\ q \notin aborted =>
       \/ q \in m_frames \/ InFrameForward(q)
       \/ q \in finished \/ q \in finished_threads
       \/ gpc = "stop_mark" /\ q \in m_queries /\ q \in started

(* A result that waits for a frame, or is being forwarded. *)
FrameFacts(q) ==
  /\ q \in m_frames \/ InFrameForward(q) =>
       /\ q \in async /\ q \in successful
       /\ wpc[q] \in {"exit", "none"}
  /\ q \in m_frames => ~InFrameForward(q)
  /\ InFrameForward(q) /\ gpc = "count" => q \in finished
  /\ q \in m_frames \/ (InFrameForward(q) /\ gpc # "count") =>
       /\ q \notin finished
       /\ q \notin aborted =>
            wpc[q] = "exit" /\ q \in m_queries /\ q \notin finished_threads

(* Where the thread object of a started query is. *)
ThreadFacts(q) ==
  /\ q \in m_queries /\ q \in async /\ q \in started =>
       q \in m_threads \/ q \in start_queries \/ q \in finished_threads
  /\ q \in finished_threads =>
       \/ q \notin started \/ q \in finished_queries \/ q \notin m_queries
       \/ ppc = "decide" /\ q = pq
  /\ q \in m_threads => q \in started /\ q \notin finished_threads

QueryInv(q) ==
  /\ CreatedFacts(q) /\ PollerFacts(q) /\ DecideFacts(q) /\ FlagFacts(q)
  /\ StartFacts(q) /\ RunFacts(q) /\ ReturnFacts(q) /\ FrameFacts(q)
  /\ ThreadFacts(q)

(* During the first map nothing is aborted. *)
FirstMap ==
  stops = 0 => /\ aborted = {} /\ ~stop_threads
               /\ gpc \notin {"stop_frames", "stop_mark", "stop_clear"}

(* The inductive invariant of poll_query, run_query, frame_forward and     *)
(* stop() taken together.                                                  *)
IInv == FirstMap /\ \A q \in Query : QueryInv(q)
=============================================================================
