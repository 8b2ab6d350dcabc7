----------------------------- MODULE MysqlMngr -----------------------------
(***************************************************************************)
(* The asynchronous query service of refsapi_mysql_mngr.h.                 *)
(*                                                                         *)
(* Three kinds of threads share it:                                        *)
(*   - the game thread runs the natives (tuple, async query, sync query,   *)
(*     free), frame_forward() once per server frame, and stop() when the   *)
(*     map ends;                                                           *)
(*   - the poller runs main(): poll_query() every 5 ms;                    *)
(*   - one worker per started query runs run_query().                      *)
(*                                                                         *)
(* A query is named by its id, handed out in creation order.  A boolean    *)
(* field of m_query_t is the set of the queries that have it set.          *)
(***************************************************************************)
EXTENDS Integers, FiniteSets, Sequences

CONSTANTS
  MaxQueries,     \* bound: queries created in a behaviour
  Priorities,     \* the priorities that plugins pass to rf_sql_async_query
  Tuple,          \* the tuples they create: "callback", "silent"
  MaxThreads,     \* max_threads: half of the processors, clamped to 1..4
  MaxTuples,      \* bound: tuples per map, and the largest conn_id in use
  MaxStops,       \* bound: map changes
  MaxEach,        \* bound: async queries of one priority among them
  MaxSync         \* bound: sync queries among them

MAX_QUERY_PRIORITY == 5
QUERY_RETRY_COUNT == 3
AnyTuple == {"callback", "silent"}

ASSUME ConstantsAssumption ==
  /\ MaxQueries \in Nat
  /\ Priorities \subseteq 0 .. MAX_QUERY_PRIORITY
  /\ Tuple \subseteq AnyTuple
  /\ MaxThreads \in 1 .. 4
  /\ MaxTuples \in Nat
  /\ MaxStops \in Nat
  /\ MaxEach \in Nat /\ MaxSync \in Nat

Query == 1 .. MaxQueries

VARIABLES
  nums,              \* m_query_nums: queries created so far
  m_queries,         \* queries in the maps m_queries[pri]
  deleted,           \* queries whose m_query_t was deleted
  async, pri, conn_id, \* fields fixed by prepare_query
  started, aborted, finished, successful, framed,   \* atomic flags
  retry_count,
  conn,              \* q->conn # nullptr
  fwd,               \* q->prms.fwd names a callback
  m_conn_prms,       \* the tuples of the map, each with or without a callback
  m_frames,          \* results waiting for a server frame
  num_threads, num_finished, stop_threads,
  m_threads,         \* queries whose std::thread is registered
  wpc,               \* worker of a query
  gpc, cur,          \* game thread and the query frame_forward() holds
  calls, heap_low,   \* history: callbacks executed; callbacks lost to a full heap
  handles,           \* sync queries that a plugin may still use
  ppc, pq,           \* poller and the query it decides on
  todo, start_queries, finished_queries, finished_threads,
  stops

fields  == <<async, pri, conn_id>>
flags   == <<started, aborted, finished, successful, framed, retry_count>>
links   == <<conn, fwd, m_conn_prms>>
memory  == <<nums, m_queries, deleted, fields, handles>>
counts  == <<num_threads, num_finished>>
history == <<calls, heap_low>>
game    == <<gpc, cur, stop_threads, stops>>
poll    == <<ppc, pq, todo, start_queries, finished_queries,
             finished_threads, m_threads>>

vars == <<memory, flags, links, m_frames, counts, history, game, poll, wpc>>

(***************************************************************************)
(* Locks.  A thread holds a mutex exactly while it is at these points.     *)
(***************************************************************************)
ThreadsMutexFree == ppc \notin {"visit", "decide"}
FrameMutexFree   == gpc # "stop_mark" /\ \A q \in Query : wpc[q] # "push"

(* max_threads << (MAX_QUERY_PRIORITY - pri) *)
Limit(p) == MaxThreads * <<32, 16, 8, 4, 2, 1>>[p + 1]

(* Mutant: the limit itself is allowed. *)
ThreadsCountUpTo(limit) ==
  LET num == num_threads - num_finished IN num >= 0 /\ num <= limit

(* threads_count() < limit compares an int with a size_t: a negative count *)
(* converts to a value above every limit.                                  *)
ThreadsCountBelow(limit) ==
  LET num == num_threads - num_finished IN num >= 0 /\ num < limit

(* The order of the maps: by priority, then by id. *)
Before(q, r) == pri[q] < pri[r] \/ (pri[q] = pri[r] /\ q <= r)
IsFirst(q, S) == q \in S /\ \A r \in S : Before(q, r)

Init ==
  /\ nums = 0 /\ m_queries = {} /\ deleted = {}
  /\ async = {} /\ pri = [q \in Query |-> MAX_QUERY_PRIORITY]
  /\ conn_id = [q \in Query |-> 0]
  /\ started = {} /\ aborted = {} /\ finished = {} /\ successful = {}
  /\ framed = {} /\ retry_count = [q \in Query |-> 0]
  /\ conn = {} /\ fwd = {} /\ m_conn_prms = <<>>
  /\ m_frames = {} /\ num_threads = 0 /\ num_finished = 0
  /\ stop_threads = FALSE /\ m_threads = {}
  /\ wpc = [q \in Query |-> "none"]
  /\ gpc = "idle" /\ cur = 0 /\ handles = {}
  /\ calls = [q \in Query |-> 0] /\ heap_low = {}
  /\ ppc = "sleep" /\ pq = 0
  /\ todo = {} /\ start_queries = {} /\ finished_queries = {}
  /\ finished_threads = {}
  /\ stops = 0

-----------------------------------------------------------------------------
(* Game thread: natives, called by plugins between frames or in a callback. *)

InPlugin == gpc \in {"idle", "callback"}

(* rf_sql_tuple: a tuple with or without a callback. *)
AddConnect ==
  /\ InPlugin
  /\ Len(m_conn_prms) < MaxTuples
  /\ \E tuple \in Tuple : m_conn_prms' = Append(m_conn_prms, tuple)
  /\ UNCHANGED <<memory, flags, conn, fwd, m_frames, counts, history, game,
                 poll, wpc>>

(* prepare_query: a fresh query enters the map of its priority. *)
PrepareQuery(is_async, p, c) ==
  /\ InPlugin
  /\ ThreadsMutexFree
  /\ nums < MaxQueries
  /\ nums' = nums + 1
  /\ m_queries' = m_queries \cup {nums'}
  /\ async' = IF is_async THEN async \cup {nums'} ELSE async
  /\ pri' = [pri EXCEPT ![nums'] = p]
  /\ conn_id' = [conn_id EXCEPT ![nums'] = c]
  /\ handles' = IF is_async THEN handles ELSE handles \cup {nums'}
  /\ UNCHANGED <<deleted, flags, links, m_frames, counts, history, game,
                 poll, wpc>>

(* rf_sql_async_query; conn_id may name a tuple that does not exist. *)
PushQuery ==
  \E p \in Priorities, c \in 1 .. MaxTuples :
    /\ Cardinality({q \in async : pri[q] = p}) < MaxEach
    /\ PrepareQuery(TRUE, p, c)

(* rf_sql_query: a query on a connection of rf_sql_connect. *)
PrepareSync ==
  /\ nums - Cardinality(async) < MaxSync
  /\ PrepareQuery(FALSE, MAX_QUERY_PRIORITY, 0)

(* Mutant: exec_query also marks the query finished. *)
ExecQueryFinishes(q) ==
  /\ InPlugin
  /\ q \in handles
  /\ q \notin finished \cup aborted \cup started
  /\ started' = started \cup {q}
  /\ finished' = finished \cup {q}
  /\ UNCHANGED <<memory, aborted, successful, framed, retry_count, links,
                 m_frames, counts, history, game, poll, wpc>>

(* rf_sql_exec *)
ExecQuery(q) ==
  /\ InPlugin
  /\ q \in handles
  /\ q \notin finished \cup aborted \cup started
  /\ started' = started \cup {q}
  /\ \/ successful' = successful \cup {q}
     \/ UNCHANGED successful
  /\ UNCHANGED <<memory, aborted, finished, framed, retry_count, links,
                 m_frames, counts, history, game, poll, wpc>>

(* rf_sql_free of a sync query only marks it; the poller releases it. *)
FreeSync(q) ==
  /\ InPlugin
  /\ q \in handles
  /\ handles' = handles \ {q}
  /\ finished' = finished \cup {q}
  /\ UNCHANGED <<nums, m_queries, deleted, fields, started, aborted,
                 successful, framed, retry_count, links, m_frames, counts,
                 history, game, poll, wpc>>

(* rf_sql_free of the async query whose callback runs closes its handle. *)
FreeInCallback ==
  /\ gpc = "callback"
  /\ cur \in conn
  /\ conn' = conn \ {cur}
  /\ UNCHANGED <<memory, flags, fwd, m_conn_prms, m_frames, counts, history,
                 game, poll, wpc>>

-----------------------------------------------------------------------------
(* Game thread: frame_forward(), one waiting result per server frame. *)

(* Mutant: the popped query is not handed to frame_forward. *)
GetFrameQueryLost ==
  /\ gpc = "idle" /\ ~stop_threads /\ FrameMutexFree
  /\ m_frames # {} /\ m_frames' = {}
  /\ gpc' = "popped"
  /\ UNCHANGED <<memory, flags, links, counts, history, cur, stop_threads,
                 stops, poll, wpc>>

(* get_frame_query pops the oldest result by the system clock, which may   *)
(* have been set back meanwhile: any of them.                              *)
GetFrameQuery ==
  /\ gpc = "idle"
  /\ ~stop_threads
  /\ FrameMutexFree
  /\ \E q \in m_frames :
       /\ m_frames' = m_frames \ {q}
       /\ cur' = q
  /\ gpc' = "popped"
  /\ UNCHANGED <<memory, flags, links, counts, history, stop_threads, stops,
                 poll, wpc>>

(* The test of q->aborted reads anything once the query is deleted. *)
MayAbort   == stop_threads \/ cur \in aborted \cup deleted
MayForward == (~stop_threads /\ cur \notin aborted) \/ cur \in deleted

ForwardAbort ==
  /\ gpc = "popped" /\ MayAbort
  /\ gpc' = "finish"
  /\ UNCHANGED <<memory, flags, links, m_frames, counts, history, cur,
                 stop_threads, stops, poll, wpc>>

(* ExecuteForward enters the plugin's QueryHandler. *)
ForwardExec ==
  /\ gpc = "popped" /\ MayForward
  /\ gpc' = "callback"
  /\ calls' = [calls EXCEPT ![cur] = @ + 1]
  /\ UNCHANGED <<memory, flags, links, m_frames, counts, heap_low, cur,
                 stop_threads, stops, poll, wpc>>

(* amx_allot fails: the error is logged and the handler is not called. *)
ForwardHeapLow ==
  /\ gpc = "popped" /\ MayForward
  /\ gpc' = "finish"
  /\ heap_low' = heap_low \cup {cur}
  /\ UNCHANGED <<memory, flags, links, m_frames, counts, calls, cur,
                 stop_threads, stops, poll, wpc>>

CallbackReturn ==
  /\ gpc = "callback"
  /\ gpc' = "finish"
  /\ UNCHANGED <<memory, flags, links, m_frames, counts, history, cur,
                 stop_threads, stops, poll, wpc>>

FinishFrame ==
  /\ gpc = "finish"
  /\ finished' = finished \cup {cur}
  /\ gpc' = "count"
  /\ UNCHANGED <<memory, started, aborted, successful, framed, retry_count,
                 links, m_frames, counts, history, cur, stop_threads, stops,
                 poll, wpc>>

CountFrame ==
  /\ gpc = "count"
  /\ num_finished' = num_finished + 1
  /\ gpc' = "idle" /\ cur' = 0
  /\ UNCHANGED <<memory, flags, links, m_frames, num_threads, history,
                 stop_threads, stops, poll, wpc>>

-----------------------------------------------------------------------------
(* Game thread: stop(), when the map ends and the plugins are unloaded. *)

StopBegin ==
  /\ gpc = "idle"
  /\ stops < MaxStops
  /\ stop_threads' = TRUE
  /\ stops' = stops + 1
  /\ handles' = {}
  /\ gpc' = "stop_frames"
  /\ UNCHANGED <<nums, m_queries, deleted, fields, flags, links, m_frames,
                 counts, history, cur, poll, wpc>>

(* Locks frame_mutex, drops the waiting results, keeps the lock. *)
StopFrames ==
  /\ gpc = "stop_frames"
  /\ FrameMutexFree
  /\ m_frames' = {}
  /\ gpc' = "stop_mark"
  /\ UNCHANGED <<memory, flags, links, counts, history, cur, stop_threads,
                 stops, poll, wpc>>

(* Locks threads_mutex inside, marks every query, releases both. *)
StopMark ==
  /\ gpc = "stop_mark"
  /\ ThreadsMutexFree
  /\ aborted' = aborted \cup m_queries
  /\ gpc' = "stop_clear"
  /\ UNCHANGED <<memory, started, finished, successful, framed, retry_count,
                 links, m_frames, counts, history, cur, stop_threads, stops,
                 poll, wpc>>

StopClear ==
  /\ gpc = "stop_clear"
  /\ stop_threads' = FALSE
  /\ m_conn_prms' = <<>>
  /\ gpc' = "idle"
  /\ UNCHANGED <<memory, flags, conn, fwd, m_frames, counts, history, cur,
                 stops, poll, wpc>>

-----------------------------------------------------------------------------
(* Worker of query q: run_query(). *)

Goto(q, from, to) == wpc[q] = from /\ wpc' = [wpc EXCEPT ![q] = to]

RunBegin(q) ==
  /\ Goto(q, "begin",
          IF stop_threads \/ q \in aborted THEN "finish" ELSE "connect")
  /\ UNCHANGED <<memory, flags, links, m_frames, counts, history, game, poll>>

(* async_connect up to the unlocked size test of get_connect: an aborted   *)
(* query fails, an open handle is reused, and a missing tuple drops the    *)
(* callback.                                                               *)
RunConnect(q) ==
  LET exists == conn_id[q] \in 1 .. Len(m_conn_prms) IN
  /\ Goto(q, "connect", CASE q \in aborted -> "check"
                          [] q \notin aborted /\ q \in conn -> "query"
                          [] q \notin aborted \cup conn /\ exists -> "tuple"
                          [] OTHER -> "check")
  /\ fwd' = IF q \in aborted \cup conn \/ exists THEN fwd ELSE fwd \ {q}
  /\ UNCHANGED <<memory, flags, conn, m_conn_prms, m_frames, counts, history,
                 game, poll>>

(* get_connect copies the tuple under prms_mutex (past the end of the list *)
(* if stop() emptied it meanwhile: any callback), then the handle is       *)
(* created and connected, each of which may fail.                          *)
RunTuple(q) ==
  /\ wpc[q] = "tuple"
  /\ \E tuple \in AnyTuple :
       /\ conn_id[q] <= Len(m_conn_prms) => tuple = m_conn_prms[conn_id[q]]
       /\ fwd' = IF tuple = "callback" THEN fwd \cup {q} ELSE fwd \ {q}
  /\ \/ conn' = conn \cup {q} /\ Goto(q, "tuple", "query")
     \/ conn' = conn \cup {q} /\ Goto(q, "tuple", "check")
     \/ conn' = conn /\ Goto(q, "tuple", "check")
  /\ UNCHANGED <<memory, flags, m_conn_prms, m_frames, counts, history, game,
                 poll>>

(* The server answers, or the query fails or times out. *)
RunExec(q) ==
  /\ Goto(q, "query", "check")
  /\ \/ successful' = successful \cup {q}
     \/ successful' = successful \ {q}
  /\ UNCHANGED <<memory, started, aborted, finished, framed, retry_count,
                 links, m_frames, counts, history, game, poll>>

RunCheck(q) ==
  /\ Goto(q, "check",
          IF \/ stop_threads \/ q \in aborted \/ q \notin fwd
             \/ q \notin successful /\ retry_count[q] < QUERY_RETRY_COUNT
          THEN "finish" ELSE "frame")
  /\ UNCHANGED <<memory, flags, links, m_frames, counts, history, game, poll>>

(* Mutant: the query is not marked framed. *)
RunFrameUnmarked(q) ==
  /\ FrameMutexFree
  /\ Goto(q, "frame", "push")
  /\ UNCHANGED <<memory, flags, links, m_frames, counts, history, game, poll>>

(* Locks frame_mutex until the push. *)
RunFrame(q) ==
  /\ FrameMutexFree
  /\ Goto(q, "frame", "push")
  /\ framed' = framed \cup {q}
  /\ UNCHANGED <<memory, started, aborted, finished, successful, retry_count,
                 links, m_frames, counts, history, game, poll>>

(* Mutant: a worker that pushed its result falls through to finished = true. *)
RunPushFinishes(q) ==
  /\ Goto(q, "push", "finish")
  /\ m_frames' = m_frames \cup {q}
  /\ UNCHANGED <<memory, flags, links, counts, history, game, poll>>

RunPush(q) ==
  /\ Goto(q, "push", "exit")
  /\ m_frames' = m_frames \cup {q}
  /\ UNCHANGED <<memory, flags, links, counts, history, game, poll>>

RunFinish(q) ==
  /\ Goto(q, "finish", "count")
  /\ finished' = finished \cup {q}
  /\ UNCHANGED <<memory, started, aborted, successful, framed, retry_count,
                 links, m_frames, counts, history, game, poll>>

RunCount(q) ==
  /\ Goto(q, "count", "exit")
  /\ num_finished' = num_finished + 1
  /\ UNCHANGED <<memory, flags, links, m_frames, num_threads, history, game,
                 poll>>

RunQuery(q) ==
  \/ RunBegin(q) \/ RunConnect(q) \/ RunTuple(q) \/ RunExec(q)
  \/ RunCheck(q) \/ RunFrame(q) \/ RunPush(q) \/ RunFinish(q) \/ RunCount(q)

-----------------------------------------------------------------------------
(* Poller: poll_query(). *)

(* Locks threads_mutex; the loop visits every query by priority and id. *)
PollBegin ==
  /\ ppc = "sleep"
  /\ ppc' = "visit"
  /\ todo' = m_queries
  /\ UNCHANGED <<memory, flags, links, m_frames, counts, history, game, wpc,
                 pq, start_queries, finished_queries, finished_threads,
                 m_threads>>

Visiting(q) == ppc = "visit" /\ IsFirst(q, todo) /\ todo' = todo \ {q}

(* Mutant: the async test is missing. *)
CollectAnyThread(q) ==
  q \in started /\ (q \in finished \/ (q \in aborted /\ q \in framed))

(* Is the worker of this finished or aborted query to be collected? *)
CollectThread(q) ==
  /\ q \in async /\ q \in started
  /\ q \in finished \/ (q \in aborted /\ q \in framed)

(* Collects the worker of a query that is over. *)
VisitOver(q) ==
  /\ Visiting(q)
  /\ q \in finished \cup aborted
  /\ IF CollectThread(q)
     THEN /\ finished_threads' = finished_threads \cup {q}
          /\ m_threads' = m_threads \ {q}
          /\ num_threads' = num_threads - 1
          /\ num_finished' =
               IF q \in finished THEN num_finished - 1 ELSE num_finished
     ELSE UNCHANGED <<finished_threads, m_threads, counts>>
  /\ ppc' = "decide" /\ pq' = q
  /\ UNCHANGED <<memory, flags, links, m_frames, history, game, wpc,
                 start_queries, finished_queries>>

CanStart(q) ==
  /\ ~stop_threads
  /\ q \in async /\ q \notin started
  /\ ThreadsCountBelow(Limit(pri[q]))

(* Takes a slot for a query that waits. *)
VisitStart(q) ==
  /\ Visiting(q)
  /\ q \notin finished \cup aborted
  /\ CanStart(q)
  /\ started' = started \cup {q}
  /\ start_queries' = start_queries \cup {q}
  /\ num_threads' = num_threads + 1
  /\ UNCHANGED <<memory, aborted, finished, successful, framed, retry_count,
                 links, m_frames, num_finished, history, game, wpc, ppc, pq,
                 finished_queries, finished_threads, m_threads>>

VisitSkip(q) ==
  /\ Visiting(q)
  /\ q \notin finished \cup aborted
  /\ ~CanStart(q)
  /\ UNCHANGED <<memory, flags, links, m_frames, counts, history, game, wpc,
                 ppc, pq, start_queries, finished_queries, finished_threads,
                 m_threads>>

(* Mutant: the successful test is missing. *)
RetryAlways(q) == q \in async /\ q \notin aborted

MayRetry(q) == q \in async /\ q \notin aborted /\ q \notin successful

(* Is the query to be released?  The flags are read again: a worker may    *)
(* have set them since CollectThread.                                      *)
Releasable(q) ==
  \/ q \notin async
  \/ q \in finished
  \/ q \in aborted /\ (q \notin started \/ q \in framed)

(* Retries a failed query, or queues it for release. *)
PollDecide ==
  /\ ppc = "decide"
  /\ ppc' = "visit" /\ pq' = 0
  /\ retry_count' =
       IF MayRetry(pq) THEN [retry_count EXCEPT ![pq] = @ + 1]
                       ELSE retry_count
  /\ IF MayRetry(pq) /\ retry_count'[pq] < QUERY_RETRY_COUNT
     THEN /\ started' = started \ {pq}
          /\ finished' = finished \ {pq}
          /\ UNCHANGED finished_queries
     ELSE /\ finished_queries' = IF Releasable(pq)
                                 THEN finished_queries \cup {pq}
                                 ELSE finished_queries
          /\ UNCHANGED <<started, finished>>
  /\ UNCHANGED <<memory, aborted, successful, framed, links, m_frames, counts,
                 history, game, wpc, todo, start_queries, finished_threads,
                 m_threads>>

Spawning(q) == ppc = "visit" /\ todo = {} /\ IsFirst(q, start_queries)

SpawnThread(q) ==
  /\ Spawning(q)
  /\ start_queries' = start_queries \ {q}
  /\ m_threads' = m_threads \cup {q}
  /\ wpc' = [wpc EXCEPT ![q] = "begin"]
  /\ UNCHANGED <<memory, flags, links, m_frames, counts, history, game, ppc,
                 pq, todo, finished_queries, finished_threads>>

(* Mutant: a failed spawn does not give its slot back. *)
SpawnFailsCounted(q) ==
  /\ Spawning(q)
  /\ start_queries' = start_queries \ {q}
  /\ started' = started \ {q}
  /\ UNCHANGED <<memory, aborted, finished, successful, framed, retry_count,
                 links, m_frames, counts, history, game, wpc, ppc, pq,
                 todo, finished_queries, finished_threads, m_threads>>

(* The std::thread constructor throws: the slot is given back. *)
SpawnFails(q) ==
  /\ Spawning(q)
  /\ start_queries' = start_queries \ {q}
  /\ started' = started \ {q}
  /\ num_threads' = num_threads - 1
  /\ UNCHANGED <<memory, aborted, finished, successful, framed, retry_count,
                 links, m_frames, num_finished, history, game, wpc, ppc, pq,
                 todo, finished_queries, finished_threads, m_threads>>

(* Unlocks threads_mutex. *)
PollUnlock ==
  /\ ppc = "visit" /\ todo = {} /\ start_queries = {}
  /\ ppc' = "clean"
  /\ UNCHANGED <<memory, flags, links, m_frames, counts, history, game, wpc,
                 pq, todo, start_queries, finished_queries, finished_threads,
                 m_threads>>

(* free_query, erase and delete. *)
CleanQuery(q) ==
  /\ ppc = "clean"
  /\ IsFirst(q, finished_queries)
  /\ finished_queries' = finished_queries \ {q}
  /\ m_queries' = m_queries \ {q}
  /\ deleted' = deleted \cup {q}
  /\ conn' = conn \ {q}
  /\ UNCHANGED <<nums, fields, handles, flags, fwd, m_conn_prms, m_frames,
                 counts, history, game, wpc, ppc, pq, todo, start_queries,
                 finished_threads, m_threads>>

(* join() returns once the worker has returned. *)
JoinThread(q) ==
  /\ ppc = "clean" /\ finished_queries = {}
  /\ IsFirst(q, finished_threads)
  /\ Goto(q, "exit", "none")
  /\ finished_threads' = finished_threads \ {q}
  /\ UNCHANGED <<memory, flags, links, m_frames, counts, history, game, ppc,
                 pq, todo, start_queries, finished_queries,
                 m_threads>>

PollEnd ==
  /\ ppc = "clean" /\ finished_queries = {} /\ finished_threads = {}
  /\ ppc' = "sleep"
  /\ UNCHANGED <<memory, flags, links, m_frames, counts, history, game, wpc,
                 pq, todo, start_queries, finished_queries, finished_threads,
                 m_threads>>

PollQuery ==
  \/ PollBegin \/ PollDecide \/ PollUnlock \/ PollEnd
  \/ \E q \in Query :
       \/ VisitOver(q) \/ VisitStart(q) \/ VisitSkip(q)
       \/ SpawnThread(q) \/ SpawnFails(q)
       \/ CleanQuery(q) \/ JoinThread(q)

-----------------------------------------------------------------------------
Natives ==
  \/ AddConnect \/ PushQuery \/ PrepareSync \/ FreeInCallback
  \/ \E q \in Query : ExecQuery(q) \/ FreeSync(q)

FrameForward ==
  \/ GetFrameQuery \/ ForwardAbort \/ ForwardExec \/ ForwardHeapLow
  \/ CallbackReturn \/ FinishFrame \/ CountFrame

Stop == StopBegin \/ StopFrames \/ StopMark \/ StopClear

Next ==
  \/ Natives \/ FrameForward \/ Stop
  \/ \E q \in Query : RunQuery(q)
  \/ PollQuery

Spec == Init /\ [][Next]_vars

-----------------------------------------------------------------------------
QueryTypes ==
  /\ nums \in 0 .. MaxQueries
  /\ m_queries \subseteq Query /\ deleted \subseteq Query
  /\ async \subseteq Query /\ handles \subseteq Query
  /\ pri \in [Query -> 0 .. MAX_QUERY_PRIORITY]
  /\ conn_id \in [Query -> 0 .. MaxTuples]

FlagTypes ==
  /\ started \subseteq Query /\ aborted \subseteq Query
  /\ finished \subseteq Query /\ successful \subseteq Query
  /\ framed \subseteq Query
  /\ retry_count \in [Query -> Nat]
  /\ conn \subseteq Query /\ fwd \subseteq Query
  /\ m_conn_prms \in Seq(Tuple)

ThreadTypes ==
  /\ m_frames \subseteq Query
  /\ num_threads \in Int /\ num_finished \in Int
  /\ m_threads \subseteq Query
  /\ wpc \in [Query -> {"none", "begin", "connect", "tuple", "query", "check",
                        "frame", "push", "finish", "count", "exit"}]

GameTypes ==
  /\ gpc \in {"idle", "popped", "callback", "finish", "count",
              "stop_frames", "stop_mark", "stop_clear"}
  /\ cur \in Query \cup {0}
  /\ gpc \in {"popped", "callback", "finish", "count"} => cur \in Query
  /\ calls \in [Query -> Nat] /\ heap_low \subseteq Query
  /\ stops \in Nat

PollTypes ==
  /\ ppc \in {"sleep", "visit", "decide", "clean"}
  /\ pq \in Query \cup {0}
  /\ ppc = "decide" => pq \in Query
  /\ todo \subseteq Query /\ start_queries \subseteq Query
  /\ finished_queries \subseteq Query /\ finished_threads \subseteq Query

(* Every variable has its type; the game thread and the poller hold a      *)
(* query wherever frame_forward() and poll_query() dereference one.        *)
TypeOK ==
  /\ QueryTypes /\ FlagTypes /\ ThreadTypes /\ GameTypes /\ PollTypes
  /\ stop_threads \in BOOLEAN

-----------------------------------------------------------------------------
(***************************************************************************)
(* Safety.                                                                 *)
(***************************************************************************)

(* The points at which run_query still reads or writes its m_query_t. *)
Touching == {"begin", "connect", "tuple", "query", "check", "frame", "push",
             "finish"}

(* Memory safety of poll_query's cleaner (l.352-369): once a query that no *)
(* stop() aborted is deleted, no worker, no waiting frame and no running   *)
(* frame_forward() still uses it, and its thread object was collected.  An *)
(* aborted query is not so lucky: l.317 releases it with framed set, which *)
(* its worker sets before it pushes the frame.                             *)
DeletedIsForgotten ==
  \A q \in deleted \ aborted :
    /\ wpc[q] \notin Touching
    /\ q \notin m_frames
    /\ ~(q = cur /\ gpc \in {"popped", "callback", "finish"})
    /\ q \notin m_threads

(* Queries whose num_finished++ is still to come: each takes a slot. *)
Busy ==
  start_queries \cup {q \in Query : wpc[q] \notin {"none", "exit"}}
  \cup m_frames
  \cup {q \in Query : q = cur /\ gpc \in {"popped", "callback", "finish", "count"}}

(* threads_count() (l.1034): during a map, the difference of the two       *)
(* counters, which three threads update without a common lock, is exactly  *)
(* the number of taken slots, whatever the order of the updates.           *)
SlotAccounting ==
  stops = 0 => num_threads - num_finished = Cardinality(Busy)

(* The admission test of l.320: during a map, a query of priority p is     *)
(* started only while fewer than max_threads << (5 - p) slots are taken,   *)
(* by queries of any priority, so that the less urgent leave room for the  *)
(* more urgent.  (The comment of l.15 promises priority 3 one thread and   *)
(* priority 0 eight; these are the limits of the code.)                    *)
PriorityLimits ==
  [][\A q \in start_queries' \ start_queries :
       stops' = 0 => Cardinality(Busy) < Limit(pri[q])]_vars

(* l.312-326: a query is about to be given a thread only if no earlier     *)
(* worker of it still runs, it did not succeed before, and it was retried  *)
(* fewer than QUERY_RETRY_COUNT times.                                     *)
StartedOnce ==
  \A q \in start_queries :
    /\ wpc[q] = "none"
    /\ q \notin successful
    /\ retry_count[q] < QUERY_RETRY_COUNT

(* assert(it != m_threads.end()) (l.302): the thread that the poller       *)
(* collects is registered.                                                 *)
TidRegistered ==
  \A q \in todo : CollectThread(q) => q \in m_threads

(* QueryHandler contract (l.419-459), at the moment when a query is        *)
(* deleted: its handler was not called twice, and if the query succeeded   *)
(* and has a handler, it was called, unless the plugin's heap was full,    *)
(* stop() aborted the query or is about to.                                *)
ResultDelivered ==
  [][\A q \in (deleted' \ deleted) \cap async :
       /\ calls[q] <= 1
       /\ q \in (successful \cap fwd) \ (aborted \cup heap_low) =>
            calls[q] = 1 \/ stop_threads]_vars

(* free_query and stop() (l.583, l.992): a sync query that a plugin still  *)
(* holds is never deleted by the poller.                                   *)
HandleAlive == handles \subseteq m_queries \ deleted

(* Somebody will go on with the query: it waits for a slot, is over, is    *)
(* about to be started or released, its worker runs, its result waits or   *)
(* is being forwarded, or stop() dropped the result and will now abort it. *)
InHand(q) ==
  \/ q \notin started \/ q \in finished \/ q \in aborted \cap framed
  \/ q \in start_queries \cup finished_queries \/ wpc[q] \in Touching
  \/ q \in m_frames
  \/ q = cur /\ gpc \in {"popped", "callback", "finish"}
  \/ gpc = "stop_mark"

(* poll_query releases an aborted query only if it was not started, has    *)
(* finished or was framed (l.317), and restarts only a finished one        *)
(* (l.312): no async query is left in the maps for good, whatever a map    *)
(* change interrupts.                                                      *)
NotStranded == \A q \in m_queries \cap async : InHand(q)

-----------------------------------------------------------------------------
(***************************************************************************)
(* What the repository says of the program and the code does not do.       *)
(***************************************************************************)

(* "public QueryHandler(failstate, Handle:query, error[], errnum, ...)"    *)
(* (l.442), with TQUERY_CONNECT_FAILED and TQUERY_QUERY_FAILED (l.21): the *)
(* handler hears of a query that failed.                                   *)
FailureReported ==
  \A q \in (deleted \cap async) \ (aborted \cup successful) :
    stops = 0 /\ q \in fwd \ heap_low => calls[q] = 1

(* assert(num >= 0) in threads_count() (l.1037), where poll_query calls it. *)
ThreadsCountAssert ==
  (\E q \in todo : /\ ppc = "visit" /\ IsFirst(q, todo) /\ ~stop_threads
                   /\ q \in async \ (finished \cup aborted \cup started))
    => num_threads - num_finished >= 0

=============================================================================
