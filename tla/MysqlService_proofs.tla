------------------------ MODULE MysqlService_proofs ------------------------
(***************************************************************************)
(* The query service keeps its promises, for every number of queries,      *)
(* threads, tuples and map changes: every step of MysqlMngr is a step of   *)
(* QueryService or invisible to it.  The argument follows one query from   *)
(* its worker over the frames to its release.                              *)
(***************************************************************************)
EXTENDS MysqlService, MysqlMngr_proofs

(* The flag is set while stop() is between its first and its last step. *)
StopPhase ==
  stop_threads <=> gpc \in {"stop_frames", "stop_mark", "stop_clear"}

(* Once stop() marked the queries, every query in the maps is aborted. *)
MarkFacts(q) ==
  gpc = "stop_clear" /\ q \in m_queries => q \in aborted

(* Where a query is: created ones are in the maps or deleted, deleted ones *)
(* were over, and the ones to be deleted are still in the maps.            *)
PlaceFacts(q) ==
  /\ q <= nums => q \in m_queries \/ q \in deleted
  /\ q \in deleted /\ q \notin aborted => q \in finished
  /\ q \in finished_queries => q \in m_queries
  /\ q \in fwd => q \in async

(* A worker that has no answer yet has not succeeded. *)
AnswerFacts(q) ==
  wpc[q] \in {"begin", "connect", "tuple", "query"} => q \notin successful

(* The last retry ends in the list of the queries to delete. *)
RetryFacts(q) ==
  /\ retry_count[q] <= QUERY_RETRY_COUNT
  /\ retry_count[q] >= QUERY_RETRY_COUNT =>
       q \in finished_queries \/ q \in deleted
  /\ q \in finished_queries /\ q \in async /\ q \notin aborted =>
       q \in successful \/ retry_count[q] >= QUERY_RETRY_COUNT

(* A query whose handler was called, or could not be, is on its way out of *)
(* frame_forward() or finished.                                            *)
CalledFacts(q) ==
  /\ calls[q] > 0 => q <= nums
  /\ calls[q] <= 1
  /\ calls[q] > 0 =>
       /\ q \in successful /\ q \notin m_frames /\ wpc[q] \notin Touching
       /\ ~(InFrameForward(q) /\ gpc = "popped")
  /\ q \notin aborted /\ (calls[q] > 0 \/ q \in heap_low) =>
       /\ q \in successful /\ q \in fwd
       /\ q \in finished \/ (InFrameForward(q) /\ gpc \in {"callback", "finish"})
  /\ q \notin aborted => /\ calls[q] <= 1
                         /\ calls[q] > 0 => q \notin heap_low

(* A result that waits for its frame has a handler, and frame_forward()    *)
(* calls it unless the heap is full.                                       *)
ForwardFacts(q) ==
  q \notin aborted =>
    /\ q \in m_frames \/ wpc[q] \in {"frame", "push"}
       \/ (InFrameForward(q) /\ gpc = "popped") => q \in fwd
    /\ InFrameForward(q) /\ gpc = "callback" => calls[q] > 0
    /\ InFrameForward(q) /\ gpc = "finish" => calls[q] > 0 \/ q \in heap_low

(* A successful query with a handler is not finished before the handler    *)
(* was called, unless a map change intervenes.                             *)
DeliveryFacts(q) ==
  /\ q \notin aborted /\ q \in async /\ q \in successful /\ q \in fwd
  /\ wpc[q] = "finish" \/ q \in finished
  => \/ calls[q] > 0 \/ q \in heap_low
     \/ gpc \in {"stop_frames", "stop_mark"}
     \/ q \in deleted /\ stops > 0

ServiceInv(q) ==
  /\ MarkFacts(q) /\ PlaceFacts(q) /\ AnswerFacts(q) /\ RetryFacts(q)
  /\ CalledFacts(q) /\ ForwardFacts(q) /\ DeliveryFacts(q)

(* The inductive invariant behind the refinement, together with IInv. *)
SInv == StopPhase /\ \A q \in Query : ServiceInv(q)


(* The stop flag follows stop(). *)
LEMMA StopPhaseStep ==
  ASSUME TypeOK, StopPhase, Next
  PROVE  StopPhase'
<1> USE DEF StopPhase, game, TypeOK, GameTypes
<1>1. CASE Natives
  BY <1>1 DEF Natives, AddConnect, PushQuery, PrepareSync, FreeInCallback,
     ExecQuery, FreeSync, PrepareQuery
<1>2. CASE FrameForward
  BY <1>2 DEF FrameForward, GetFrameQuery, ForwardAbort, ForwardExec,
     ForwardHeapLow, CallbackReturn, FinishFrame, CountFrame
<1>3. CASE Stop
  BY <1>3 DEF Stop, StopBegin, StopFrames, StopMark, StopClear
<1>4. ASSUME NEW q \in Query, RunQuery(q)
      PROVE  StopPhase'
  BY <1>4 DEF RunQuery, RunBegin, RunConnect, RunTuple, RunExec, RunCheck,
     RunFrame, RunPush, RunFinish, RunCount
<1>5. CASE PollQuery
  BY <1>5 DEF PollQuery, PollBegin, PollDecide, PollUnlock, PollEnd,
     VisitOver, VisitStart, VisitSkip, SpawnThread, SpawnFails, CleanQuery,
     JoinThread
<1>6. QED
  BY <1>1, <1>2, <1>3, <1>4, <1>5 DEF Next

(* A query that stop() left in the maps stays aborted. *)
LEMMA MarkFactsStep ==
  ASSUME TypeOK, IInv, SInv, NEW r \in Query, Next
  PROVE  MarkFacts(r)'
<1>1. FirstMap /\ StopPhase /\ QueryInv(r) /\ ServiceInv(r)
  BY DEF IInv, SInv
<1> USE <1>1, ConstantsAssumption DEF Query, memory, flags, links, counts,
       history, game, poll, fields, TypeOK, QueryTypes, FlagTypes, ThreadTypes,
       GameTypes, PollTypes, Goto, Visiting, IsFirst, ServiceInv, MarkFacts,
       QueryInv, CreatedFacts
<1>2. CASE Natives
  <2>1. CASE AddConnect
    BY <2>1 DEF AddConnect
  <2>2. CASE PushQuery
    BY <2>2 DEF PushQuery, PrepareQuery, InPlugin, ThreadsMutexFree
  <2>3. CASE PrepareSync
    BY <2>3 DEF PrepareSync, PrepareQuery, InPlugin, ThreadsMutexFree
  <2>4. CASE FreeInCallback
    BY <2>4 DEF FreeInCallback
  <2>5. ASSUME NEW q \in Query, ExecQuery(q)
       PROVE  MarkFacts(r)'
    BY <2>5 DEF ExecQuery, InPlugin
  <2>6. ASSUME NEW q \in Query, FreeSync(q)
       PROVE  MarkFacts(r)'
    BY <2>6 DEF FreeSync, InPlugin
  <2>7. QED
    BY <1>2, <2>1, <2>2, <2>3, <2>4, <2>5, <2>6 DEF Natives
<1>3. CASE FrameForward
  <2>1. CASE GetFrameQuery
    BY <2>1 DEF GetFrameQuery
  <2>2. CASE ForwardAbort
    BY <2>2 DEF ForwardAbort, MayAbort
  <2>3. CASE ForwardExec
    BY <2>3 DEF ForwardExec, MayForward
  <2>4. CASE ForwardHeapLow
    BY <2>4 DEF ForwardHeapLow, MayForward
  <2>5. CASE CallbackReturn
    BY <2>5 DEF CallbackReturn
  <2>6. CASE FinishFrame
    BY <2>6 DEF FinishFrame
  <2>7. CASE CountFrame
    BY <2>7 DEF CountFrame
  <2>8. QED
    BY <1>3, <2>1, <2>2, <2>3, <2>4, <2>5, <2>6, <2>7 DEF FrameForward
<1>4. CASE Stop
  BY <1>4 DEF Stop, StopBegin, StopFrames, StopMark, StopClear, FrameMutexFree,
    ThreadsMutexFree
<1>5. ASSUME NEW q \in Query, RunQuery(q)
      PROVE  MarkFacts(r)'
  <2>1. CASE RunBegin(q)
    BY <2>1 DEF RunBegin
  <2>2. CASE RunConnect(q)
    BY <2>2 DEF RunConnect
  <2>3. CASE RunTuple(q)
    BY <2>3 DEF RunTuple
  <2>4. CASE RunExec(q)
    BY <2>4 DEF RunExec
  <2>5. CASE RunCheck(q)
    BY <2>5 DEF RunCheck
  <2>6. CASE RunFrame(q)
    BY <2>6 DEF RunFrame
  <2>7. CASE RunPush(q)
    BY <2>7 DEF RunPush
  <2>8. CASE RunFinish(q)
    BY <2>8 DEF RunFinish
  <2>9. CASE RunCount(q)
    BY <2>9 DEF RunCount
  <2>10. QED
    BY <1>5, <2>1, <2>2, <2>3, <2>4, <2>5, <2>6, <2>7, <2>8, <2>9 DEF RunQuery
<1>6. CASE PollQuery
  <2>1. CASE PollBegin
    BY <2>1 DEF PollBegin
  <2>2. CASE PollDecide
    BY <2>2 DEF PollDecide, MayRetry, Releasable
  <2>3. CASE PollUnlock
    BY <2>3 DEF PollUnlock
  <2>4. CASE PollEnd
    BY <2>4 DEF PollEnd
  <2>5. ASSUME NEW q \in Query, VisitOver(q)
       PROVE  MarkFacts(r)'
    BY <2>5 DEF VisitOver, CollectThread
  <2>6. ASSUME NEW q \in Query, VisitStart(q)
       PROVE  MarkFacts(r)'
    BY <2>6 DEF VisitStart, CanStart
  <2>7. ASSUME NEW q \in Query, VisitSkip(q)
       PROVE  MarkFacts(r)'
    BY <2>7 DEF VisitSkip
  <2>8. ASSUME NEW q \in Query, SpawnThread(q)
       PROVE  MarkFacts(r)'
    BY <2>8 DEF SpawnThread, Spawning
  <2>9. ASSUME NEW q \in Query, SpawnFails(q)
       PROVE  MarkFacts(r)'
    BY <2>9 DEF SpawnFails, Spawning
  <2>10. ASSUME NEW q \in Query, CleanQuery(q)
       PROVE  MarkFacts(r)'
    BY <2>10 DEF CleanQuery
  <2>11. ASSUME NEW q \in Query, JoinThread(q)
       PROVE  MarkFacts(r)'
    BY <2>11 DEF JoinThread
  <2>12. QED
    BY <1>6, <2>1, <2>2, <2>3, <2>4, <2>5, <2>6, <2>7, <2>8, <2>9, <2>10, <2>11
       DEF PollQuery
<1>7. QED
  BY <1>2, <1>3, <1>4, <1>5, <1>6 DEF Next

(* A step keeps what is known of the place of a query. *)
LEMMA PlaceFactsStep ==
  ASSUME TypeOK, IInv, SInv, NEW r \in Query, Next
  PROVE  PlaceFacts(r)'
<1>1. FirstMap /\ StopPhase /\ QueryInv(r) /\ ServiceInv(r)
  BY DEF IInv, SInv
<1> USE <1>1, ConstantsAssumption DEF Query, memory, flags, links, counts,
       history, game, poll, fields, TypeOK, QueryTypes, FlagTypes, ThreadTypes,
       GameTypes, PollTypes, Goto, Visiting, IsFirst, QUERY_RETRY_COUNT,
       Touching, InFrameForward, QueryInv, CreatedFacts, PollerFacts,
       DecideFacts, FlagFacts, StartFacts, RunFacts, ReturnFacts, FrameFacts,
       ThreadFacts, FirstMap, StopPhase, ServiceInv, MarkFacts, PlaceFacts,
       AnswerFacts, RetryFacts, CalledFacts, ForwardFacts, DeliveryFacts
<1>2. CASE Natives
  <2>1. CASE AddConnect
    BY <2>1 DEF AddConnect
  <2>2. CASE PushQuery
    <3>1. nums' = nums + 1 /\ m_queries' = m_queries \cup {nums + 1}
      BY <2>2 DEF PushQuery, PrepareQuery, InPlugin, ThreadsMutexFree
    <3>2. r <= nums' => r \in m_queries' \/ r \in deleted'
      <4>1. CASE r = nums + 1
        BY <3>1, <4>1
      <4>2. CASE r # nums + 1
        <5>1. r <= nums' => r <= nums
          BY <3>1, <4>2
        <5>2. QED
          BY <2>2, <3>1, <5>1 DEF PushQuery, PrepareQuery, InPlugin, ThreadsMutexFree
      <4>3. QED
        BY <4>1, <4>2
    <3>3. QED
      BY <2>2, <3>2 DEF PushQuery, PrepareQuery, InPlugin, ThreadsMutexFree
  <2>3. CASE PrepareSync
    <3>1. nums' = nums + 1 /\ m_queries' = m_queries \cup {nums + 1}
      BY <2>3 DEF PrepareSync, PrepareQuery, InPlugin, ThreadsMutexFree
    <3>2. r <= nums' => r \in m_queries' \/ r \in deleted'
      <4>1. CASE r = nums + 1
        BY <3>1, <4>1
      <4>2. CASE r # nums + 1
        <5>1. r <= nums' => r <= nums
          BY <3>1, <4>2
        <5>2. QED
          BY <2>3, <3>1, <5>1 DEF PrepareSync, PrepareQuery, InPlugin, ThreadsMutexFree
      <4>3. QED
        BY <4>1, <4>2
    <3>3. QED
      BY <2>3, <3>2 DEF PrepareSync, PrepareQuery, InPlugin, ThreadsMutexFree
  <2>4. CASE FreeInCallback
    BY <2>4 DEF FreeInCallback
  <2>5. ASSUME NEW q \in Query, ExecQuery(q)
       PROVE  PlaceFacts(r)'
    BY <2>5 DEF ExecQuery, InPlugin
  <2>6. ASSUME NEW q \in Query, FreeSync(q)
       PROVE  PlaceFacts(r)'
    BY <2>6 DEF FreeSync, InPlugin
  <2>7. QED
    BY <1>2, <2>1, <2>2, <2>3, <2>4, <2>5, <2>6 DEF Natives
<1>3. CASE FrameForward
  BY <1>3 DEF FrameForward, GetFrameQuery, ForwardAbort, ForwardExec,
    ForwardHeapLow, CallbackReturn, FinishFrame, CountFrame, MayAbort,
    MayForward, FrameMutexFree
<1>4. CASE Stop
  BY <1>4 DEF Stop, StopBegin, StopFrames, StopMark, StopClear, FrameMutexFree,
    ThreadsMutexFree
<1>5. ASSUME NEW q \in Query, RunQuery(q)
      PROVE  PlaceFacts(r)'
  BY <1>5 DEF RunQuery, RunBegin, RunConnect, RunTuple, RunExec, RunCheck,
    RunFrame, RunPush, RunFinish, RunCount, FrameMutexFree
<1>6. CASE PollQuery
  <2>1. CASE PollBegin
    BY <2>1 DEF PollBegin
  <2>2. CASE PollDecide
    BY <2>2 DEF PollDecide, MayRetry, Releasable
  <2>3. CASE PollUnlock
    BY <2>3 DEF PollUnlock
  <2>4. CASE PollEnd
    BY <2>4 DEF PollEnd
  <2>5. ASSUME NEW q \in Query, VisitOver(q)
       PROVE  PlaceFacts(r)'
    BY <2>5 DEF VisitOver, CollectThread
  <2>6. ASSUME NEW q \in Query, VisitStart(q)
       PROVE  PlaceFacts(r)'
    BY <2>6 DEF VisitStart, CanStart
  <2>7. ASSUME NEW q \in Query, VisitSkip(q)
       PROVE  PlaceFacts(r)'
    BY <2>7 DEF VisitSkip
  <2>8. ASSUME NEW q \in Query, SpawnThread(q)
       PROVE  PlaceFacts(r)'
    BY <2>8 DEF SpawnThread, Spawning
  <2>9. ASSUME NEW q \in Query, SpawnFails(q)
       PROVE  PlaceFacts(r)'
    BY <2>9 DEF SpawnFails, Spawning
  <2>10. ASSUME NEW q \in Query, CleanQuery(q)
       PROVE  PlaceFacts(r)'
    BY <2>10 DEF CleanQuery
  <2>11. ASSUME NEW q \in Query, JoinThread(q)
       PROVE  PlaceFacts(r)'
    BY <2>11 DEF JoinThread
  <2>12. QED
    BY <1>6, <2>1, <2>2, <2>3, <2>4, <2>5, <2>6, <2>7, <2>8, <2>9, <2>10, <2>11
       DEF PollQuery
<1>7. QED
  BY <1>2, <1>3, <1>4, <1>5, <1>6 DEF Next

(* A step keeps a query without an answer unsuccessful. *)
LEMMA AnswerFactsStep ==
  ASSUME TypeOK, IInv, SInv, NEW r \in Query, Next
  PROVE  AnswerFacts(r)'
<1>1. FirstMap /\ StopPhase /\ QueryInv(r) /\ ServiceInv(r)
  BY DEF IInv, SInv
<1> USE <1>1, ConstantsAssumption DEF Query, memory, flags, links, counts,
       history, game, poll, fields, TypeOK, QueryTypes, FlagTypes, ThreadTypes,
       GameTypes, PollTypes, Goto, Visiting, IsFirst, QUERY_RETRY_COUNT,
       Touching, InFrameForward, QueryInv, CreatedFacts, PollerFacts,
       DecideFacts, FlagFacts, StartFacts, RunFacts, ReturnFacts, FrameFacts,
       ThreadFacts, FirstMap, StopPhase, ServiceInv, MarkFacts, PlaceFacts,
       AnswerFacts, RetryFacts, CalledFacts, ForwardFacts, DeliveryFacts
<1>2. CASE Natives
  BY <1>2 DEF Natives, AddConnect, PushQuery, PrepareSync, FreeInCallback,
    ExecQuery, FreeSync, PrepareQuery, InPlugin, ThreadsMutexFree
<1>3. CASE FrameForward
  BY <1>3 DEF FrameForward, GetFrameQuery, ForwardAbort, ForwardExec,
    ForwardHeapLow, CallbackReturn, FinishFrame, CountFrame, MayAbort,
    MayForward, FrameMutexFree
<1>4. CASE Stop
  BY <1>4 DEF Stop, StopBegin, StopFrames, StopMark, StopClear, FrameMutexFree,
    ThreadsMutexFree
<1>5. ASSUME NEW q \in Query, RunQuery(q)
      PROVE  AnswerFacts(r)'
  <2>1. CASE RunBegin(q)
    BY <2>1 DEF RunBegin
  <2>2. CASE RunConnect(q)
    BY <2>2 DEF RunConnect
  <2>3. CASE RunTuple(q)
    BY <2>3 DEF RunTuple
  <2>4. CASE RunExec(q)
    BY <2>4 DEF RunExec
  <2>5. CASE RunCheck(q)
    BY <2>5 DEF RunCheck
  <2>6. CASE RunFrame(q)
    BY <2>6 DEF RunFrame
  <2>7. CASE RunPush(q)
    BY <2>7 DEF RunPush
  <2>8. CASE RunFinish(q)
    BY <2>8 DEF RunFinish
  <2>9. CASE RunCount(q)
    BY <2>9 DEF RunCount
  <2>10. QED
    BY <1>5, <2>1, <2>2, <2>3, <2>4, <2>5, <2>6, <2>7, <2>8, <2>9 DEF RunQuery
<1>6. CASE PollQuery
  <2>1. CASE PollBegin
    BY <2>1 DEF PollBegin
  <2>2. CASE PollDecide
    BY <2>2 DEF PollDecide, MayRetry, Releasable
  <2>3. CASE PollUnlock
    BY <2>3 DEF PollUnlock
  <2>4. CASE PollEnd
    BY <2>4 DEF PollEnd
  <2>5. ASSUME NEW q \in Query, VisitOver(q)
       PROVE  AnswerFacts(r)'
    BY <2>5 DEF VisitOver, CollectThread
  <2>6. ASSUME NEW q \in Query, VisitStart(q)
       PROVE  AnswerFacts(r)'
    BY <2>6 DEF VisitStart, CanStart
  <2>7. ASSUME NEW q \in Query, VisitSkip(q)
       PROVE  AnswerFacts(r)'
    BY <2>7 DEF VisitSkip
  <2>8. ASSUME NEW q \in Query, SpawnThread(q)
       PROVE  AnswerFacts(r)'
    BY <2>8 DEF SpawnThread, Spawning
  <2>9. ASSUME NEW q \in Query, SpawnFails(q)
       PROVE  AnswerFacts(r)'
    BY <2>9 DEF SpawnFails, Spawning
  <2>10. ASSUME NEW q \in Query, CleanQuery(q)
       PROVE  AnswerFacts(r)'
    BY <2>10 DEF CleanQuery
  <2>11. ASSUME NEW q \in Query, JoinThread(q)
       PROVE  AnswerFacts(r)'
    BY <2>11 DEF JoinThread
  <2>12. QED
    BY <1>6, <2>1, <2>2, <2>3, <2>4, <2>5, <2>6, <2>7, <2>8, <2>9, <2>10, <2>11
       DEF PollQuery
<1>7. QED
  BY <1>2, <1>3, <1>4, <1>5, <1>6 DEF Next

(* A step keeps the bound on the retries, and the last one in the list. *)
LEMMA RetryFactsStep ==
  ASSUME TypeOK, IInv, SInv, NEW r \in Query, Next
  PROVE  RetryFacts(r)'
<1>1. FirstMap /\ StopPhase /\ QueryInv(r) /\ ServiceInv(r)
  BY DEF IInv, SInv
<1> USE <1>1, ConstantsAssumption DEF Query, memory, flags, links, counts,
       history, game, poll, fields, TypeOK, QueryTypes, FlagTypes, ThreadTypes,
       GameTypes, PollTypes, Goto, Visiting, IsFirst, QUERY_RETRY_COUNT,
       Touching, InFrameForward, QueryInv, CreatedFacts, PollerFacts,
       DecideFacts, FlagFacts, StartFacts, RunFacts, ReturnFacts, FrameFacts,
       ThreadFacts, FirstMap, StopPhase, ServiceInv, MarkFacts, PlaceFacts,
       AnswerFacts, RetryFacts, CalledFacts, ForwardFacts, DeliveryFacts
<1>2. CASE Natives
  <2>1. CASE AddConnect
    BY <2>1 DEF AddConnect
  <2>2. CASE PushQuery
    BY <2>2 DEF PushQuery, PrepareQuery, InPlugin, ThreadsMutexFree
  <2>3. CASE PrepareSync
    BY <2>3 DEF PrepareSync, PrepareQuery, InPlugin, ThreadsMutexFree
  <2>4. CASE FreeInCallback
    BY <2>4 DEF FreeInCallback
  <2>5. ASSUME NEW q \in Query, ExecQuery(q)
       PROVE  RetryFacts(r)'
    BY <2>5 DEF ExecQuery, InPlugin
  <2>6. ASSUME NEW q \in Query, FreeSync(q)
       PROVE  RetryFacts(r)'
    BY <2>6 DEF FreeSync, InPlugin
  <2>7. QED
    BY <1>2, <2>1, <2>2, <2>3, <2>4, <2>5, <2>6 DEF Natives
<1>3. CASE FrameForward
  BY <1>3 DEF FrameForward, GetFrameQuery, ForwardAbort, ForwardExec,
    ForwardHeapLow, CallbackReturn, FinishFrame, CountFrame, MayAbort,
    MayForward, FrameMutexFree
<1>4. CASE Stop
  BY <1>4 DEF Stop, StopBegin, StopFrames, StopMark, StopClear, FrameMutexFree,
    ThreadsMutexFree
<1>5. ASSUME NEW q \in Query, RunQuery(q)
      PROVE  RetryFacts(r)'
  BY <1>5 DEF RunQuery, RunBegin, RunConnect, RunTuple, RunExec, RunCheck,
    RunFrame, RunPush, RunFinish, RunCount, FrameMutexFree
<1>6. CASE PollQuery
  <2>1. CASE PollBegin
    BY <2>1 DEF PollBegin
  <2>2. CASE PollDecide
    <3>1. CASE r = pq /\ MayRetry(pq)
      <4>1. retry_count[r] < QUERY_RETRY_COUNT
        BY <2>2, <3>1 DEF PollDecide, MayRetry
      <4>2. retry_count'[r] = retry_count[r] + 1
        BY <2>2, <3>1 DEF PollDecide
      <4>3. retry_count[r] \in Nat
        OBVIOUS
      <4>4. retry_count'[r] <= QUERY_RETRY_COUNT
        BY <4>1, <4>2, <4>3
      <4>5. QED
        BY <2>2, <3>1, <4>4 DEF PollDecide, MayRetry, Releasable
    <3>2. CASE ~(r = pq /\ MayRetry(pq))
      <4>1. retry_count'[r] = retry_count[r]
        BY <2>2, <3>2 DEF PollDecide
      <4>2. QED
        BY <2>2, <3>2, <4>1 DEF PollDecide, MayRetry, Releasable
    <3>3. QED
      BY <3>1, <3>2
  <2>3. CASE PollUnlock
    BY <2>3 DEF PollUnlock
  <2>4. CASE PollEnd
    BY <2>4 DEF PollEnd
  <2>5. ASSUME NEW q \in Query, VisitOver(q)
       PROVE  RetryFacts(r)'
    BY <2>5 DEF VisitOver, CollectThread
  <2>6. ASSUME NEW q \in Query, VisitStart(q)
       PROVE  RetryFacts(r)'
    BY <2>6 DEF VisitStart, CanStart
  <2>7. ASSUME NEW q \in Query, VisitSkip(q)
       PROVE  RetryFacts(r)'
    BY <2>7 DEF VisitSkip
  <2>8. ASSUME NEW q \in Query, SpawnThread(q)
       PROVE  RetryFacts(r)'
    BY <2>8 DEF SpawnThread, Spawning
  <2>9. ASSUME NEW q \in Query, SpawnFails(q)
       PROVE  RetryFacts(r)'
    BY <2>9 DEF SpawnFails, Spawning
  <2>10. ASSUME NEW q \in Query, CleanQuery(q)
       PROVE  RetryFacts(r)'
    BY <2>10 DEF CleanQuery
  <2>11. ASSUME NEW q \in Query, JoinThread(q)
       PROVE  RetryFacts(r)'
    BY <2>11 DEF JoinThread
  <2>12. QED
    BY <1>6, <2>1, <2>2, <2>3, <2>4, <2>5, <2>6, <2>7, <2>8, <2>9, <2>10, <2>11
       DEF PollQuery
<1>7. QED
  BY <1>2, <1>3, <1>4, <1>5, <1>6 DEF Next

(* A step keeps what is known of a query whose handler was called. *)
LEMMA CalledFactsStep ==
  ASSUME TypeOK, IInv, SInv, NEW r \in Query, Next
  PROVE  CalledFacts(r)'
<1>1. FirstMap /\ StopPhase /\ QueryInv(r) /\ ServiceInv(r)
  BY DEF IInv, SInv
<1> USE <1>1, ConstantsAssumption DEF Query, memory, flags, links, counts,
       history, game, poll, fields, TypeOK, QueryTypes, FlagTypes, ThreadTypes,
       GameTypes, PollTypes, Goto, Visiting, IsFirst, QUERY_RETRY_COUNT,
       Touching, InFrameForward, QueryInv, CreatedFacts, PollerFacts,
       DecideFacts, FlagFacts, StartFacts, RunFacts, ReturnFacts, FrameFacts,
       ThreadFacts, FirstMap, StopPhase, ServiceInv, MarkFacts, PlaceFacts,
       AnswerFacts, RetryFacts, CalledFacts, ForwardFacts, DeliveryFacts
<1>2. CASE Natives
  <2>1. CASE AddConnect
    BY <2>1 DEF AddConnect
  <2>2. CASE PushQuery
    BY <2>2 DEF PushQuery, PrepareQuery, InPlugin, ThreadsMutexFree
  <2>3. CASE PrepareSync
    BY <2>3 DEF PrepareSync, PrepareQuery, InPlugin, ThreadsMutexFree
  <2>4. CASE FreeInCallback
    BY <2>4 DEF FreeInCallback
  <2>5. ASSUME NEW q \in Query, ExecQuery(q)
       PROVE  CalledFacts(r)'
    BY <2>5 DEF ExecQuery, InPlugin
  <2>6. ASSUME NEW q \in Query, FreeSync(q)
       PROVE  CalledFacts(r)'
    BY <2>6 DEF FreeSync, InPlugin
  <2>7. QED
    BY <1>2, <2>1, <2>2, <2>3, <2>4, <2>5, <2>6 DEF Natives
<1>3. CASE FrameForward
  <2>1. CASE GetFrameQuery
    BY <2>1 DEF GetFrameQuery
  <2>2. CASE ForwardAbort
    BY <2>2 DEF ForwardAbort, MayAbort
  <2>3. CASE ForwardExec
    <3>1. CASE r = cur
      <4>1. r \notin aborted => calls[r] = 0
        BY <2>3, <3>1 DEF ForwardExec
      <4>2. calls'[r] = calls[r] + 1 /\ calls[r] \in Nat
        BY <2>3, <3>1 DEF ForwardExec
      <4>3. calls'[r] > 0 /\ (r \notin aborted => calls'[r] = 1)
        BY <4>1, <4>2
      <4>4. QED
        BY <2>3, <3>1, <4>3 DEF ForwardExec, MayForward
    <3>2. CASE r # cur
      <4>1. calls'[r] = calls[r]
        BY <2>3, <3>2 DEF ForwardExec
      <4>2. QED
        BY <2>3, <3>2, <4>1 DEF ForwardExec
    <3>3. QED
      BY <3>1, <3>2
  <2>4. CASE ForwardHeapLow
    BY <2>4 DEF ForwardHeapLow, MayForward
  <2>5. CASE CallbackReturn
    BY <2>5 DEF CallbackReturn
  <2>6. CASE FinishFrame
    BY <2>6 DEF FinishFrame
  <2>7. CASE CountFrame
    BY <2>7 DEF CountFrame
  <2>8. QED
    BY <1>3, <2>1, <2>2, <2>3, <2>4, <2>5, <2>6, <2>7 DEF FrameForward
<1>4. CASE Stop
  BY <1>4 DEF Stop, StopBegin, StopFrames, StopMark, StopClear, FrameMutexFree,
    ThreadsMutexFree
<1>5. ASSUME NEW q \in Query, RunQuery(q)
      PROVE  CalledFacts(r)'
  <2>1. CASE RunBegin(q)
    BY <2>1 DEF RunBegin
  <2>2. CASE RunConnect(q)
    BY <2>2 DEF RunConnect
  <2>3. CASE RunTuple(q)
    BY <2>3 DEF RunTuple
  <2>4. CASE RunExec(q)
    BY <2>4 DEF RunExec
  <2>5. CASE RunCheck(q)
    BY <2>5 DEF RunCheck
  <2>6. CASE RunFrame(q)
    BY <2>6 DEF RunFrame, FrameMutexFree
  <2>7. CASE RunPush(q)
    BY <2>7 DEF RunPush
  <2>8. CASE RunFinish(q)
    BY <2>8 DEF RunFinish
  <2>9. CASE RunCount(q)
    BY <2>9 DEF RunCount
  <2>10. QED
    BY <1>5, <2>1, <2>2, <2>3, <2>4, <2>5, <2>6, <2>7, <2>8, <2>9 DEF RunQuery
<1>6. CASE PollQuery
  <2>1. CASE PollBegin
    BY <2>1 DEF PollBegin
  <2>2. CASE PollDecide
    BY <2>2 DEF PollDecide, MayRetry, Releasable
  <2>3. CASE PollUnlock
    BY <2>3 DEF PollUnlock
  <2>4. CASE PollEnd
    BY <2>4 DEF PollEnd
  <2>5. ASSUME NEW q \in Query, VisitOver(q)
       PROVE  CalledFacts(r)'
    BY <2>5 DEF VisitOver, CollectThread
  <2>6. ASSUME NEW q \in Query, VisitStart(q)
       PROVE  CalledFacts(r)'
    BY <2>6 DEF VisitStart, CanStart
  <2>7. ASSUME NEW q \in Query, VisitSkip(q)
       PROVE  CalledFacts(r)'
    BY <2>7 DEF VisitSkip
  <2>8. ASSUME NEW q \in Query, SpawnThread(q)
       PROVE  CalledFacts(r)'
    BY <2>8 DEF SpawnThread, Spawning
  <2>9. ASSUME NEW q \in Query, SpawnFails(q)
       PROVE  CalledFacts(r)'
    BY <2>9 DEF SpawnFails, Spawning
  <2>10. ASSUME NEW q \in Query, CleanQuery(q)
       PROVE  CalledFacts(r)'
    BY <2>10 DEF CleanQuery
  <2>11. ASSUME NEW q \in Query, JoinThread(q)
       PROVE  CalledFacts(r)'
    BY <2>11 DEF JoinThread
  <2>12. QED
    BY <1>6, <2>1, <2>2, <2>3, <2>4, <2>5, <2>6, <2>7, <2>8, <2>9, <2>10, <2>11
       DEF PollQuery
<1>7. QED
  BY <1>2, <1>3, <1>4, <1>5, <1>6 DEF Next

(* A step keeps what is known of a result that waits or is forwarded. *)
LEMMA ForwardFactsStep ==
  ASSUME TypeOK, IInv, SInv, NEW r \in Query, Next
  PROVE  ForwardFacts(r)'
<1>1. FirstMap /\ StopPhase /\ QueryInv(r) /\ ServiceInv(r)
  BY DEF IInv, SInv
<1> USE <1>1, ConstantsAssumption DEF Query, memory, flags, links, counts,
       history, game, poll, fields, TypeOK, QueryTypes, FlagTypes, ThreadTypes,
       GameTypes, PollTypes, Goto, Visiting, IsFirst, QUERY_RETRY_COUNT,
       Touching, InFrameForward, QueryInv, CreatedFacts, PollerFacts,
       DecideFacts, FlagFacts, StartFacts, RunFacts, ReturnFacts, FrameFacts,
       ThreadFacts, FirstMap, StopPhase, ServiceInv, MarkFacts, PlaceFacts,
       AnswerFacts, RetryFacts, CalledFacts, ForwardFacts, DeliveryFacts
<1>2. CASE Natives
  BY <1>2 DEF Natives, AddConnect, PushQuery, PrepareSync, FreeInCallback,
    ExecQuery, FreeSync, PrepareQuery, InPlugin, ThreadsMutexFree
<1>3. CASE FrameForward
  <2>1. CASE GetFrameQuery
    BY <2>1 DEF GetFrameQuery
  <2>2. CASE ForwardAbort
    BY <2>2 DEF ForwardAbort, MayAbort
  <2>3. CASE ForwardExec
    <3>1. CASE r = cur
      <4>1. r \notin aborted => calls[r] = 0
        BY <2>3, <3>1 DEF ForwardExec
      <4>2. calls'[r] = calls[r] + 1 /\ calls[r] \in Nat
        BY <2>3, <3>1 DEF ForwardExec
      <4>3. calls'[r] > 0 /\ (r \notin aborted => calls'[r] = 1)
        BY <4>1, <4>2
      <4>4. QED
        BY <2>3, <3>1, <4>3 DEF ForwardExec, MayForward
    <3>2. CASE r # cur
      <4>1. calls'[r] = calls[r]
        BY <2>3, <3>2 DEF ForwardExec
      <4>2. QED
        BY <2>3, <3>2, <4>1 DEF ForwardExec
    <3>3. QED
      BY <3>1, <3>2
  <2>4. CASE ForwardHeapLow
    BY <2>4 DEF ForwardHeapLow, MayForward
  <2>5. CASE CallbackReturn
    BY <2>5 DEF CallbackReturn
  <2>6. CASE FinishFrame
    BY <2>6 DEF FinishFrame
  <2>7. CASE CountFrame
    BY <2>7 DEF CountFrame
  <2>8. QED
    BY <1>3, <2>1, <2>2, <2>3, <2>4, <2>5, <2>6, <2>7 DEF FrameForward
<1>4. CASE Stop
  BY <1>4 DEF Stop, StopBegin, StopFrames, StopMark, StopClear, FrameMutexFree,
    ThreadsMutexFree
<1>5. ASSUME NEW q \in Query, RunQuery(q)
      PROVE  ForwardFacts(r)'
  <2>1. CASE RunBegin(q)
    BY <2>1 DEF RunBegin
  <2>2. CASE RunConnect(q)
    BY <2>2 DEF RunConnect
  <2>3. CASE RunTuple(q)
    BY <2>3 DEF RunTuple
  <2>4. CASE RunExec(q)
    BY <2>4 DEF RunExec
  <2>5. CASE RunCheck(q)
    BY <2>5 DEF RunCheck
  <2>6. CASE RunFrame(q)
    BY <2>6 DEF RunFrame
  <2>7. CASE RunPush(q)
    BY <2>7 DEF RunPush
  <2>8. CASE RunFinish(q)
    BY <2>8 DEF RunFinish
  <2>9. CASE RunCount(q)
    BY <2>9 DEF RunCount
  <2>10. QED
    BY <1>5, <2>1, <2>2, <2>3, <2>4, <2>5, <2>6, <2>7, <2>8, <2>9 DEF RunQuery
<1>6. CASE PollQuery
  <2>1. CASE PollBegin
    BY <2>1 DEF PollBegin
  <2>2. CASE PollDecide
    BY <2>2 DEF PollDecide, MayRetry, Releasable
  <2>3. CASE PollUnlock
    BY <2>3 DEF PollUnlock
  <2>4. CASE PollEnd
    BY <2>4 DEF PollEnd
  <2>5. ASSUME NEW q \in Query, VisitOver(q)
       PROVE  ForwardFacts(r)'
    BY <2>5 DEF VisitOver, CollectThread
  <2>6. ASSUME NEW q \in Query, VisitStart(q)
       PROVE  ForwardFacts(r)'
    BY <2>6 DEF VisitStart, CanStart
  <2>7. ASSUME NEW q \in Query, VisitSkip(q)
       PROVE  ForwardFacts(r)'
    BY <2>7 DEF VisitSkip
  <2>8. ASSUME NEW q \in Query, SpawnThread(q)
       PROVE  ForwardFacts(r)'
    BY <2>8 DEF SpawnThread, Spawning
  <2>9. ASSUME NEW q \in Query, SpawnFails(q)
       PROVE  ForwardFacts(r)'
    BY <2>9 DEF SpawnFails, Spawning
  <2>10. ASSUME NEW q \in Query, CleanQuery(q)
       PROVE  ForwardFacts(r)'
    BY <2>10 DEF CleanQuery
  <2>11. ASSUME NEW q \in Query, JoinThread(q)
       PROVE  ForwardFacts(r)'
    BY <2>11 DEF JoinThread
  <2>12. QED
    BY <1>6, <2>1, <2>2, <2>3, <2>4, <2>5, <2>6, <2>7, <2>8, <2>9, <2>10, <2>11
       DEF PollQuery
<1>7. QED
  BY <1>2, <1>3, <1>4, <1>5, <1>6 DEF Next

(* A step finishes no successful query before its handler was called. *)
LEMMA DeliveryFactsStep ==
  ASSUME TypeOK, IInv, SInv, NEW r \in Query, Next
  PROVE  DeliveryFacts(r)'
<1>1. FirstMap /\ StopPhase /\ QueryInv(r) /\ ServiceInv(r)
  BY DEF IInv, SInv
<1> USE <1>1, ConstantsAssumption DEF Query, memory, flags, links, counts,
       history, game, poll, fields, TypeOK, QueryTypes, FlagTypes, ThreadTypes,
       GameTypes, PollTypes, Goto, Visiting, IsFirst, QUERY_RETRY_COUNT,
       Touching, InFrameForward, QueryInv, CreatedFacts, PollerFacts,
       DecideFacts, FlagFacts, StartFacts, RunFacts, ReturnFacts, FrameFacts,
       ThreadFacts, FirstMap, StopPhase, ServiceInv, MarkFacts, PlaceFacts,
       AnswerFacts, RetryFacts, CalledFacts, ForwardFacts, DeliveryFacts
<1>2. CASE Natives
  <2>1. CASE AddConnect
    BY <2>1 DEF AddConnect
  <2>2. CASE PushQuery
    BY <2>2 DEF PushQuery, PrepareQuery, InPlugin, ThreadsMutexFree
  <2>3. CASE PrepareSync
    BY <2>3 DEF PrepareSync, PrepareQuery, InPlugin, ThreadsMutexFree
  <2>4. CASE FreeInCallback
    BY <2>4 DEF FreeInCallback
  <2>5. ASSUME NEW q \in Query, ExecQuery(q)
       PROVE  DeliveryFacts(r)'
    BY <2>5 DEF ExecQuery, InPlugin
  <2>6. ASSUME NEW q \in Query, FreeSync(q)
       PROVE  DeliveryFacts(r)'
    BY <2>6 DEF FreeSync, InPlugin
  <2>7. QED
    BY <1>2, <2>1, <2>2, <2>3, <2>4, <2>5, <2>6 DEF Natives
<1>3. CASE FrameForward
  BY <1>3 DEF FrameForward, GetFrameQuery, ForwardAbort, ForwardExec,
    ForwardHeapLow, CallbackReturn, FinishFrame, CountFrame, MayAbort,
    MayForward, FrameMutexFree
<1>4. CASE Stop
  <2>1. CASE StopBegin
    BY <2>1 DEF StopBegin
  <2>2. CASE StopFrames
    BY <2>2 DEF StopFrames
  <2>3. CASE StopMark
    BY <2>3 DEF StopMark, ThreadsMutexFree
  <2>4. CASE StopClear
    BY <2>4 DEF StopClear
  <2>5. QED
    BY <1>4, <2>1, <2>2, <2>3, <2>4 DEF Stop
<1>5. ASSUME NEW q \in Query, RunQuery(q)
      PROVE  DeliveryFacts(r)'
  <2>1. CASE RunBegin(q)
    BY <2>1 DEF RunBegin
  <2>2. CASE RunConnect(q)
    BY <2>2 DEF RunConnect
  <2>3. CASE RunTuple(q)
    BY <2>3 DEF RunTuple
  <2>4. CASE RunExec(q)
    BY <2>4 DEF RunExec
  <2>5. CASE RunCheck(q)
    BY <2>5 DEF RunCheck
  <2>6. CASE RunFrame(q)
    BY <2>6 DEF RunFrame
  <2>7. CASE RunPush(q)
    BY <2>7 DEF RunPush
  <2>8. CASE RunFinish(q)
    BY <2>8 DEF RunFinish
  <2>9. CASE RunCount(q)
    BY <2>9 DEF RunCount
  <2>10. QED
    BY <1>5, <2>1, <2>2, <2>3, <2>4, <2>5, <2>6, <2>7, <2>8, <2>9 DEF RunQuery
<1>6. CASE PollQuery
  <2>1. CASE PollBegin
    BY <2>1 DEF PollBegin
  <2>2. CASE PollDecide
    BY <2>2 DEF PollDecide, MayRetry, Releasable
  <2>3. CASE PollUnlock
    BY <2>3 DEF PollUnlock
  <2>4. CASE PollEnd
    BY <2>4 DEF PollEnd
  <2>5. ASSUME NEW q \in Query, VisitOver(q)
       PROVE  DeliveryFacts(r)'
    BY <2>5 DEF VisitOver, CollectThread
  <2>6. ASSUME NEW q \in Query, VisitStart(q)
       PROVE  DeliveryFacts(r)'
    BY <2>6 DEF VisitStart, CanStart
  <2>7. ASSUME NEW q \in Query, VisitSkip(q)
       PROVE  DeliveryFacts(r)'
    BY <2>7 DEF VisitSkip
  <2>8. ASSUME NEW q \in Query, SpawnThread(q)
       PROVE  DeliveryFacts(r)'
    BY <2>8 DEF SpawnThread, Spawning
  <2>9. ASSUME NEW q \in Query, SpawnFails(q)
       PROVE  DeliveryFacts(r)'
    BY <2>9 DEF SpawnFails, Spawning
  <2>10. ASSUME NEW q \in Query, CleanQuery(q)
       PROVE  DeliveryFacts(r)'
    BY <2>10 DEF CleanQuery
  <2>11. ASSUME NEW q \in Query, JoinThread(q)
       PROVE  DeliveryFacts(r)'
    BY <2>11 DEF JoinThread
  <2>12. QED
    BY <1>6, <2>1, <2>2, <2>3, <2>4, <2>5, <2>6, <2>7, <2>8, <2>9, <2>10, <2>11
       DEF PollQuery
<1>7. QED
  BY <1>2, <1>3, <1>4, <1>5, <1>6 DEF Next

(* The invariant of the service holds together with the one of the threads: *)
(* where a query is, what is known of its answer, its retries and its      *)
(* handler, at every step of every thread.                                 *)
THEOREM ServiceInductive == Spec => [](TypeOK /\ IInv /\ SInv)
<1>1. Init => SInv
  <2> SUFFICES ASSUME Init, NEW q \in Query
               PROVE  ServiceInv(q)
    BY DEF SInv, StopPhase, Init
  <2> USE DEF Init, Query
  <2>1. MarkFacts(q)
    BY DEF MarkFacts
  <2>2. PlaceFacts(q)
    BY ConstantsAssumption DEF PlaceFacts
  <2>3. AnswerFacts(q) /\ RetryFacts(q)
    BY DEF AnswerFacts, RetryFacts, QUERY_RETRY_COUNT
  <2>4. CalledFacts(q) /\ ForwardFacts(q) /\ DeliveryFacts(q)
    BY DEF CalledFacts, ForwardFacts, DeliveryFacts, InFrameForward
  <2>5. QED
    BY <2>1, <2>2, <2>3, <2>4 DEF ServiceInv
<1>2. TypeOK /\ IInv /\ SInv /\ [Next]_vars => SInv'
  <2> SUFFICES ASSUME TypeOK, IInv, SInv, [Next]_vars
               PROVE  SInv'
    OBVIOUS
  <2>1. CASE Next
    <3> SUFFICES ASSUME NEW r \in Query
                 PROVE  ServiceInv(r)'
      BY <2>1, StopPhaseStep DEF SInv, Query
    <3>1. /\ MarkFacts(r)' /\ PlaceFacts(r)' /\ AnswerFacts(r)'
          /\ RetryFacts(r)' /\ CalledFacts(r)' /\ ForwardFacts(r)'
          /\ DeliveryFacts(r)'
      BY <2>1, MarkFactsStep, PlaceFactsStep, AnswerFactsStep, RetryFactsStep,
         CalledFactsStep, ForwardFactsStep, DeliveryFactsStep
    <3>2. QED
      BY <3>1 DEF ServiceInv
  <2>2. CASE UNCHANGED vars
    BY <2>2 DEF vars, memory, flags, links, counts, history, game, poll,
       fields, SInv, StopPhase, ServiceInv, MarkFacts, PlaceFacts, AnswerFacts,
       RetryFacts, CalledFacts, ForwardFacts, DeliveryFacts, InFrameForward
  <2>3. QED
    BY <2>1, <2>2
<1>3. QED
  BY <1>1, <1>2, TypeCorrect, Inductive, PTL DEF Spec

(* Deletion happens to one query, which is in finished_queries. *)
LEMMA OnlyCleanDeletes ==
  ASSUME Next, NEW q, q \in deleted', q \notin deleted
  PROVE  q \in Query /\ CleanQuery(q)
<1> USE DEF memory
<1>1. CASE Natives
  BY <1>1 DEF Natives, AddConnect, PushQuery, PrepareSync, FreeInCallback,
     ExecQuery, FreeSync, PrepareQuery
<1>2. CASE FrameForward
  BY <1>2 DEF FrameForward, GetFrameQuery, ForwardAbort, ForwardExec,
     ForwardHeapLow, CallbackReturn, FinishFrame, CountFrame
<1>3. CASE Stop
  BY <1>3 DEF Stop, StopBegin, StopFrames, StopMark, StopClear
<1>4. ASSUME NEW r \in Query, RunQuery(r)
      PROVE  FALSE
  BY <1>4 DEF RunQuery, RunBegin, RunConnect, RunTuple, RunExec, RunCheck,
     RunFrame, RunPush, RunFinish, RunCount
<1>5. CASE PollQuery
  <2>1. ASSUME NEW r \in Query, CleanQuery(r)
        PROVE  q = r
    BY <2>1 DEF CleanQuery
  <2>2. QED
    BY <1>5, <2>1 DEF PollQuery, PollBegin, PollDecide, PollUnlock, PollEnd,
       VisitOver, VisitStart, VisitSkip, SpawnThread, SpawnFails, JoinThread
<1>6. QED
  BY <1>1, <1>2, <1>3, <1>4, <1>5 DEF Next

(* The QueryHandler contract (refsapi_mysql_mngr.h l.419-459): when a query *)
(* is deleted, its handler was called at most once, and it was called if   *)
(* the query succeeded and has a handler, unless the plugin's heap was     *)
(* full, stop() aborted the query or is running.                           *)
THEOREM Delivered == Spec => ResultDelivered
<1> DEFINE Answered ==
             \A q \in (deleted' \ deleted) \cap async :
               /\ calls[q] <= 1
               /\ q \in (successful \cap fwd) \ (aborted \cup heap_low) =>
                    calls[q] = 1 \/ stop_threads
<1>1. TypeOK /\ IInv /\ SInv /\ [Next]_vars => [Answered]_vars
  <2> SUFFICES ASSUME TypeOK, IInv, SInv, Next,
                      NEW q \in (deleted' \ deleted) \cap async
               PROVE  /\ calls[q] <= 1
                      /\ q \in (successful \cap fwd) \ (aborted \cup heap_low) =>
                           calls[q] = 1 \/ stop_threads
    OBVIOUS
  <2>1. q \in Query /\ CleanQuery(q)
    BY OnlyCleanDeletes
  <2>2. StopPhase /\ QueryInv(q) /\ ServiceInv(q)
    BY <2>1 DEF IInv, SInv
  <2>3. calls[q] \in Nat /\ calls[q] <= 1
    BY <2>1, <2>2 DEF TypeOK, GameTypes, ServiceInv, CalledFacts
  <2>4. ASSUME q \in (successful \cap fwd) \ (aborted \cup heap_low)
        PROVE  calls[q] > 0 \/ stop_threads
    <3>1. q \in finished_queries
      BY <2>1 DEF CleanQuery, IsFirst
    <3>2. q \in finished
      BY <2>2, <2>4, <3>1 DEF QueryInv, PollerFacts
    <3>3. calls[q] > 0 \/ gpc \in {"stop_frames", "stop_mark"}
      BY <2>2, <2>4, <3>2 DEF ServiceInv, DeliveryFacts
    <3>4. QED
      BY <2>2, <3>3 DEF StopPhase
  <2>5. QED
    BY <2>3, <2>4
<1>2. QED
  BY <1>1, ServiceInductive, PTL DEF Spec, ResultDelivered

-----------------------------------------------------------------------------
(* What the abstract service sees of the detailed one. *)
Seen == [q \in Query |-> StatusOf(q)]

(* A step that changes the status of one query changes Seen there only. *)
LEMMA SeenChanges ==
  ASSUME NEW q \in Query, \A r \in Query : r # q => StatusOf(r)' = StatusOf(r)
  PROVE  Seen' = [Seen EXCEPT ![q] = StatusOf(q)']
BY DEF Seen, Query

(* A step that changes no status leaves Seen alone. *)
LEMMA SeenKept ==
  ASSUME \A r \in Query : StatusOf(r)' = StatusOf(r)
  PROVE  Seen' = Seen
BY DEF Seen, Query

(* A step that leaves alone what the status of a query depends on, its     *)
(* retries, its handler and the stop flag is invisible to the service.     *)
LEMMA Invisible ==
  ASSUME UNCHANGED <<nums, aborted, deleted, calls, retry_count, fwd,
                     heap_low, stop_threads>>
  PROVE  UNCHANGED Service!vars
<1>1. Seen' = Seen
  BY SeenKept DEF StatusOf
<1>2. QED
  BY <1>1 DEF Seen, Service!vars

(* A native submits a query or is invisible. *)
LEMMA NativesServe ==
  ASSUME TypeOK, IInv, SInv, Natives
  PROVE  [Service!Next]_Service!vars
<1> USE DEF memory, flags, links, history, game, fields
<1>1. ASSUME NEW a, NEW p, NEW c, PrepareQuery(a, p, c)
      PROVE  Service!Next
  <2>0. PICK q \in Query : q = nums + 1
    BY <1>1, ConstantsAssumption DEF PrepareQuery, TypeOK, QueryTypes, Query
  <2>1. nums \in Nat /\ nums' = q
    BY <1>1, <2>0 DEF PrepareQuery, TypeOK, QueryTypes
  <2>2. QueryInv(q) /\ ServiceInv(q)
    BY <2>1 DEF IInv, SInv
  <2>3. ~(q <= nums)
    BY <2>0, <2>1
  <2>4. q \notin aborted /\ q \notin deleted /\ ~(calls[q] > 0)
    BY <2>2, <2>3 DEF QueryInv, CreatedFacts, ServiceInv, CalledFacts
  <2>5. UNCHANGED <<aborted, deleted, calls, retry_count, fwd, heap_low,
                    stop_threads>>
    BY <1>1 DEF PrepareQuery
  <2>6. StatusOf(q) = "unused" /\ StatusOf(q)' = "pending"
    <3>1. q > nums /\ ~(q > nums')
      BY <2>0, <2>1
    <3>2. QED
      BY <2>4, <2>5, <3>1 DEF StatusOf
  <2>7. \A r \in Query : r # q => StatusOf(r)' = StatusOf(r)
    <3> SUFFICES ASSUME NEW r \in Query, r # q
                 PROVE  StatusOf(r)' = StatusOf(r)
      OBVIOUS
    <3>1. r > nums' <=> r > nums
      BY <2>0, <2>1 DEF Query
    <3>2. QED
      BY <2>5, <3>1 DEF StatusOf
  <2>8. Seen' = [Seen EXCEPT ![q] = "pending"] /\ Seen[q] = "unused"
    BY <2>1, <2>6, <2>7, SeenChanges DEF Seen
  <2>9. Service!Submit(q)
    BY <2>5, <2>8 DEF Service!Submit, Service!Become, Seen
  <2>10. QED
    BY <2>9 DEF Service!Next
<1>2. CASE PushQuery
  BY <1>1, <1>2 DEF PushQuery
<1>3. CASE PrepareSync
  BY <1>1, <1>3 DEF PrepareSync
<1>4. CASE AddConnect \/ FreeInCallback
  BY <1>4, Invisible DEF AddConnect, FreeInCallback
<1>5. ASSUME NEW q \in Query, ExecQuery(q) \/ FreeSync(q)
      PROVE  UNCHANGED Service!vars
  BY <1>5, Invisible DEF ExecQuery, FreeSync
<1>6. QED
  BY <1>2, <1>3, <1>4, <1>5 DEF Natives

(* frame_forward() delivers the result it popped, finds that its handler   *)
(* cannot be called, or is invisible.                                      *)
LEMMA FrameForwardServes ==
  ASSUME TypeOK, IInv, SInv, FrameForward
  PROVE  [Service!Next]_Service!vars
<1> USE DEF memory, flags, links, history, game, fields
<1>1. ASSUME gpc = "popped"
      PROVE  /\ cur \in Query /\ cur <= nums
             /\ cur \in aborted => StatusOf(cur) = "cancelled"
             /\ cur \notin aborted => /\ StatusOf(cur) = "pending"
                                      /\ cur \in fwd \ heap_low
  <2>1. cur \in Query
    BY <1>1 DEF TypeOK, GameTypes
  <2>2. QueryInv(cur) /\ ServiceInv(cur) /\ InFrameForward(cur)
    BY <1>1, <2>1 DEF IInv, SInv, InFrameForward
  <2>3. cur \in async /\ cur <= nums
    BY <2>2 DEF QueryInv, FrameFacts, CreatedFacts
  <2>4. ~(cur > nums)
    BY <2>1, <2>3 DEF TypeOK, QueryTypes, Query
  <2>5. CASE cur \in aborted
    BY <2>1, <2>3, <2>4, <2>5 DEF StatusOf
  <2>6. CASE cur \notin aborted
    <3>1. cur \in m_queries /\ cur \notin finished
      BY <1>1, <2>2, <2>6 DEF QueryInv, FrameFacts
    <3>2. cur \notin deleted
      BY <2>2, <3>1 DEF QueryInv, CreatedFacts
    <3>3. ~(calls[cur] > 0) /\ cur \notin heap_low
      BY <1>1, <2>2, <2>6, <3>1 DEF ServiceInv, CalledFacts
    <3>4. cur \in fwd
      BY <1>1, <2>2, <2>6 DEF ServiceInv, ForwardFacts
    <3>5. QED
      BY <2>1, <2>3, <2>4, <2>6, <3>2, <3>3, <3>4 DEF StatusOf
  <2>7. QED
    BY <2>5, <2>6
<1>2. CASE ForwardExec
  <2>1. /\ gpc = "popped"
        /\ UNCHANGED <<nums, aborted, deleted, retry_count, fwd, heap_low,
                       stop_threads>>
    BY <1>2 DEF ForwardExec
  <2>2. PICK q \in Query : q = cur
    BY <1>1, <2>1
  <2>3. /\ calls' = [calls EXCEPT ![q] = @ + 1]
        /\ calls \in [Query -> Nat]
    BY <1>2, <2>2 DEF ForwardExec, TypeOK, GameTypes
  <2>4. \A r \in Query : r # q => StatusOf(r)' = StatusOf(r)
    BY <2>1, <2>3 DEF StatusOf
  <2>5. CASE q \in aborted
    <3>1. StatusOf(q)' = StatusOf(q)
      BY <2>1, <2>5 DEF StatusOf
    <3>2. Seen' = Seen
      BY <2>4, <3>1, SeenKept
    <3>3. QED
      BY <2>1, <3>2 DEF Seen, Service!vars
  <2>6. CASE q \notin aborted
    <3>1. calls'[q] > 0
      BY <2>3
    <3>2. StatusOf(q) = "pending" /\ q \in fwd \ heap_low
      BY <1>1, <2>1, <2>2, <2>6
    <3>3. ~(q > nums) /\ q \notin deleted
      BY <2>6, <3>2 DEF StatusOf
    <3>4. StatusOf(q)' = "delivered"
      BY <2>1, <2>6, <3>1, <3>3 DEF StatusOf
    <3>5. Seen' = [Seen EXCEPT ![q] = "delivered"] /\ Seen[q] = "pending"
      BY <2>4, <3>2, <3>4, SeenChanges DEF Seen
    <3>6. Service!Deliver(q)
      BY <2>1, <3>2, <3>5 DEF Service!Deliver, Service!Become, Seen
    <3>7. QED
      BY <3>6 DEF Service!Next
  <2>7. QED
    BY <2>5, <2>6
<1>3. CASE ForwardHeapLow
  <2>1. /\ gpc = "popped" /\ heap_low' = heap_low \cup {cur}
        /\ UNCHANGED <<nums, aborted, deleted, retry_count, fwd, calls,
                       stop_threads>>
    BY <1>3 DEF ForwardHeapLow
  <2>2. Seen' = Seen
    BY <2>1, SeenKept DEF StatusOf
  <2>3. cur \in Query /\ Seen[cur] \in {"pending", "cancelled"}
    BY <1>1, <2>1 DEF Seen
  <2>4. fwd' \ heap_low' = (fwd \ heap_low) \ {cur}
    BY <2>1
  <2>5. Service!Resolve(cur)
    BY <2>1, <2>2, <2>3, <2>4 DEF Service!Resolve, Seen
  <2>6. QED
    BY <2>3, <2>5 DEF Service!Next
<1>4. CASE \/ GetFrameQuery \/ ForwardAbort \/ CallbackReturn \/ FinishFrame
           \/ CountFrame
  BY <1>4, Invisible DEF GetFrameQuery, ForwardAbort, CallbackReturn,
     FinishFrame, CountFrame
<1>5. QED
  BY <1>2, <1>3, <1>4 DEF FrameForward

(* stop() starts a map change, cancels every live query at once and ends   *)
(* the map change.                                                         *)
LEMMA StopServes ==
  ASSUME TypeOK, IInv, SInv, Stop
  PROVE  [Service!Next]_Service!vars
<1> USE DEF memory, flags, links, history, game, fields
<1>1. StopPhase
  BY DEF SInv
<1>2. CASE StopBegin
  <2>1. /\ UNCHANGED <<nums, aborted, deleted, calls, retry_count, fwd, heap_low>>
        /\ gpc = "idle" /\ stop_threads' = TRUE
    BY <1>2 DEF StopBegin
  <2>2. Seen' = Seen
    BY <2>1, SeenKept DEF StatusOf
  <2>3. ~stop_threads
    BY <1>1, <2>1 DEF StopPhase
  <2>4. Service!StopBegin
    BY <2>1, <2>2, <2>3 DEF Service!StopBegin, Seen
  <2>5. QED
    BY <2>4 DEF Service!Next
<1>3. CASE StopFrames
  BY <1>3, Invisible DEF StopFrames
<1>4. CASE StopMark
  <2>1. /\ UNCHANGED <<nums, deleted, calls, retry_count, fwd, heap_low,
                       stop_threads>>
        /\ gpc = "stop_mark" /\ aborted' = aborted \cup m_queries
    BY <1>4 DEF StopMark
  <2>2. stop_threads
    BY <1>1, <2>1 DEF StopPhase
  <2>3. ASSUME NEW r \in Query
        PROVE  StatusOf(r)' = IF StatusOf(r) \in {"pending", "delivered"}
                              THEN "cancelled" ELSE StatusOf(r)
    <3>1. QueryInv(r) /\ ServiceInv(r)
      BY DEF IInv, SInv
    <3>2. r \in m_queries => r \notin deleted
      BY <3>1 DEF QueryInv, CreatedFacts
    <3>3. r > nums \/ r \in m_queries \/ r \in deleted
      BY <3>1 DEF ServiceInv, PlaceFacts, TypeOK, QueryTypes, Query
    <3>4. CASE r > nums
      BY <2>1, <3>4 DEF StatusOf
    <3>5. CASE ~(r > nums) /\ r \in m_queries
      BY <2>1, <3>2, <3>5 DEF StatusOf
    <3>6. CASE ~(r > nums) /\ r \notin m_queries
      BY <2>1, <3>3, <3>6 DEF StatusOf
    <3>7. QED
      BY <3>4, <3>5, <3>6
  <2>4. Seen' = [r \in Query |-> IF Seen[r] \in {"pending", "delivered"}
                                 THEN "cancelled" ELSE Seen[r]]
    BY <2>3 DEF Seen, Query
  <2>5. Service!Cancel
    BY <2>1, <2>2, <2>4 DEF Service!Cancel, Service!Live, Seen
  <2>6. QED
    BY <2>5 DEF Service!Next
<1>5. CASE StopClear
  <2>1. /\ UNCHANGED <<nums, aborted, deleted, calls, retry_count, fwd, heap_low>>
        /\ gpc = "stop_clear" /\ stop_threads' = FALSE
    BY <1>5 DEF StopClear
  <2>2. Seen' = Seen
    BY <2>1, SeenKept DEF StatusOf
  <2>3. stop_threads
    BY <1>1, <2>1 DEF StopPhase
  <2>4. Service!StopEnd
    BY <2>1, <2>2, <2>3 DEF Service!StopEnd, Seen
  <2>5. QED
    BY <2>4 DEF Service!Next
<1>6. QED
  BY <1>2, <1>3, <1>4, <1>5 DEF Stop

(* A worker finds out whether its query has a handler, or is invisible. *)
LEMMA RunQueryServes ==
  ASSUME TypeOK, IInv, SInv, NEW q \in Query, RunQuery(q)
  PROVE  [Service!Next]_Service!vars
<1> USE DEF memory, flags, links, history, game, fields
<1>1. ASSUME wpc[q] \in {"connect", "tuple"}
      PROVE  /\ Seen[q] \in {"pending", "cancelled"}
             /\ Seen[q] = "pending" => q \notin heap_low
  <2>1. QueryInv(q) /\ ServiceInv(q)
    BY DEF IInv, SInv
  <2>2. /\ q \in async /\ q \notin finished /\ ~InFrameForward(q)
        /\ q \in m_queries \/ q \in aborted
    BY <1>1, <2>1 DEF QueryInv, RunFacts, Touching
  <2>3. ~(q > nums)
    BY <2>1, <2>2 DEF QueryInv, CreatedFacts, TypeOK, QueryTypes, Query
  <2>4. CASE q \in aborted
    BY <2>3, <2>4 DEF StatusOf, Seen
  <2>5. CASE q \notin aborted
    <3>1. q \notin deleted
      BY <2>1, <2>2, <2>5 DEF QueryInv, CreatedFacts
    <3>2. ~(calls[q] > 0) /\ q \notin heap_low
      BY <2>1, <2>2, <2>5 DEF ServiceInv, CalledFacts
    <3>3. QED
      BY <2>3, <2>5, <3>1, <3>2 DEF StatusOf, Seen
  <2>6. QED
    BY <2>4, <2>5
<1>2. ASSUME wpc[q] \in {"connect", "tuple"},
             fwd' \in {fwd, fwd \cup {q}, fwd \ {q}},
             UNCHANGED <<nums, aborted, deleted, calls, retry_count, heap_low,
                         stop_threads>>
      PROVE  [Service!Next]_Service!vars
  <2>1. Seen' = Seen
    BY <1>2, SeenKept DEF StatusOf
  <2>2. CASE fwd' \ heap_low' = fwd \ heap_low
    BY <1>2, <2>1, <2>2 DEF Seen, Service!vars
  <2>3. CASE fwd' \ heap_low' # fwd \ heap_low
    <3>1. fwd' \ heap_low' \in {(fwd \ heap_low) \cup {q}, (fwd \ heap_low) \ {q}}
      BY <1>2, <2>3
    <3>2. Service!Resolve(q)
      BY <1>1, <1>2, <2>1, <3>1 DEF Service!Resolve, Seen
    <3>3. QED
      BY <3>2 DEF Service!Next
  <2>4. QED
    BY <2>2, <2>3
<1>3. CASE RunConnect(q)
  BY <1>2, <1>3 DEF RunConnect, Goto
<1>4. CASE RunTuple(q)
  BY <1>2, <1>4 DEF RunTuple
<1>5. CASE \/ RunBegin(q) \/ RunExec(q) \/ RunCheck(q) \/ RunFrame(q)
           \/ RunPush(q) \/ RunFinish(q) \/ RunCount(q)
  BY <1>5, Invisible DEF RunBegin, RunExec, RunCheck, RunFrame, RunPush,
     RunFinish, RunCount
<1>6. QED
  BY <1>3, <1>4, <1>5 DEF RunQuery

(* The poller counts a failure, releases a query of which nothing more is  *)
(* to be expected, or is invisible.                                        *)
LEMMA PollQueryServes ==
  ASSUME TypeOK, IInv, SInv, PollQuery
  PROVE  [Service!Next]_Service!vars
<1> USE DEF memory, flags, links, history, game, fields
<1>1. CASE PollDecide
  <2>1. /\ ppc = "decide"
        /\ UNCHANGED <<nums, aborted, deleted, calls, fwd, heap_low,
                       stop_threads>>
    BY <1>1 DEF PollDecide
  <2>2. CASE MayRetry(pq)
    <3>1. pq \in Query
      BY <2>1 DEF TypeOK, PollTypes
    <3>2. QueryInv(pq) /\ ServiceInv(pq)
      BY <3>1 DEF IInv, SInv
    <3>3. pq \in m_queries /\ pq \notin finished_queries
      BY <2>1, <3>2 DEF QueryInv, DecideFacts
    <3>4. pq \notin deleted /\ pq <= nums
      BY <3>2, <3>3 DEF QueryInv, CreatedFacts
    <3>5. retry_count[pq] \in Nat /\ ~(retry_count[pq] >= QUERY_RETRY_COUNT)
      BY <3>1, <3>2, <3>3, <3>4 DEF ServiceInv, RetryFacts, TypeOK, FlagTypes
    <3>6. ~(calls[pq] > 0)
      BY <2>2, <3>2 DEF ServiceInv, CalledFacts, MayRetry
    <3>7. ~(pq > nums)
      BY <3>1, <3>4 DEF TypeOK, QueryTypes, Query
    <3>8. Seen[pq] = "pending"
      BY <2>2, <3>1, <3>4, <3>6, <3>7 DEF Seen, StatusOf, MayRetry
    <3>9. Seen' = Seen
      BY <2>1, SeenKept DEF StatusOf
    <3>10. retry_count' = [retry_count EXCEPT ![pq] = @ + 1]
      BY <1>1, <2>2 DEF PollDecide
    <3>11. retry_count[pq] < QUERY_RETRY_COUNT
      BY <3>5 DEF QUERY_RETRY_COUNT
    <3>12. Service!Fail(pq)
      BY <2>1, <3>8, <3>9, <3>10, <3>11 DEF Service!Fail, Seen
    <3>13. QED
      BY <3>1, <3>12 DEF Service!Next
  <2>3. CASE ~MayRetry(pq)
    BY <1>1, <2>1, <2>3, Invisible DEF PollDecide
  <2>4. QED
    BY <2>2, <2>3
<1>2. ASSUME NEW q \in Query, CleanQuery(q)
      PROVE  [Service!Next]_Service!vars
  <2>1. /\ q \in finished_queries /\ deleted' = deleted \cup {q}
        /\ UNCHANGED <<nums, aborted, calls, retry_count, fwd, heap_low,
                       stop_threads>>
    BY <1>2 DEF CleanQuery, IsFirst
  <2>2. \A r \in Query : r # q => StatusOf(r)' = StatusOf(r)
    BY <2>1 DEF StatusOf
  <2>3. QueryInv(q) /\ ServiceInv(q) /\ StopPhase
    BY DEF IInv, SInv
  <2>4. q \in m_queries /\ q \notin deleted /\ q <= nums
    BY <2>1, <2>3 DEF ServiceInv, PlaceFacts, QueryInv, CreatedFacts
  <2>5. ~(q > nums)
    BY <2>4 DEF TypeOK, QueryTypes, Query
  <2>6. CASE q \in aborted
    <3>1. StatusOf(q)' = StatusOf(q)
      BY <2>1, <2>6 DEF StatusOf
    <3>2. Seen' = Seen
      BY <2>2, <3>1, SeenKept
    <3>3. QED
      BY <2>1, <3>2 DEF Seen, Service!vars
  <2>7. CASE q \notin aborted
    <3>1. StatusOf(q)' = "released"
      BY <2>1, <2>5, <2>7 DEF StatusOf
    <3>2. Seen' = [Seen EXCEPT ![q] = "released"]
      BY <2>2, <3>1, SeenChanges
    <3>3. Seen[q] = IF calls[q] > 0 THEN "delivered" ELSE "pending"
      BY <2>4, <2>5, <2>7 DEF Seen, StatusOf
    <3>4. q \in finished
      BY <2>1, <2>3, <2>7 DEF QueryInv, PollerFacts
    <3>5. ASSUME ~(calls[q] > 0), q \in fwd \ heap_low
          PROVE  retry_count[q] = QUERY_RETRY_COUNT \/ stop_threads
      <4>1. q \in async
        BY <2>3, <3>5 DEF ServiceInv, PlaceFacts
      <4>2. CASE q \in successful
        BY <2>3, <2>4, <2>7, <3>4, <3>5, <4>1, <4>2
           DEF ServiceInv, DeliveryFacts, StopPhase
      <4>3. CASE q \notin successful
        <5>1. retry_count[q] >= QUERY_RETRY_COUNT /\ retry_count[q] <= QUERY_RETRY_COUNT
          BY <2>1, <2>3, <2>7, <4>1, <4>3 DEF ServiceInv, RetryFacts
        <5>2. retry_count[q] \in Nat
          BY DEF TypeOK, FlagTypes
        <5>3. QED
          BY <5>1, <5>2 DEF QUERY_RETRY_COUNT
      <4>4. QED
        BY <4>2, <4>3
    <3>6. Service!Release(q)
      BY <2>1, <3>2, <3>3, <3>5 DEF Service!Release, Service!Become, Seen
    <3>7. QED
      BY <3>6 DEF Service!Next
  <2>8. QED
    BY <2>6, <2>7
<1>3. CASE PollBegin \/ PollUnlock \/ PollEnd
  BY <1>3, Invisible DEF PollBegin, PollUnlock, PollEnd
<1>4. ASSUME NEW q \in Query,
             \/ VisitOver(q) \/ VisitStart(q) \/ VisitSkip(q)
             \/ SpawnThread(q) \/ SpawnFails(q) \/ JoinThread(q)
      PROVE  UNCHANGED Service!vars
  BY <1>4, Invisible DEF VisitOver, VisitStart, VisitSkip, SpawnThread,
     SpawnFails, JoinThread
<1>5. QED
  BY <1>1, <1>2, <1>3, <1>4 DEF PollQuery

(* The threads of refsapi_mysql_mngr.h implement the query service: every  *)
(* step of a native, of frame_forward(), of stop(), of a worker and of the *)
(* poller is a step of QueryService or invisible to it.                    *)
THEOREM Implements == Spec => ImplementsService
<1>1. Init => Service!Init
  <2> SUFFICES ASSUME Init PROVE Service!Init
    OBVIOUS
  <2>1. \A q \in Query : StatusOf(q) = "unused"
    BY DEF Init, StatusOf, Query
  <2>2. QED
    BY <2>1 DEF Init, Service!Init
<1>2. TypeOK /\ IInv /\ SInv /\ [Next]_vars => [Service!Next]_Service!vars
  <2> SUFFICES ASSUME TypeOK, IInv, SInv, [Next]_vars
               PROVE  [Service!Next]_Service!vars
    OBVIOUS
  <2>1. CASE Next
    BY <2>1, NativesServe, FrameForwardServes, StopServes, RunQueryServes,
       PollQueryServes DEF Next
  <2>2. CASE UNCHANGED vars
    BY <2>2, Invisible DEF vars, memory, flags, links, history, game, fields
  <2>3. QED
    BY <2>1, <2>2
<1>3. QED
  BY <1>1, <1>2, ServiceInductive, PTL DEF Spec, ImplementsService, Service!Spec

=============================================================================
