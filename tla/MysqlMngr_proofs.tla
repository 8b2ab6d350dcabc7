-------------------------- MODULE MysqlMngr_proofs --------------------------
(***************************************************************************)
(* Proofs about the query service, for every number of queries, threads,   *)
(* tuples, map changes and failures.                                       *)
(***************************************************************************)
EXTENDS MysqlMngrInv, FiniteSetTheorems, TLAPS

(* A step keeps the types of the queries that exist. *)
LEMMA QueryTypesStep ==
  ASSUME QueryTypes, Next
  PROVE  QueryTypes'
<1> USE ConstantsAssumption DEF QueryTypes, Query,
       MAX_QUERY_PRIORITY, memory, flags, links, counts, history, game, poll, fields,
       Goto, Visiting
<1>1. CASE Natives
  <2>1. CASE AddConnect
    BY <2>1 DEF AddConnect
  <2>2. CASE PushQuery
    <3>1. PICK p \in Priorities, c \in 1 .. MaxTuples : PrepareQuery(TRUE, p, c)
      BY <2>2 DEF PushQuery
    <3>2. QED
      BY <3>1 DEF PrepareQuery
  <2>3. CASE PrepareSync
    BY <2>3 DEF PrepareSync, PrepareQuery
  <2>4. CASE FreeInCallback
    BY <2>4 DEF FreeInCallback
  <2>5. ASSUME NEW q \in Query, ExecQuery(q)
        PROVE  QueryTypes'
    BY <2>5 DEF ExecQuery
  <2>6. ASSUME NEW q \in Query, FreeSync(q)
        PROVE  QueryTypes'
    BY <2>6 DEF FreeSync
  <2>7. QED
    BY <1>1, <2>1, <2>2, <2>3, <2>4, <2>5, <2>6 DEF Natives
<1>2. CASE FrameForward
  BY <1>2 DEF FrameForward, GetFrameQuery, ForwardAbort, ForwardExec,
    ForwardHeapLow, CallbackReturn, FinishFrame, CountFrame
<1>3. CASE Stop
  BY <1>3 DEF Stop, StopBegin, StopFrames, StopMark, StopClear
<1>4. ASSUME NEW q \in Query, RunQuery(q)
      PROVE  QueryTypes'
  BY <1>4 DEF RunQuery, RunBegin, RunConnect, RunTuple, RunExec, RunCheck,
    RunFrame, RunPush, RunFinish, RunCount
<1>5. CASE PollQuery
  BY <1>5 DEF PollQuery, PollBegin, PollDecide, PollUnlock, PollEnd,
    VisitOver, VisitStart, VisitSkip, SpawnThread, SpawnFails, CleanQuery,
    JoinThread
<1>6. QED
  BY <1>1, <1>2, <1>3, <1>4, <1>5 DEF Next

(* Counting one more retry of a query keeps the type of the counters. *)
LEMMA IncrementTyped ==
  ASSUME NEW S, NEW c \in [S -> Nat], NEW q \in S
  PROVE  [c EXCEPT ![q] = @ + 1] \in [S -> Nat]
OBVIOUS

(* A step keeps the types of the flags and links of the queries. *)
LEMMA FlagTypesStep ==
  ASSUME QueryTypes, FlagTypes, GameTypes, PollTypes, Next
  PROVE  FlagTypes'
<1> USE ConstantsAssumption DEF QueryTypes, FlagTypes, GameTypes, PollTypes, Query,
       MAX_QUERY_PRIORITY, memory, flags, links, counts, history, game, poll, fields,
       Goto, Visiting
<1>1. CASE Natives
  <2>1. CASE AddConnect
    <3>1. m_conn_prms' \in Seq(Tuple)
      <4>1. PICK tuple \in Tuple : m_conn_prms' = Append(m_conn_prms, tuple)
        BY <2>1 DEF AddConnect
      <4>2. m_conn_prms \in Seq(Tuple)
        OBVIOUS
      <4> HIDE DEF FlagTypes, QueryTypes, GameTypes, PollTypes
      <4>3. QED
        BY <4>1, <4>2
    <3>2. UNCHANGED <<flags, conn, fwd>>
      BY <2>1 DEF AddConnect
    <3>3. QED
      BY <3>1, <3>2
  <2>2. CASE PushQuery
    BY <2>2 DEF PushQuery, PrepareQuery
  <2>3. CASE PrepareSync
    BY <2>3 DEF PrepareSync, PrepareQuery
  <2>4. CASE FreeInCallback
    BY <2>4 DEF FreeInCallback
  <2>5. ASSUME NEW q \in Query, ExecQuery(q)
        PROVE  FlagTypes'
    BY <2>5 DEF ExecQuery
  <2>6. ASSUME NEW q \in Query, FreeSync(q)
        PROVE  FlagTypes'
    BY <2>6 DEF FreeSync
  <2>7. QED
    BY <1>1, <2>1, <2>2, <2>3, <2>4, <2>5, <2>6 DEF Natives
<1>2. CASE FrameForward
  BY <1>2 DEF FrameForward, GetFrameQuery, ForwardAbort, ForwardExec,
    ForwardHeapLow, CallbackReturn, FinishFrame, CountFrame
<1>3. CASE Stop
  <2>1. CASE StopBegin
    BY <2>1 DEF StopBegin
  <2>2. CASE StopFrames
    BY <2>2 DEF StopFrames
  <2>3. CASE StopMark
    BY <2>3 DEF StopMark
  <2>4. CASE StopClear
    <3>1. m_conn_prms' = <<>> /\ UNCHANGED <<flags, conn, fwd>>
      BY <2>4 DEF StopClear
    <3>2. <<>> \in Seq(Tuple)
      OBVIOUS
    <3>3. QED
      BY <3>1, <3>2
  <2>5. QED
    BY <1>3, <2>1, <2>2, <2>3, <2>4 DEF Stop
<1>4. ASSUME NEW q \in Query, RunQuery(q)
      PROVE  FlagTypes'
  BY <1>4 DEF RunQuery, RunBegin, RunConnect, RunTuple, RunExec, RunCheck,
    RunFrame, RunPush, RunFinish, RunCount
<1>5. CASE PollQuery
  <2>1. CASE PollBegin
    BY <2>1 DEF PollBegin
  <2>2. CASE PollDecide
    <3>1. retry_count' \in [Query -> Nat]
      <4>1. pq \in Query /\ retry_count \in [Query -> Nat]
        BY <2>2 DEF PollDecide
      <4>2. \/ retry_count' = [retry_count EXCEPT ![pq] = @ + 1]
            \/ retry_count' = retry_count
        BY <2>2 DEF PollDecide
      <4> HIDE DEF QueryTypes, FlagTypes, GameTypes, PollTypes, Query
      <4>3. CASE retry_count' = [retry_count EXCEPT ![pq] = @ + 1]
        BY <4>1, <4>3, IncrementTyped
      <4>4. CASE retry_count' = retry_count
        BY <4>1, <4>4
      <4>5. QED
        BY <4>2, <4>3, <4>4
    <3>2. started' \subseteq Query /\ finished' \subseteq Query
      BY <2>2 DEF PollDecide
    <3>3. UNCHANGED <<aborted, successful, framed, conn, fwd, m_conn_prms>>
      BY <2>2 DEF PollDecide
    <3> HIDE DEF Query, QueryTypes, GameTypes, PollTypes
    <3>4. QED
      BY <3>1, <3>2, <3>3
  <2>3. CASE PollUnlock
    BY <2>3 DEF PollUnlock
  <2>4. CASE PollEnd
    BY <2>4 DEF PollEnd
  <2>5. ASSUME NEW q \in Query, VisitOver(q)
        PROVE  FlagTypes'
    BY <2>5 DEF VisitOver
  <2>6. ASSUME NEW q \in Query, VisitStart(q)
        PROVE  FlagTypes'
    BY <2>6 DEF VisitStart
  <2>7. ASSUME NEW q \in Query, VisitSkip(q)
        PROVE  FlagTypes'
    BY <2>7 DEF VisitSkip
  <2>8. ASSUME NEW q \in Query, SpawnThread(q)
        PROVE  FlagTypes'
    BY <2>8 DEF SpawnThread
  <2>9. ASSUME NEW q \in Query, SpawnFails(q)
        PROVE  FlagTypes'
    BY <2>9 DEF SpawnFails
  <2>10. ASSUME NEW q \in Query, CleanQuery(q)
        PROVE  FlagTypes'
    BY <2>10 DEF CleanQuery
  <2>11. ASSUME NEW q \in Query, JoinThread(q)
        PROVE  FlagTypes'
    BY <2>11 DEF JoinThread
  <2>12. QED
    BY <1>5, <2>1, <2>2, <2>3, <2>4, <2>5, <2>6, <2>7, <2>8, <2>9, <2>10,
       <2>11 DEF PollQuery
<1>6. QED
  BY <1>1, <1>2, <1>3, <1>4, <1>5 DEF Next

(* A step keeps the types of the workers. *)
LEMMA ThreadTypesStep ==
  ASSUME ThreadTypes, Next
  PROVE  ThreadTypes'
<1> USE ConstantsAssumption DEF ThreadTypes, Query,
       MAX_QUERY_PRIORITY, memory, flags, links, counts, history, game, poll, fields,
       Goto, Visiting
<1>1. CASE Natives
  BY <1>1 DEF Natives, AddConnect, PushQuery, PrepareSync, FreeInCallback,
    ExecQuery, FreeSync, PrepareQuery
<1>2. CASE FrameForward
  <2>1. CASE GetFrameQuery
    BY <2>1 DEF GetFrameQuery
  <2>2. CASE ForwardAbort
    BY <2>2 DEF ForwardAbort
  <2>3. CASE ForwardExec
    BY <2>3 DEF ForwardExec
  <2>4. CASE ForwardHeapLow
    BY <2>4 DEF ForwardHeapLow
  <2>5. CASE CallbackReturn
    BY <2>5 DEF CallbackReturn
  <2>6. CASE FinishFrame
    BY <2>6 DEF FinishFrame
  <2>7. CASE CountFrame
    BY <2>7 DEF CountFrame
  <2>8. QED
    BY <1>2, <2>1, <2>2, <2>3, <2>4, <2>5, <2>6, <2>7 DEF FrameForward
<1>3. CASE Stop
  BY <1>3 DEF Stop, StopBegin, StopFrames, StopMark, StopClear
<1>4. ASSUME NEW q \in Query, RunQuery(q)
      PROVE  ThreadTypes'
  BY <1>4 DEF RunQuery, RunBegin, RunConnect, RunTuple, RunExec, RunCheck,
    RunFrame, RunPush, RunFinish, RunCount
<1>5. CASE PollQuery
  <2>1. CASE PollBegin
    BY <2>1 DEF PollBegin
  <2>2. CASE PollDecide
    BY <2>2 DEF PollDecide
  <2>3. CASE PollUnlock
    BY <2>3 DEF PollUnlock
  <2>4. CASE PollEnd
    BY <2>4 DEF PollEnd
  <2>5. ASSUME NEW q \in Query, VisitOver(q)
        PROVE  ThreadTypes'
    <3>1. CASE CollectThread(q)
      <4>1. num_threads' = num_threads - 1 /\ m_threads' = m_threads \ {q}
        BY <2>5, <3>1 DEF VisitOver
      <4>2. num_finished' \in Int
        BY <2>5, <3>1 DEF VisitOver
      <4>3. QED
        BY <2>5, <4>1, <4>2 DEF VisitOver
    <3>2. CASE ~CollectThread(q)
      BY <2>5, <3>2 DEF VisitOver
    <3>3. QED
      BY <3>1, <3>2
  <2>6. ASSUME NEW q \in Query, VisitStart(q)
        PROVE  ThreadTypes'
    BY <2>6 DEF VisitStart
  <2>7. ASSUME NEW q \in Query, VisitSkip(q)
        PROVE  ThreadTypes'
    BY <2>7 DEF VisitSkip
  <2>8. ASSUME NEW q \in Query, SpawnThread(q)
        PROVE  ThreadTypes'
    BY <2>8 DEF SpawnThread
  <2>9. ASSUME NEW q \in Query, SpawnFails(q)
        PROVE  ThreadTypes'
    BY <2>9 DEF SpawnFails
  <2>10. ASSUME NEW q \in Query, CleanQuery(q)
        PROVE  ThreadTypes'
    BY <2>10 DEF CleanQuery
  <2>11. ASSUME NEW q \in Query, JoinThread(q)
        PROVE  ThreadTypes'
    BY <2>11 DEF JoinThread
  <2>12. QED
    BY <1>5, <2>1, <2>2, <2>3, <2>4, <2>5, <2>6, <2>7, <2>8, <2>9, <2>10,
       <2>11 DEF PollQuery
<1>6. QED
  BY <1>1, <1>2, <1>3, <1>4, <1>5 DEF Next

(* A step keeps the types of the game thread. *)
LEMMA GameTypesStep ==
  ASSUME ThreadTypes, GameTypes, Next
  PROVE  GameTypes'
<1> USE ConstantsAssumption DEF ThreadTypes, GameTypes, Query,
       MAX_QUERY_PRIORITY, memory, flags, links, counts, history, game, poll, fields,
       Goto, Visiting
<1>1. CASE Natives
  BY <1>1 DEF Natives, AddConnect, PushQuery, PrepareSync, FreeInCallback,
    ExecQuery, FreeSync, PrepareQuery
<1>2. CASE FrameForward
  <2>1. CASE GetFrameQuery
    BY <2>1 DEF GetFrameQuery
  <2>2. CASE ForwardAbort
    BY <2>2 DEF ForwardAbort
  <2>3. CASE ForwardExec
    BY <2>3 DEF ForwardExec
  <2>4. CASE ForwardHeapLow
    BY <2>4 DEF ForwardHeapLow
  <2>5. CASE CallbackReturn
    BY <2>5 DEF CallbackReturn
  <2>6. CASE FinishFrame
    BY <2>6 DEF FinishFrame
  <2>7. CASE CountFrame
    BY <2>7 DEF CountFrame
  <2>8. QED
    BY <1>2, <2>1, <2>2, <2>3, <2>4, <2>5, <2>6, <2>7 DEF FrameForward
<1>3. CASE Stop
  <2>1. CASE StopBegin
    BY <2>1 DEF StopBegin
  <2>2. CASE StopFrames
    BY <2>2 DEF StopFrames
  <2>3. CASE StopMark
    BY <2>3 DEF StopMark
  <2>4. CASE StopClear
    BY <2>4 DEF StopClear
  <2>5. QED
    BY <1>3, <2>1, <2>2, <2>3, <2>4 DEF Stop
<1>4. ASSUME NEW q \in Query, RunQuery(q)
      PROVE  GameTypes'
  BY <1>4 DEF RunQuery, RunBegin, RunConnect, RunTuple, RunExec, RunCheck,
    RunFrame, RunPush, RunFinish, RunCount
<1>5. CASE PollQuery
  <2>1. CASE PollBegin
    BY <2>1 DEF PollBegin
  <2>2. CASE PollDecide
    BY <2>2 DEF PollDecide
  <2>3. CASE PollUnlock
    BY <2>3 DEF PollUnlock
  <2>4. CASE PollEnd
    BY <2>4 DEF PollEnd
  <2>5. ASSUME NEW q \in Query, VisitOver(q)
        PROVE  GameTypes'
    BY <2>5 DEF VisitOver
  <2>6. ASSUME NEW q \in Query, VisitStart(q)
        PROVE  GameTypes'
    BY <2>6 DEF VisitStart
  <2>7. ASSUME NEW q \in Query, VisitSkip(q)
        PROVE  GameTypes'
    BY <2>7 DEF VisitSkip
  <2>8. ASSUME NEW q \in Query, SpawnThread(q)
        PROVE  GameTypes'
    BY <2>8 DEF SpawnThread
  <2>9. ASSUME NEW q \in Query, SpawnFails(q)
        PROVE  GameTypes'
    BY <2>9 DEF SpawnFails
  <2>10. ASSUME NEW q \in Query, CleanQuery(q)
        PROVE  GameTypes'
    BY <2>10 DEF CleanQuery
  <2>11. ASSUME NEW q \in Query, JoinThread(q)
        PROVE  GameTypes'
    BY <2>11 DEF JoinThread
  <2>12. QED
    BY <1>5, <2>1, <2>2, <2>3, <2>4, <2>5, <2>6, <2>7, <2>8, <2>9, <2>10,
       <2>11 DEF PollQuery
<1>6. QED
  BY <1>1, <1>2, <1>3, <1>4, <1>5 DEF Next

(* A step keeps the types of the poller. *)
LEMMA PollTypesStep ==
  ASSUME QueryTypes, PollTypes, Next
  PROVE  PollTypes'
<1> USE ConstantsAssumption DEF QueryTypes, PollTypes, Query,
       MAX_QUERY_PRIORITY, memory, flags, links, counts, history, game, poll, fields,
       Goto, Visiting
<1>1. CASE Natives
  BY <1>1 DEF Natives, AddConnect, PushQuery, PrepareSync, FreeInCallback,
    ExecQuery, FreeSync, PrepareQuery
<1>2. CASE FrameForward
  BY <1>2 DEF FrameForward, GetFrameQuery, ForwardAbort, ForwardExec,
    ForwardHeapLow, CallbackReturn, FinishFrame, CountFrame
<1>3. CASE Stop
  BY <1>3 DEF Stop, StopBegin, StopFrames, StopMark, StopClear
<1>4. ASSUME NEW q \in Query, RunQuery(q)
      PROVE  PollTypes'
  BY <1>4 DEF RunQuery, RunBegin, RunConnect, RunTuple, RunExec, RunCheck,
    RunFrame, RunPush, RunFinish, RunCount
<1>5. CASE PollQuery
  <2>1. CASE PollBegin
    BY <2>1 DEF PollBegin
  <2>2. CASE PollDecide
    BY <2>2 DEF PollDecide
  <2>3. CASE PollUnlock
    BY <2>3 DEF PollUnlock
  <2>4. CASE PollEnd
    BY <2>4 DEF PollEnd
  <2>5. ASSUME NEW q \in Query, VisitOver(q)
        PROVE  PollTypes'
    BY <2>5 DEF VisitOver
  <2>6. ASSUME NEW q \in Query, VisitStart(q)
        PROVE  PollTypes'
    BY <2>6 DEF VisitStart
  <2>7. ASSUME NEW q \in Query, VisitSkip(q)
        PROVE  PollTypes'
    BY <2>7 DEF VisitSkip
  <2>8. ASSUME NEW q \in Query, SpawnThread(q)
        PROVE  PollTypes'
    BY <2>8 DEF SpawnThread
  <2>9. ASSUME NEW q \in Query, SpawnFails(q)
        PROVE  PollTypes'
    BY <2>9 DEF SpawnFails
  <2>10. ASSUME NEW q \in Query, CleanQuery(q)
        PROVE  PollTypes'
    BY <2>10 DEF CleanQuery
  <2>11. ASSUME NEW q \in Query, JoinThread(q)
        PROVE  PollTypes'
    BY <2>11 DEF JoinThread
  <2>12. QED
    BY <1>5, <2>1, <2>2, <2>3, <2>4, <2>5, <2>6, <2>7, <2>8, <2>9, <2>10,
       <2>11 DEF PollQuery
<1>6. QED
  BY <1>1, <1>2, <1>3, <1>4, <1>5 DEF Next

(* The stop flag stays a boolean. *)
LEMMA StopFlagStep ==
  ASSUME stop_threads \in BOOLEAN, Next
  PROVE  stop_threads' \in BOOLEAN
<1> USE DEF game, poll
<1>1. CASE Natives
  BY <1>1 DEF Natives, AddConnect, PushQuery, PrepareSync, FreeInCallback,
      ExecQuery, FreeSync, PrepareQuery
<1>2. CASE FrameForward
  BY <1>2 DEF FrameForward, GetFrameQuery, ForwardAbort, ForwardExec,
      ForwardHeapLow, CallbackReturn, FinishFrame, CountFrame
<1>3. CASE Stop
  BY <1>3 DEF Stop, StopBegin, StopFrames, StopMark, StopClear
<1>4. ASSUME NEW q \in Query, RunQuery(q)
      PROVE  stop_threads' \in BOOLEAN
  BY <1>4 DEF RunQuery, RunBegin, RunConnect, RunTuple, RunExec, RunCheck,
      RunFrame, RunPush, RunFinish, RunCount
<1>5. CASE PollQuery
  BY <1>5 DEF PollQuery, PollBegin, PollDecide, PollUnlock, PollEnd,
      VisitOver, VisitStart, VisitSkip, SpawnThread, SpawnFails, CleanQuery,
      JoinThread
<1>6. QED
  BY <1>1, <1>2, <1>3, <1>4, <1>5 DEF Next

(* Every variable keeps its type: frame_forward() and the poller always    *)
(* hold a query where the code dereferences one.                           *)
THEOREM TypeCorrect == Spec => []TypeOK
<1>1. Init => TypeOK
  <2> SUFFICES ASSUME Init PROVE TypeOK
    OBVIOUS
  <2> USE ConstantsAssumption DEF Init, Query, MAX_QUERY_PRIORITY
  <2>1. QueryTypes
    BY DEF QueryTypes
  <2>2. FlagTypes
    BY DEF FlagTypes
  <2>3. ThreadTypes
    BY DEF ThreadTypes
  <2>4. GameTypes
    BY DEF GameTypes
  <2>5. PollTypes
    BY DEF PollTypes
  <2>6. stop_threads \in BOOLEAN
    BY Zenon
  <2>7. QED
    BY <2>1, <2>2, <2>3, <2>4, <2>5, <2>6 DEF TypeOK
<1>2. TypeOK /\ [Next]_vars => TypeOK'
  <2> SUFFICES ASSUME TypeOK, [Next]_vars
               PROVE  TypeOK'
    OBVIOUS
  <2>1. CASE Next
    <3>1. QueryTypes' /\ FlagTypes' /\ ThreadTypes' /\ GameTypes' /\ PollTypes'
      BY <2>1, QueryTypesStep, FlagTypesStep, ThreadTypesStep, GameTypesStep,
         PollTypesStep DEF TypeOK
    <3>2. stop_threads' \in BOOLEAN
      BY <2>1, StopFlagStep DEF TypeOK
    <3>3. QED
      BY <3>1, <3>2 DEF TypeOK
  <2>2. CASE UNCHANGED vars
    BY <2>2 DEF vars, memory, flags, links, counts, history, game, poll, fields,
       TypeOK, QueryTypes, FlagTypes, ThreadTypes, GameTypes, PollTypes
  <2>3. QED
    BY <2>1, <2>2
<1>3. QED
  BY <1>1, <1>2, PTL DEF Spec

(* Every step of a native called by a plugin keeps what is known of a query r. *)
LEMMA NativesKeeps ==
  ASSUME QueryTypes, FlagTypes, ThreadTypes, GameTypes, PollTypes, IInv,
         NEW r \in Query, Natives
  PROVE  QueryInv(r)'
<1>1. FirstMap /\ QueryInv(r)
  BY DEF IInv
<1> USE <1>1, ConstantsAssumption DEF Query, QUERY_RETRY_COUNT, memory, flags,
       links, counts, history, game, poll, fields, QueryTypes, FlagTypes,
       ThreadTypes, GameTypes, PollTypes, Goto, Visiting, IsFirst,
       Touching, InFrameForward, QueryInv, CreatedFacts, PollerFacts,
       DecideFacts, FlagFacts, StartFacts, RunFacts, ReturnFacts, FrameFacts,
       ThreadFacts
<1>2. CASE AddConnect
  BY <1>2 DEF AddConnect
<1>3. CASE PushQuery
  <2>1. CASE r = nums + 1
    <3>1. /\ r \notin m_queries \cup deleted \cup async \cup started \cup aborted
          /\ r \notin finished \cup successful \cup m_threads \cup finished_threads
      BY <2>1
    <3>2. CreatedFacts(r)'
      <4>1. /\ r <= nums' /\ deleted' = deleted /\ m_threads' = m_threads
            /\ finished_threads' = finished_threads
            /\ finished' = finished /\ aborted' = aborted
        BY <1>3, <2>1 DEF PushQuery, PrepareQuery, InPlugin, ThreadsMutexFree
      <4>2. /\ m_queries' = m_queries \cup {r}
            /\ r \in async' /\ handles' = handles
            /\ gpc' = gpc /\ gpc \notin {"stop_frames", "stop_mark", "stop_clear"}
        BY <1>3, <2>1 DEF PushQuery, PrepareQuery, InPlugin, ThreadsMutexFree
      <4>3. QED
        BY <3>1, <4>1, <4>2
    <3>3. PollerFacts(r)'
      BY <1>3, <2>1, <3>1 DEF PushQuery, PrepareQuery, InPlugin, ThreadsMutexFree
    <3>4. DecideFacts(r)'
      BY <1>3, <2>1, <3>1 DEF PushQuery, PrepareQuery, InPlugin, ThreadsMutexFree
    <3>5. FlagFacts(r)' /\ StartFacts(r)' /\ RunFacts(r)'
      BY <1>3, <2>1, <3>1 DEF PushQuery, PrepareQuery, InPlugin, ThreadsMutexFree
    <3>6. ReturnFacts(r)' /\ FrameFacts(r)' /\ ThreadFacts(r)'
      BY <1>3, <2>1, <3>1 DEF PushQuery, PrepareQuery, InPlugin, ThreadsMutexFree
    <3>7. QED
      BY <3>2, <3>3, <3>4, <3>5, <3>6
  <2>2. CASE r # nums + 1
    <3>1. CreatedFacts(r)'
      <4>1. r \in m_queries' \/ r \in deleted' \/ r \in async' \/ r \in started'
            \/ r \in aborted' \/ r \in finished' \/ r \in successful' => r <= nums'
        BY <1>3, <2>2 DEF PushQuery, PrepareQuery, InPlugin, ThreadsMutexFree
      <4>2. QED
        BY <1>3, <2>2, <4>1 DEF PushQuery, PrepareQuery, InPlugin, ThreadsMutexFree
    <3>2. PollerFacts(r)'
      BY <1>3, <2>2 DEF PushQuery, PrepareQuery, InPlugin, ThreadsMutexFree
    <3>3. DecideFacts(r)'
      BY <1>3, <2>2 DEF PushQuery, PrepareQuery, InPlugin, ThreadsMutexFree
    <3>4. FlagFacts(r)'
      BY <1>3, <2>2 DEF PushQuery, PrepareQuery, InPlugin, ThreadsMutexFree
    <3>5. StartFacts(r)'
      BY <1>3, <2>2 DEF PushQuery, PrepareQuery, InPlugin, ThreadsMutexFree
    <3>6. RunFacts(r)'
      BY <1>3, <2>2 DEF PushQuery, PrepareQuery, InPlugin, ThreadsMutexFree
    <3>7. ReturnFacts(r)'
      BY <1>3, <2>2 DEF PushQuery, PrepareQuery, InPlugin, ThreadsMutexFree
    <3>8. FrameFacts(r)'
      BY <1>3, <2>2 DEF PushQuery, PrepareQuery, InPlugin, ThreadsMutexFree
    <3>9. ThreadFacts(r)'
      BY <1>3, <2>2 DEF PushQuery, PrepareQuery, InPlugin, ThreadsMutexFree
    <3>10. QED
      BY <3>1, <3>2, <3>3, <3>4, <3>5, <3>6, <3>7,
         <3>8, <3>9
  <2>3. QED
    BY <2>1, <2>2
<1>4. CASE PrepareSync
  <2>1. CASE r = nums + 1
    <3>1. /\ r \notin m_queries \cup deleted \cup async \cup started \cup aborted
          /\ r \notin finished \cup successful \cup m_threads \cup finished_threads
      BY <2>1
    <3>2. CreatedFacts(r)'
      <4>1. /\ r <= nums' /\ deleted' = deleted /\ m_threads' = m_threads
            /\ finished_threads' = finished_threads
            /\ finished' = finished /\ aborted' = aborted
        BY <1>4, <2>1 DEF PrepareSync, PrepareQuery, InPlugin, ThreadsMutexFree
      <4>2. /\ m_queries' = m_queries \cup {r}
            /\ async' = async
            /\ gpc' = gpc /\ gpc \notin {"stop_frames", "stop_mark", "stop_clear"}
        BY <1>4, <2>1 DEF PrepareSync, PrepareQuery, InPlugin, ThreadsMutexFree
      <4>3. QED
        BY <3>1, <4>1, <4>2
    <3>3. PollerFacts(r)'
      BY <1>4, <2>1, <3>1 DEF PrepareSync, PrepareQuery, InPlugin, ThreadsMutexFree
    <3>4. DecideFacts(r)'
      BY <1>4, <2>1, <3>1 DEF PrepareSync, PrepareQuery, InPlugin, ThreadsMutexFree
    <3>5. FlagFacts(r)' /\ StartFacts(r)' /\ RunFacts(r)'
      BY <1>4, <2>1, <3>1 DEF PrepareSync, PrepareQuery, InPlugin, ThreadsMutexFree
    <3>6. ReturnFacts(r)' /\ FrameFacts(r)' /\ ThreadFacts(r)'
      BY <1>4, <2>1, <3>1 DEF PrepareSync, PrepareQuery, InPlugin, ThreadsMutexFree
    <3>7. QED
      BY <3>2, <3>3, <3>4, <3>5, <3>6
  <2>2. CASE r # nums + 1
    <3>1. CreatedFacts(r)'
      <4>1. r \in m_queries' \/ r \in deleted' \/ r \in async' \/ r \in started'
            \/ r \in aborted' \/ r \in finished' \/ r \in successful' => r <= nums'
        BY <1>4, <2>2 DEF PrepareSync, PrepareQuery, InPlugin, ThreadsMutexFree
      <4>2. QED
        BY <1>4, <2>2, <4>1 DEF PrepareSync, PrepareQuery, InPlugin, ThreadsMutexFree
    <3>2. PollerFacts(r)'
      BY <1>4, <2>2 DEF PrepareSync, PrepareQuery, InPlugin, ThreadsMutexFree
    <3>3. DecideFacts(r)'
      BY <1>4, <2>2 DEF PrepareSync, PrepareQuery, InPlugin, ThreadsMutexFree
    <3>4. FlagFacts(r)'
      BY <1>4, <2>2 DEF PrepareSync, PrepareQuery, InPlugin, ThreadsMutexFree
    <3>5. StartFacts(r)'
      BY <1>4, <2>2 DEF PrepareSync, PrepareQuery, InPlugin, ThreadsMutexFree
    <3>6. RunFacts(r)'
      BY <1>4, <2>2 DEF PrepareSync, PrepareQuery, InPlugin, ThreadsMutexFree
    <3>7. ReturnFacts(r)'
      BY <1>4, <2>2 DEF PrepareSync, PrepareQuery, InPlugin, ThreadsMutexFree
    <3>8. FrameFacts(r)'
      BY <1>4, <2>2 DEF PrepareSync, PrepareQuery, InPlugin, ThreadsMutexFree
    <3>9. ThreadFacts(r)'
      BY <1>4, <2>2 DEF PrepareSync, PrepareQuery, InPlugin, ThreadsMutexFree
    <3>10. QED
      BY <3>1, <3>2, <3>3, <3>4, <3>5, <3>6, <3>7,
         <3>8, <3>9
  <2>3. QED
    BY <2>1, <2>2
<1>5. CASE FreeInCallback
  BY <1>5 DEF FreeInCallback
<1>6. ASSUME NEW q \in Query, ExecQuery(q)
      PROVE  QueryInv(r)'
  <2>1. QueryInv(q)
    BY DEF IInv
  <2>2. CASE r = q
    BY <1>6, <2>1, <2>2 DEF ExecQuery, InPlugin
  <2>3. CASE r # q
    <3>1. CreatedFacts(r)'
      BY <1>6, <2>1, <2>3 DEF ExecQuery, InPlugin
    <3>2. PollerFacts(r)'
      BY <1>6, <2>1, <2>3 DEF ExecQuery, InPlugin
    <3>3. DecideFacts(r)'
      BY <1>6, <2>1, <2>3 DEF ExecQuery, InPlugin
    <3>4. FlagFacts(r)'
      BY <1>6, <2>1, <2>3 DEF ExecQuery, InPlugin
    <3>5. StartFacts(r)'
      BY <1>6, <2>1, <2>3 DEF ExecQuery, InPlugin
    <3>6. RunFacts(r)'
      BY <1>6, <2>1, <2>3 DEF ExecQuery, InPlugin
    <3>7. ReturnFacts(r)'
      BY <1>6, <2>1, <2>3 DEF ExecQuery, InPlugin
    <3>8. FrameFacts(r)'
      BY <1>6, <2>1, <2>3 DEF ExecQuery, InPlugin
    <3>9. ThreadFacts(r)'
      BY <1>6, <2>1, <2>3 DEF ExecQuery, InPlugin
    <3>10. QED
      BY <3>1, <3>2, <3>3, <3>4, <3>5, <3>6, <3>7,
         <3>8, <3>9
  <2>4. QED
    BY <2>2, <2>3
<1>7. ASSUME NEW q \in Query, FreeSync(q)
      PROVE  QueryInv(r)'
  <2>1. QueryInv(q)
    BY DEF IInv
  <2>2. CASE r = q
    BY <1>7, <2>1, <2>2 DEF FreeSync, InPlugin
  <2>3. CASE r # q
    <3>1. CreatedFacts(r)'
      BY <1>7, <2>1, <2>3 DEF FreeSync, InPlugin
    <3>2. PollerFacts(r)'
      BY <1>7, <2>1, <2>3 DEF FreeSync, InPlugin
    <3>3. DecideFacts(r)'
      BY <1>7, <2>1, <2>3 DEF FreeSync, InPlugin
    <3>4. FlagFacts(r)'
      BY <1>7, <2>1, <2>3 DEF FreeSync, InPlugin
    <3>5. StartFacts(r)'
      BY <1>7, <2>1, <2>3 DEF FreeSync, InPlugin
    <3>6. RunFacts(r)'
      BY <1>7, <2>1, <2>3 DEF FreeSync, InPlugin
    <3>7. ReturnFacts(r)'
      BY <1>7, <2>1, <2>3 DEF FreeSync, InPlugin
    <3>8. FrameFacts(r)'
      BY <1>7, <2>1, <2>3 DEF FreeSync, InPlugin
    <3>9. ThreadFacts(r)'
      BY <1>7, <2>1, <2>3 DEF FreeSync, InPlugin
    <3>10. QED
      BY <3>1, <3>2, <3>3, <3>4, <3>5, <3>6, <3>7,
         <3>8, <3>9
  <2>4. QED
    BY <2>2, <2>3
<1>8. QED
  BY <1>2, <1>3, <1>4, <1>5, <1>6, <1>7 DEF Natives

(* Every step of frame_forward() keeps what is known of a query r. *)
LEMMA FrameForwardKeeps ==
  ASSUME QueryTypes, FlagTypes, ThreadTypes, GameTypes, PollTypes, IInv,
         NEW r \in Query, FrameForward
  PROVE  QueryInv(r)'
<1>1. FirstMap /\ QueryInv(r)
  BY DEF IInv
<1> USE <1>1, ConstantsAssumption DEF Query, QUERY_RETRY_COUNT, memory, flags,
       links, counts, history, game, poll, fields, QueryTypes, FlagTypes,
       ThreadTypes, GameTypes, PollTypes, Goto, Visiting, IsFirst,
       Touching, InFrameForward, QueryInv, CreatedFacts, PollerFacts,
       DecideFacts, FlagFacts, StartFacts, RunFacts, ReturnFacts, FrameFacts,
       ThreadFacts
<1>2. CASE GetFrameQuery
  <2>1. CreatedFacts(r)'
    BY <1>2 DEF GetFrameQuery, FrameMutexFree
  <2>2. PollerFacts(r)'
    BY <1>2 DEF GetFrameQuery, FrameMutexFree
  <2>3. DecideFacts(r)'
    BY <1>2 DEF GetFrameQuery, FrameMutexFree
  <2>4. FlagFacts(r)'
    BY <1>2 DEF GetFrameQuery, FrameMutexFree
  <2>5. StartFacts(r)'
    BY <1>2 DEF GetFrameQuery, FrameMutexFree
  <2>6. RunFacts(r)'
    BY <1>2 DEF GetFrameQuery, FrameMutexFree
  <2>7. ReturnFacts(r)'
    BY <1>2 DEF GetFrameQuery, FrameMutexFree
  <2>8. FrameFacts(r)'
    BY <1>2 DEF GetFrameQuery, FrameMutexFree
  <2>9. ThreadFacts(r)'
    BY <1>2 DEF GetFrameQuery, FrameMutexFree
  <2>10. QED
    BY <2>1, <2>2, <2>3, <2>4, <2>5, <2>6, <2>7,
       <2>8, <2>9
<1>3. CASE ForwardAbort
  BY <1>3 DEF ForwardAbort
<1>4. CASE ForwardExec
  BY <1>4 DEF ForwardExec
<1>5. CASE ForwardHeapLow
  BY <1>5 DEF ForwardHeapLow
<1>6. CASE CallbackReturn
  BY <1>6 DEF CallbackReturn
<1>7. CASE FinishFrame
  BY <1>7 DEF FinishFrame
<1>8. CASE CountFrame
  BY <1>8 DEF CountFrame
<1>9. QED
  BY <1>2, <1>3, <1>4, <1>5, <1>6, <1>7, <1>8 DEF FrameForward

(* Every step of stop() keeps what is known of a query r. *)
LEMMA StopKeeps ==
  ASSUME QueryTypes, FlagTypes, ThreadTypes, GameTypes, PollTypes, IInv,
         NEW r \in Query, Stop
  PROVE  QueryInv(r)'
<1>1. FirstMap /\ QueryInv(r)
  BY DEF IInv
<1> USE <1>1, ConstantsAssumption DEF Query, QUERY_RETRY_COUNT, memory, flags,
       links, counts, history, game, poll, fields, QueryTypes, FlagTypes,
       ThreadTypes, GameTypes, PollTypes, Goto, Visiting, IsFirst,
       Touching, InFrameForward, QueryInv, CreatedFacts, PollerFacts,
       DecideFacts, FlagFacts, StartFacts, RunFacts, ReturnFacts, FrameFacts,
       ThreadFacts
<1>2. CASE StopBegin
  BY <1>2 DEF StopBegin
<1>3. CASE StopFrames
  BY <1>3 DEF StopFrames, FrameMutexFree
<1>4. CASE StopMark
  BY <1>4 DEF StopMark, ThreadsMutexFree
<1>5. CASE StopClear
  BY <1>5 DEF StopClear
<1>6. QED
  BY <1>2, <1>3, <1>4, <1>5 DEF Stop

(* Every step of run_query() keeps what is known of a query r. *)
LEMMA RunQueryKeeps ==
  ASSUME QueryTypes, FlagTypes, ThreadTypes, GameTypes, PollTypes, IInv,
         NEW r \in Query, NEW q \in Query, RunQuery(q)
  PROVE  QueryInv(r)'
<1>1. FirstMap /\ QueryInv(r) /\ QueryInv(q)
  BY DEF IInv
<1> USE <1>1, ConstantsAssumption DEF Query, QUERY_RETRY_COUNT, memory, flags,
       links, counts, history, game, poll, fields, QueryTypes, FlagTypes,
       ThreadTypes, GameTypes, PollTypes, Goto, Visiting, IsFirst,
       Touching, InFrameForward, QueryInv, CreatedFacts, PollerFacts,
       DecideFacts, FlagFacts, StartFacts, RunFacts, ReturnFacts, FrameFacts,
       ThreadFacts
<1>2. CASE RunBegin(q)
  <2>1. CASE r = q
    BY <1>2, <2>1 DEF RunBegin
  <2>2. CASE r # q
    BY <1>2, <2>2 DEF RunBegin
  <2>3. QED
    BY <2>1, <2>2
<1>3. CASE RunConnect(q)
  <2>1. CASE r = q
    BY <1>3, <2>1 DEF RunConnect
  <2>2. CASE r # q
    BY <1>3, <2>2 DEF RunConnect
  <2>3. QED
    BY <2>1, <2>2
<1>4. CASE RunTuple(q)
  <2>1. CASE r = q
    <3>1. CreatedFacts(r)'
      BY <1>4, <2>1 DEF RunTuple
    <3>2. PollerFacts(r)'
      BY <1>4, <2>1 DEF RunTuple
    <3>3. DecideFacts(r)'
      BY <1>4, <2>1 DEF RunTuple
    <3>4. FlagFacts(r)'
      BY <1>4, <2>1 DEF RunTuple
    <3>5. StartFacts(r)'
      BY <1>4, <2>1 DEF RunTuple
    <3>6. RunFacts(r)'
      BY <1>4, <2>1 DEF RunTuple
    <3>7. ReturnFacts(r)'
      BY <1>4, <2>1 DEF RunTuple
    <3>8. FrameFacts(r)'
      BY <1>4, <2>1 DEF RunTuple
    <3>9. ThreadFacts(r)'
      BY <1>4, <2>1 DEF RunTuple
    <3>10. QED
      BY <3>1, <3>2, <3>3, <3>4, <3>5, <3>6, <3>7, <3>8, <3>9 DEF QueryInv
  <2>2. CASE r # q
    <3>1. CreatedFacts(r)'
      BY <1>4, <2>2 DEF RunTuple
    <3>2. PollerFacts(r)'
      BY <1>4, <2>2 DEF RunTuple
    <3>3. DecideFacts(r)'
      BY <1>4, <2>2 DEF RunTuple
    <3>4. FlagFacts(r)'
      BY <1>4, <2>2 DEF RunTuple
    <3>5. StartFacts(r)'
      BY <1>4, <2>2 DEF RunTuple
    <3>6. RunFacts(r)'
      BY <1>4, <2>2 DEF RunTuple
    <3>7. ReturnFacts(r)'
      BY <1>4, <2>2 DEF RunTuple
    <3>8. FrameFacts(r)'
      BY <1>4, <2>2 DEF RunTuple
    <3>9. ThreadFacts(r)'
      BY <1>4, <2>2 DEF RunTuple
    <3>10. QED
      BY <3>1, <3>2, <3>3, <3>4, <3>5, <3>6, <3>7,
         <3>8, <3>9
  <2>3. QED
    BY <2>1, <2>2
<1>5. CASE RunExec(q)
  <2>1. CASE r = q
    BY <1>5, <2>1 DEF RunExec
  <2>2. CASE r # q
    <3>1. CreatedFacts(r)'
      BY <1>5, <2>2 DEF RunExec
    <3>2. PollerFacts(r)'
      BY <1>5, <2>2 DEF RunExec
    <3>3. DecideFacts(r)'
      BY <1>5, <2>2 DEF RunExec
    <3>4. FlagFacts(r)'
      BY <1>5, <2>2 DEF RunExec
    <3>5. StartFacts(r)'
      BY <1>5, <2>2 DEF RunExec
    <3>6. RunFacts(r)'
      BY <1>5, <2>2 DEF RunExec
    <3>7. ReturnFacts(r)'
      BY <1>5, <2>2 DEF RunExec
    <3>8. FrameFacts(r)'
      BY <1>5, <2>2 DEF RunExec
    <3>9. ThreadFacts(r)'
      BY <1>5, <2>2 DEF RunExec
    <3>10. QED
      BY <3>1, <3>2, <3>3, <3>4, <3>5, <3>6, <3>7,
         <3>8, <3>9
  <2>3. QED
    BY <2>1, <2>2
<1>6. CASE RunCheck(q)
  BY <1>6 DEF RunCheck
<1>7. CASE RunFrame(q)
  BY <1>7 DEF RunFrame, FrameMutexFree
<1>8. CASE RunPush(q)
  <2>1. CASE r = q
    BY <1>8, <2>1 DEF RunPush
  <2>2. CASE r # q
    BY <1>8, <2>2 DEF RunPush
  <2>3. QED
    BY <2>1, <2>2
<1>9. CASE RunFinish(q)
  <2>1. CASE r = q
    BY <1>9, <2>1 DEF RunFinish
  <2>2. CASE r # q
    <3>1. CreatedFacts(r)'
      BY <1>9, <2>2 DEF RunFinish
    <3>2. PollerFacts(r)'
      BY <1>9, <2>2 DEF RunFinish
    <3>3. DecideFacts(r)'
      BY <1>9, <2>2 DEF RunFinish
    <3>4. FlagFacts(r)'
      BY <1>9, <2>2 DEF RunFinish
    <3>5. StartFacts(r)'
      BY <1>9, <2>2 DEF RunFinish
    <3>6. RunFacts(r)'
      BY <1>9, <2>2 DEF RunFinish
    <3>7. ReturnFacts(r)'
      BY <1>9, <2>2 DEF RunFinish
    <3>8. FrameFacts(r)'
      BY <1>9, <2>2 DEF RunFinish
    <3>9. ThreadFacts(r)'
      BY <1>9, <2>2 DEF RunFinish
    <3>10. QED
      BY <3>1, <3>2, <3>3, <3>4, <3>5, <3>6, <3>7, <3>8, <3>9 DEF QueryInv
  <2>3. QED
    BY <2>1, <2>2
<1>10. CASE RunCount(q)
  <2>1. CASE r = q
    BY <1>10, <2>1 DEF RunCount
  <2>2. CASE r # q
    BY <1>10, <2>2 DEF RunCount
  <2>3. QED
    BY <2>1, <2>2
<1>11. QED
  BY <1>2, <1>3, <1>4, <1>5, <1>6, <1>7, <1>8, <1>9, <1>10 DEF RunQuery

(* Every step of poll_query() keeps what is known of a query r. *)
LEMMA PollQueryKeeps ==
  ASSUME QueryTypes, FlagTypes, ThreadTypes, GameTypes, PollTypes, IInv,
         NEW r \in Query, PollQuery
  PROVE  QueryInv(r)'
<1>1. FirstMap /\ QueryInv(r)
  BY DEF IInv
<1> USE <1>1, ConstantsAssumption DEF Query, QUERY_RETRY_COUNT, memory, flags,
       links, counts, history, game, poll, fields, QueryTypes, FlagTypes,
       ThreadTypes, GameTypes, PollTypes, Goto, Visiting, IsFirst,
       Touching, InFrameForward, QueryInv, CreatedFacts, PollerFacts,
       DecideFacts, FlagFacts, StartFacts, RunFacts, ReturnFacts, FrameFacts,
       ThreadFacts
<1>2. CASE PollBegin
  BY <1>2 DEF PollBegin
<1>3. CASE PollDecide
  <2>1. CASE r = pq
    <3>1. CreatedFacts(r)'
      BY <1>3, <2>1 DEF PollDecide, MayRetry, Releasable
    <3>2. PollerFacts(r)'
      BY <1>3, <2>1 DEF PollDecide, MayRetry, Releasable
    <3>3. DecideFacts(r)'
      BY <1>3, <2>1 DEF PollDecide, MayRetry, Releasable
    <3>4. FlagFacts(r)'
      <4>1. CASE MayRetry(pq)
        <5>1. retry_count'[pq] = retry_count[pq] + 1 /\ pq \in finished
          BY <1>3, <2>1, <4>1 DEF PollDecide, MayRetry, Releasable
        <5>2. CASE retry_count'[pq] < QUERY_RETRY_COUNT
          BY <1>3, <2>1, <4>1, <5>1, <5>2 DEF PollDecide, MayRetry, Releasable
        <5>3. CASE ~(retry_count'[pq] < QUERY_RETRY_COUNT)
          BY <1>3, <2>1, <4>1, <5>1, <5>3 DEF PollDecide, MayRetry, Releasable
        <5>4. QED
          BY <5>2, <5>3
      <4>2. CASE ~MayRetry(pq)
        <5>1. UNCHANGED <<retry_count, started, finished>>
          BY <1>3, <2>1, <4>2 DEF PollDecide
        <5>2. QED
          BY <1>3, <2>1, <5>1 DEF PollDecide
      <4>3. QED
        BY <4>1, <4>2
    <3>5. StartFacts(r)'
      BY <1>3, <2>1 DEF PollDecide, MayRetry, Releasable
    <3>6. RunFacts(r)'
      BY <1>3, <2>1 DEF PollDecide, MayRetry, Releasable
    <3>7. ReturnFacts(r)'
      BY <1>3, <2>1 DEF PollDecide, MayRetry, Releasable
    <3>8. FrameFacts(r)'
      BY <1>3, <2>1 DEF PollDecide, MayRetry, Releasable
    <3>9. ThreadFacts(r)'
      BY <1>3, <2>1 DEF PollDecide, MayRetry, Releasable
    <3>10. QED
      BY <3>1, <3>2, <3>3, <3>4, <3>5, <3>6, <3>7,
         <3>8, <3>9
  <2>2. CASE r # pq
    <3>1. CreatedFacts(r)'
      BY <1>3, <2>2 DEF PollDecide, MayRetry, Releasable
    <3>2. PollerFacts(r)'
      BY <1>3, <2>2 DEF PollDecide, MayRetry, Releasable
    <3>3. DecideFacts(r)'
      BY <1>3, <2>2 DEF PollDecide, MayRetry, Releasable
    <3>4. FlagFacts(r)'
      BY <1>3, <2>2 DEF PollDecide, MayRetry, Releasable
    <3>5. StartFacts(r)'
      BY <1>3, <2>2 DEF PollDecide, MayRetry, Releasable
    <3>6. RunFacts(r)'
      BY <1>3, <2>2 DEF PollDecide, MayRetry, Releasable
    <3>7. ReturnFacts(r)'
      BY <1>3, <2>2 DEF PollDecide, MayRetry, Releasable
    <3>8. FrameFacts(r)'
      BY <1>3, <2>2 DEF PollDecide, MayRetry, Releasable
    <3>9. ThreadFacts(r)'
      BY <1>3, <2>2 DEF PollDecide, MayRetry, Releasable
    <3>10. QED
      BY <3>1, <3>2, <3>3, <3>4, <3>5, <3>6, <3>7,
         <3>8, <3>9
  <2>3. QED
    BY <2>1, <2>2
<1>4. CASE PollUnlock
  BY <1>4 DEF PollUnlock
<1>5. CASE PollEnd
  BY <1>5 DEF PollEnd
<1>6. ASSUME NEW q \in Query, VisitOver(q)
      PROVE  QueryInv(r)'
  <2>1. QueryInv(q)
    BY DEF IInv
  <2>2. CASE r = q
    BY <1>6, <2>1, <2>2 DEF VisitOver, CollectThread
  <2>3. CASE r # q
    BY <1>6, <2>1, <2>3 DEF VisitOver, CollectThread
  <2>4. QED
    BY <2>2, <2>3
<1>7. ASSUME NEW q \in Query, VisitStart(q)
      PROVE  QueryInv(r)'
  <2>1. QueryInv(q)
    BY DEF IInv
  <2>2. CASE r = q
    <3>1. CreatedFacts(r)'
      BY <1>7, <2>1, <2>2 DEF VisitStart, CanStart
    <3>2. PollerFacts(r)'
      BY <1>7, <2>1, <2>2 DEF VisitStart, CanStart
    <3>3. DecideFacts(r)'
      BY <1>7, <2>1, <2>2 DEF VisitStart, CanStart
    <3>4. FlagFacts(r)'
      BY <1>7, <2>1, <2>2 DEF VisitStart, CanStart
    <3>5. StartFacts(r)'
      <4>1. q \notin finished_threads /\ q \notin finished /\ q \notin started
        BY <1>7, <2>1, <2>2 DEF VisitStart, CanStart
      <4>2. q \in async /\ q \notin aborted /\ q \notin successful
        BY <1>7, <2>1, <2>2, <4>1 DEF VisitStart, CanStart
      <4>3. wpc[q] \notin Touching /\ wpc[q] # "count" /\ wpc[q] # "exit"
        BY <1>7, <2>1, <2>2, <4>1, <4>2 DEF VisitStart, CanStart
      <4>4. wpc[q] = "none"
        BY <4>3
      <4>5. q \notin m_threads
        BY <1>7, <2>1, <2>2, <4>1, <4>2 DEF VisitStart, CanStart
      <4>6. QED
        BY <1>7, <2>1, <2>2, <4>1, <4>2, <4>4, <4>5 DEF VisitStart, CanStart
    <3>6. RunFacts(r)'
      BY <1>7, <2>1, <2>2 DEF VisitStart, CanStart
    <3>7. ReturnFacts(r)'
      BY <1>7, <2>1, <2>2 DEF VisitStart, CanStart
    <3>8. FrameFacts(r)'
      BY <1>7, <2>1, <2>2 DEF VisitStart, CanStart
    <3>9. ThreadFacts(r)'
      BY <1>7, <2>1, <2>2 DEF VisitStart, CanStart
    <3>10. QED
      BY <3>1, <3>2, <3>3, <3>4, <3>5, <3>6, <3>7,
         <3>8, <3>9
  <2>3. CASE r # q
    BY <1>7, <2>1, <2>3 DEF VisitStart, CanStart
  <2>4. QED
    BY <2>2, <2>3
<1>8. ASSUME NEW q \in Query, VisitSkip(q)
      PROVE  QueryInv(r)'
  <2>1. QueryInv(q)
    BY DEF IInv
  <2>2. QED
    BY <1>8, <2>1 DEF VisitSkip
<1>9. ASSUME NEW q \in Query, SpawnThread(q)
      PROVE  QueryInv(r)'
  <2>1. QueryInv(q)
    BY DEF IInv
  <2>2. QED
    BY <1>9, <2>1 DEF SpawnThread, Spawning
<1>10. ASSUME NEW q \in Query, SpawnFails(q)
      PROVE  QueryInv(r)'
  <2>1. QueryInv(q)
    BY DEF IInv
  <2>2. QED
    BY <1>10, <2>1 DEF SpawnFails, Spawning
<1>11. ASSUME NEW q \in Query, CleanQuery(q)
      PROVE  QueryInv(r)'
  <2>1. QueryInv(q)
    BY DEF IInv
  <2>2. QED
    BY <1>11, <2>1 DEF CleanQuery
<1>12. ASSUME NEW q \in Query, JoinThread(q)
      PROVE  QueryInv(r)'
  <2>1. QueryInv(q)
    BY DEF IInv
  <2>2. QED
    BY <1>12, <2>1 DEF JoinThread
<1>13. QED
  BY <1>2, <1>3, <1>4, <1>5, <1>6, <1>7, <1>8, <1>9, <1>10, <1>11, <1>12 DEF PollQuery

(* Until the first stop() nothing is aborted. *)
LEMMA FirstMapStep ==
  ASSUME GameTypes, FirstMap, Next
  PROVE  FirstMap'
<1> USE DEF FirstMap, flags, game, poll, GameTypes
<1>1. CASE Natives
  BY <1>1 DEF Natives, AddConnect, PushQuery, PrepareSync, FreeInCallback,
      ExecQuery, FreeSync, PrepareQuery
<1>2. CASE FrameForward
  BY <1>2 DEF FrameForward, GetFrameQuery, ForwardAbort, ForwardExec,
      ForwardHeapLow, CallbackReturn, FinishFrame, CountFrame
<1>3. CASE Stop
  BY <1>3 DEF Stop, StopBegin, StopFrames, StopMark, StopClear
<1>4. ASSUME NEW q \in Query, RunQuery(q)
      PROVE  FirstMap'
  BY <1>4 DEF RunQuery, RunBegin, RunConnect, RunTuple, RunExec, RunCheck,
      RunFrame, RunPush, RunFinish, RunCount
<1>5. CASE PollQuery
  BY <1>5 DEF PollQuery, PollBegin, PollDecide, PollUnlock, PollEnd,
      VisitOver, VisitStart, VisitSkip, SpawnThread, SpawnFails, CleanQuery,
      JoinThread
<1>6. QED
  BY <1>1, <1>2, <1>3, <1>4, <1>5 DEF Next

(* The inductive invariant holds in every state, across any number of map  *)
(* changes.                                                                *)
THEOREM Inductive == Spec => []IInv
<1>1. Init => IInv
  <2> SUFFICES ASSUME Init PROVE IInv
    OBVIOUS
  <2>1. FirstMap
    BY DEF Init, FirstMap
  <2>2. ASSUME NEW q \in Query PROVE QueryInv(q)
    BY <2>2 DEF Init, QueryInv, CreatedFacts, PollerFacts, DecideFacts,
       FlagFacts, StartFacts, RunFacts, ReturnFacts, FrameFacts, ThreadFacts,
       InFrameForward, Touching, QUERY_RETRY_COUNT
  <2>3. QED
    BY <2>1, <2>2 DEF IInv
<1>2. TypeOK /\ IInv /\ [Next]_vars => IInv'
  <2> SUFFICES ASSUME TypeOK, IInv, [Next]_vars
               PROVE  IInv'
    OBVIOUS
  <2>1. CASE Next
    <3>1. ASSUME NEW r \in Query PROVE QueryInv(r)'
      BY <2>1, NativesKeeps, FrameForwardKeeps, StopKeeps, RunQueryKeeps,
         PollQueryKeeps DEF TypeOK, Next
    <3>2. FirstMap'
      BY <2>1, FirstMapStep DEF TypeOK, IInv
    <3>3. QED
      BY <3>1, <3>2 DEF IInv
  <2>2. CASE UNCHANGED vars
    <3>1. FirstMap'
      BY <2>2 DEF IInv, FirstMap, vars, flags, game
    <3>2. ASSUME NEW r \in Query PROVE QueryInv(r)'
      <4>1. QueryInv(r)
        BY DEF IInv
      <4>2. QED
        BY <4>1, <2>2 DEF vars, memory, flags, links, counts, history, game,
           poll, fields, QueryInv, CreatedFacts, PollerFacts, DecideFacts,
           FlagFacts, StartFacts, RunFacts, ReturnFacts, FrameFacts,
           ThreadFacts, InFrameForward
    <3>3. QED
      BY <3>1, <3>2 DEF IInv
  <2>3. QED
    BY <2>1, <2>2
<1>3. QED
  BY <1>1, <1>2, TypeCorrect, PTL DEF Spec

(* The cleaner of poll_query never deletes a query that a worker, a frame  *)
(* or the game thread still uses, unless stop() aborted it.                *)
THEOREM Forgotten == Spec => []DeletedIsForgotten
<1>1. TypeOK /\ IInv => DeletedIsForgotten
  <2> SUFFICES ASSUME IInv, TypeOK, NEW q \in deleted \ aborted
               PROVE  /\ wpc[q] \notin Touching
                      /\ q \notin m_frames
                      /\ ~(q = cur /\ gpc \in {"popped", "callback", "finish"})
                      /\ q \notin m_threads
    BY DEF DeletedIsForgotten
  <2>1. QueryInv(q)
    BY DEF IInv, TypeOK, QueryTypes
  <2>2. wpc[q] \notin Touching
    BY <2>1 DEF QueryInv, CreatedFacts, RunFacts
  <2>3. q \notin m_frames /\ ~(InFrameForward(q) /\ gpc # "count")
    BY <2>1 DEF QueryInv, CreatedFacts, FrameFacts
  <2>4. q \notin m_threads
    BY <2>1 DEF QueryInv, PollerFacts
  <2>5. QED
    BY <2>2, <2>3, <2>4 DEF InFrameForward
<1>2. QED
  BY <1>1, TypeCorrect, Inductive, PTL

(* A query that the poller is about to start has no other worker, has not  *)
(* succeeded and has a retry left.                                         *)
THEOREM Started == Spec => []StartedOnce
<1>1. TypeOK /\ IInv => StartedOnce
  <2> SUFFICES ASSUME TypeOK, IInv, NEW q \in start_queries
               PROVE  /\ wpc[q] = "none" /\ q \notin successful
                      /\ retry_count[q] < QUERY_RETRY_COUNT
    BY DEF StartedOnce
  <2>1. q \in Query /\ retry_count[q] \in Nat
    BY DEF TypeOK, PollTypes, FlagTypes
  <2>2. QueryInv(q)
    BY <2>1 DEF IInv
  <2>3. QED
    BY <2>1, <2>2 DEF QueryInv, StartFacts, FlagFacts, QUERY_RETRY_COUNT
<1>2. QED
  BY <1>1, TypeCorrect, Inductive, PTL

(* The assertion of poll_query that the collected thread is registered     *)
(* never fails.                                                            *)
THEOREM Registered == Spec => []TidRegistered
<1>1. TypeOK /\ IInv => TidRegistered
  <2> SUFFICES ASSUME TypeOK, IInv, NEW q \in todo, CollectThread(q)
               PROVE  q \in m_threads
    BY DEF TidRegistered
  <2>1. q \in Query
    BY DEF TypeOK, PollTypes
  <2>2. QueryInv(q)
    BY <2>1 DEF IInv
  <2>3. QED
    BY <2>2 DEF QueryInv, PollerFacts, ThreadFacts, CollectThread
<1>2. QED
  BY <1>1, TypeCorrect, Inductive, PTL

(* A sync query that a plugin holds is in the maps, whatever the poller    *)
(* and stop() do.                                                          *)
THEOREM Alive == Spec => []HandleAlive
<1>1. TypeOK /\ IInv => HandleAlive
  <2> SUFFICES ASSUME TypeOK, IInv, NEW q \in handles
               PROVE  q \in m_queries \ deleted
    BY DEF HandleAlive
  <2>1. q \in Query
    BY DEF TypeOK, QueryTypes
  <2>2. QueryInv(q)
    BY <2>1 DEF IInv
  <2>3. QED
    BY <2>2 DEF QueryInv, CreatedFacts
<1>2. QED
  BY <1>1, TypeCorrect, Inductive, PTL

-----------------------------------------------------------------------------
(* A registered thread has a worker, and a worker that has returned left   *)
(* its query finished or framed, or was collected.                         *)
WorkerFacts(q) ==
  /\ q \in m_threads => wpc[q] # "none"
  /\ wpc[q] = "exit" => q \in finished \/ q \in framed \/ q \in finished_threads

(* Every step keeps what is known of the worker of a query r. *)
LEMMA WorkerFactsStep ==
  ASSUME TypeOK, IInv, NEW r \in Query, WorkerFacts(r), Next
  PROVE  WorkerFacts(r)'
<1>1. QueryInv(r)
  BY DEF IInv
<1> USE <1>1 DEF memory, flags, links, counts, history, game, poll, fields,
       TypeOK, ThreadTypes, Goto, Visiting, IsFirst, WorkerFacts, Touching,
       QueryInv, DecideFacts, RunFacts, ReturnFacts, StartFacts, ThreadFacts,
       CreatedFacts
<1>2. CASE Natives
  BY <1>2 DEF Natives, AddConnect, PushQuery, PrepareSync, FreeInCallback,
     ExecQuery, FreeSync, PrepareQuery
<1>3. CASE FrameForward
  BY <1>3 DEF FrameForward, GetFrameQuery, ForwardAbort, ForwardExec,
     ForwardHeapLow, CallbackReturn, FinishFrame, CountFrame
<1>4. CASE Stop
  BY <1>4 DEF Stop, StopBegin, StopFrames, StopMark, StopClear
<1>5. ASSUME NEW q \in Query, RunQuery(q)
      PROVE  WorkerFacts(r)'
  <2>1. CASE RunBegin(q)
    BY <2>1 DEF RunBegin
  <2>2. CASE RunConnect(q)
    BY <2>2 DEF RunConnect
  <2>3. CASE RunTuple(q)
    BY <2>3 DEF RunTuple
  <2>4. CASE RunExec(q)
    BY <2>4 DEF RunExec
  <2>5. CASE RunCheck(q)
    BY <2>5 DEF RunCheck
  <2>6. CASE RunFrame(q)
    BY <2>6 DEF RunFrame
  <2>7. CASE RunPush(q)
    BY <2>7 DEF RunPush
  <2>8. CASE RunFinish(q)
    BY <2>8 DEF RunFinish
  <2>9. CASE RunCount(q)
    BY <2>9 DEF RunCount
  <2>10. QED
    BY <1>5, <2>1, <2>2, <2>3, <2>4, <2>5, <2>6, <2>7, <2>8, <2>9 DEF RunQuery
<1>6. CASE PollQuery
  <2>1. CASE PollBegin \/ PollUnlock \/ PollEnd
    BY <2>1 DEF PollBegin, PollUnlock, PollEnd
  <2>2. CASE PollDecide
    BY <2>2 DEF PollDecide, MayRetry
  <2>3. ASSUME NEW q \in Query, VisitOver(q)
        PROVE  WorkerFacts(r)'
    BY <2>3 DEF VisitOver, CollectThread
  <2>4. ASSUME NEW q \in Query, VisitStart(q)
        PROVE  WorkerFacts(r)'
    BY <2>4 DEF VisitStart, CanStart
  <2>5. ASSUME NEW q \in Query, VisitSkip(q)
        PROVE  WorkerFacts(r)'
    BY <2>5 DEF VisitSkip
  <2>6. ASSUME NEW q \in Query, SpawnThread(q)
        PROVE  WorkerFacts(r)'
    BY <2>6 DEF SpawnThread, Spawning
  <2>7. ASSUME NEW q \in Query, SpawnFails(q)
        PROVE  WorkerFacts(r)'
    BY <2>7 DEF SpawnFails, Spawning
  <2>8. ASSUME NEW q \in Query, CleanQuery(q)
        PROVE  WorkerFacts(r)'
    BY <2>8 DEF CleanQuery
  <2>9. ASSUME NEW q \in Query, JoinThread(q)
        PROVE  WorkerFacts(r)'
    BY <2>9 DEF JoinThread
  <2>10. QED
    BY <1>6, <2>1, <2>2, <2>3, <2>4, <2>5, <2>6, <2>7, <2>8, <2>9 DEF PollQuery
<1>7. QED
  BY <1>2, <1>3, <1>4, <1>5, <1>6 DEF Next

(* No async query is left in the maps for good (l.312-317): it waits to be *)
(* started, is over, or a thread is still going to do something with it,   *)
(* whatever a map change interrupts.                                       *)
THEOREM NeverStranded == Spec => []NotStranded
<1> DEFINE Workers == \A r \in Query : WorkerFacts(r)
<1>1. Init => Workers
  BY DEF Init, WorkerFacts
<1>2. TypeOK /\ IInv /\ Workers /\ [Next]_vars => Workers'
  <2> SUFFICES ASSUME TypeOK, IInv, Workers, [Next]_vars, NEW r \in Query
               PROVE  WorkerFacts(r)'
    BY DEF Query
  <2>1. CASE Next
    BY <2>1, WorkerFactsStep
  <2>2. CASE UNCHANGED vars
    BY <2>2 DEF vars, flags, poll, WorkerFacts
  <2>3. QED
    BY <2>1, <2>2
<1>3. TypeOK /\ IInv /\ Workers => NotStranded
  <2> SUFFICES ASSUME TypeOK, IInv, Workers, NEW q \in m_queries \cap async,
                      q \in started, q \notin finished
               PROVE  InHand(q)
    BY DEF NotStranded, InHand
  <2>1. q \in Query
    BY DEF TypeOK, QueryTypes
  <2>2. QueryInv(q) /\ WorkerFacts(q)
    BY <2>1 DEF IInv
  <2>3. CASE q \in start_queries
    BY <2>3 DEF InHand
  <2>4. CASE q \in finished_threads
    BY <2>2, <2>4 DEF QueryInv, ThreadFacts, DecideFacts, InHand
  <2>5. CASE q \in m_threads /\ q \notin finished_threads
    <3>1. wpc[q] \in Touching \cup {"count", "exit"}
      BY <2>1, <2>2, <2>5 DEF WorkerFacts, TypeOK, ThreadTypes, Touching
    <3>2. wpc[q] # "count"
      BY <2>2, <2>5 DEF QueryInv, ReturnFacts
    <3>3. CASE wpc[q] = "exit"
      BY <2>2, <2>5, <3>3 DEF WorkerFacts, QueryInv, ReturnFacts, FrameFacts,
         InFrameForward, InHand
    <3>4. QED
      BY <3>1, <3>2, <3>3 DEF InHand
  <2>6. QED
    BY <2>2, <2>3, <2>4, <2>5 DEF QueryInv, ThreadFacts
<1>4. QED
  BY <1>1, <1>2, <1>3, TypeCorrect, Inductive, PTL DEF Spec

-----------------------------------------------------------------------------
(* The slots of threads_count(): which queries take one. *)
Taken(q) ==
  \/ q \in start_queries \/ wpc[q] \notin {"none", "exit"}
  \/ q \in m_frames \/ InFrameForward(q)

Slots == num_threads - num_finished

(* The two ways to say which queries take a slot agree. *)
LEMMA BusyTaken ==
  ASSUME TypeOK
  PROVE  Busy = {q \in Query : Taken(q)}
BY DEF Busy, Taken, InFrameForward, TypeOK, PollTypes, ThreadTypes

(* What a step may do to the slots: nothing, give one back, or take one    *)
(* for a query that has none, below the limit of its priority.             *)
SlotsSame ==
  /\ \A r \in Query : Taken(r)' <=> Taken(r)
  /\ Slots' = Slots

SlotGiven(q) ==
  /\ Taken(q)
  /\ \A r \in Query : Taken(r)' <=> Taken(r) /\ r # q
  /\ Slots' = Slots - 1

SlotTaken(q) ==
  /\ ~Taken(q)
  /\ \A r \in Query : Taken(r)' <=> Taken(r) \/ r = q
  /\ Slots' = Slots + 1
  /\ Slots < Limit(pri[q]) /\ UNCHANGED pri

(* The number of map changes only grows. *)
LEMMA StopsGrow ==
  ASSUME TypeOK, Next, stops' = 0
  PROVE  stops = 0
<1> USE DEF game
<1>1. CASE Natives
  BY <1>1 DEF Natives, AddConnect, PushQuery, PrepareSync, FreeInCallback,
     ExecQuery, FreeSync, PrepareQuery
<1>2. CASE FrameForward
  BY <1>2 DEF FrameForward, GetFrameQuery, ForwardAbort, ForwardExec,
     ForwardHeapLow, CallbackReturn, FinishFrame, CountFrame
<1>3. CASE Stop
  BY <1>3 DEF Stop, StopBegin, StopFrames, StopMark, StopClear, TypeOK, GameTypes
<1>4. ASSUME NEW q \in Query, RunQuery(q)
      PROVE  stops = 0
  BY <1>4 DEF RunQuery, RunBegin, RunConnect, RunTuple, RunExec, RunCheck,
     RunFrame, RunPush, RunFinish, RunCount
<1>5. CASE PollQuery
  BY <1>5 DEF PollQuery, PollBegin, PollDecide, PollUnlock, PollEnd,
     VisitOver, VisitStart, VisitSkip, SpawnThread, SpawnFails, CleanQuery,
     JoinThread
<1>6. QED
  BY <1>1, <1>2, <1>3, <1>4, <1>5 DEF Next

(* During a map, every step of every thread does one of the three. *)
LEMMA SlotStep ==
  ASSUME TypeOK, IInv, Next, stops' = 0
  PROVE  SlotsSame \/ \E q \in Query : SlotGiven(q) \/ SlotTaken(q)
<1> USE DEF Query, memory, flags, links, counts, history, game, poll, fields,
       TypeOK, QueryTypes, ThreadTypes, GameTypes, PollTypes, Goto, Taken,
       InFrameForward, Slots
<1>1. \A r \in Query : QueryInv(r)
  BY DEF IInv
<1>2. CASE Natives
  <2>1. SlotsSame
    BY <1>2 DEF Natives, AddConnect, PushQuery, PrepareSync, FreeInCallback,
       ExecQuery, FreeSync, PrepareQuery, SlotsSame
  <2>2. QED
    BY <2>1
<1>3. CASE FrameForward
  <2>1. CASE GetFrameQuery
    <3>1. SlotsSame
      BY <2>1 DEF GetFrameQuery, SlotsSame
    <3>2. QED
      BY <3>1
  <2>2. CASE \/ ForwardAbort \/ ForwardExec \/ ForwardHeapLow \/ CallbackReturn
             \/ FinishFrame
    <3>1. SlotsSame
      BY <2>2 DEF ForwardAbort, ForwardExec, ForwardHeapLow, CallbackReturn,
         FinishFrame, SlotsSame
    <3>2. QED
      BY <3>1
  <2>3. CASE CountFrame
    <3>1. PICK q \in Query : q = cur
      BY <2>3 DEF CountFrame
    <3>2. /\ q \notin start_queries /\ wpc[q] \in {"none", "exit"}
          /\ q \notin m_frames
      BY <1>1, <2>3, <3>1 DEF CountFrame, QueryInv, FrameFacts, StartFacts
    <3>3. SlotGiven(q)
      BY <2>3, <3>1, <3>2 DEF CountFrame, SlotGiven
    <3>4. QED
      BY <3>3
  <2>4. QED
    BY <1>3, <2>1, <2>2, <2>3 DEF FrameForward
<1>4. CASE Stop
  <2>1. stops \in Nat /\ FirstMap
    BY DEF IInv
  <2>2. FALSE
    BY <1>4, <2>1 DEF Stop, StopBegin, StopFrames, StopMark, StopClear, FirstMap
  <2>3. QED
    BY <2>2
<1>5. ASSUME NEW q \in Query, RunQuery(q)
      PROVE  SlotsSame \/ SlotGiven(q)
  <2>1. CASE \/ RunBegin(q) \/ RunConnect(q) \/ RunTuple(q) \/ RunExec(q)
             \/ RunCheck(q) \/ RunFrame(q) \/ RunPush(q) \/ RunFinish(q)
    BY <2>1 DEF RunBegin, RunConnect, RunTuple, RunExec, RunCheck, RunFrame,
       RunPush, RunFinish, SlotsSame
  <2>2. CASE RunCount(q)
    <3>1. q \notin start_queries /\ q \notin m_frames /\ ~InFrameForward(q)
      BY <1>1, <2>2 DEF RunCount, QueryInv, ReturnFacts, StartFacts
    <3>2. SlotGiven(q)
      BY <2>2, <3>1 DEF RunCount, SlotGiven
    <3>3. QED
      BY <3>2
  <2>3. QED
    BY <1>5, <2>1, <2>2 DEF RunQuery
<1>6. CASE PollQuery
  <2>1. CASE PollBegin \/ PollDecide \/ PollUnlock \/ PollEnd
    <3>1. SlotsSame
      BY <2>1 DEF PollBegin, PollDecide, PollUnlock, PollEnd, SlotsSame
    <3>2. QED
      BY <3>1
  <2>2. ASSUME NEW q \in Query, VisitOver(q)
        PROVE  SlotsSame
    <3>1. stops = 0 /\ FirstMap
      BY <2>2 DEF VisitOver, IInv
    <3>2. CollectThread(q) => q \in finished
      BY <3>1 DEF CollectThread, FirstMap
    <3>3. QED
      BY <2>2, <3>2 DEF VisitOver, SlotsSame
  <2>3. ASSUME NEW q \in Query, VisitStart(q)
        PROVE  SlotTaken(q)
    <3>1. /\ q \in todo /\ q \in async /\ q \notin started
          /\ q \notin finished
      BY <2>3 DEF VisitStart, CanStart, Visiting, IsFirst
    <3>2. q \notin finished_threads
      BY <1>1, <3>1 DEF QueryInv, PollerFacts
    <3>3. q \notin start_queries /\ q \notin m_frames /\ ~InFrameForward(q)
      BY <1>1, <3>1 DEF QueryInv, StartFacts, FrameFacts, FlagFacts
    <3>4. wpc[q] \in {"none", "exit"}
      BY <1>1, <3>1, <3>2 DEF QueryInv, RunFacts, ReturnFacts, Touching
    <3>5. Slots < Limit(pri[q])
      BY <2>3 DEF VisitStart, CanStart, ThreadsCountBelow
    <3>6. QED
      BY <2>3, <3>3, <3>4, <3>5 DEF VisitStart, SlotTaken
  <2>4. ASSUME NEW q \in Query, VisitSkip(q) \/ SpawnThread(q) \/ CleanQuery(q)
        PROVE  SlotsSame
    <3>1. SpawnThread(q) => q \in start_queries
      BY DEF SpawnThread, Spawning, IsFirst
    <3>2. QED
      BY <2>4, <3>1 DEF VisitSkip, SpawnThread, CleanQuery, SlotsSame
  <2>5. ASSUME NEW q \in Query, SpawnFails(q)
        PROVE  SlotGiven(q)
    <3>1. q \in start_queries
      BY <2>5 DEF SpawnFails, Spawning, IsFirst
    <3>2. wpc[q] = "none" /\ q \notin m_frames /\ ~InFrameForward(q)
      BY <1>1, <3>1 DEF QueryInv, StartFacts, FrameFacts
    <3>3. QED
      BY <2>5, <3>1, <3>2 DEF SpawnFails, SlotGiven
  <2>6. ASSUME NEW q \in Query, JoinThread(q)
        PROVE  SlotsSame
    BY <2>6 DEF JoinThread, SlotsSame
  <2>7. QED
    BY <1>6, <2>1, <2>2, <2>3, <2>4, <2>5, <2>6 DEF PollQuery
<1>7. QED
  BY <1>2, <1>3, <1>4, <1>5, <1>6 DEF Next

(* A step changes the priority of no query that has a slot. *)
LEMMA PriorityStep ==
  ASSUME TypeOK, IInv, Next, NEW q \in Query, Taken(q)
  PROVE  pri'[q] = pri[q]
<1>1. q <= nums
  <2>1. QueryInv(q)
    BY DEF IInv
  <2>2. wpc[q] \in Touching \cup {"none", "exit", "count"}
    BY DEF TypeOK, ThreadTypes, Touching
  <2>3. q \in async
    BY <2>1, <2>2 DEF Taken, QueryInv, StartFacts, RunFacts, ReturnFacts, FrameFacts
  <2>4. QED
    BY <2>1, <2>3 DEF QueryInv, CreatedFacts
<1> USE DEF memory, fields
<1>2. ASSUME NEW a, NEW p, NEW c, PrepareQuery(a, p, c)
      PROVE  pri'[q] = pri[q]
  <2>1. q # nums'
    BY <1>1, <1>2 DEF PrepareQuery, TypeOK, QueryTypes, Query
  <2>2. QED
    BY <1>2, <2>1 DEF PrepareQuery, TypeOK, QueryTypes
<1>3. CASE Natives
  BY <1>2, <1>3 DEF Natives, AddConnect, PushQuery, PrepareSync,
     FreeInCallback, ExecQuery, FreeSync
<1>4. CASE FrameForward
  BY <1>4 DEF FrameForward, GetFrameQuery, ForwardAbort, ForwardExec,
     ForwardHeapLow, CallbackReturn, FinishFrame, CountFrame
<1>5. CASE Stop
  BY <1>5 DEF Stop, StopBegin, StopFrames, StopMark, StopClear
<1>6. ASSUME NEW r \in Query, RunQuery(r)
      PROVE  pri'[q] = pri[q]
  BY <1>6 DEF RunQuery, RunBegin, RunConnect, RunTuple, RunExec, RunCheck,
     RunFrame, RunPush, RunFinish, RunCount
<1>7. CASE PollQuery
  BY <1>7 DEF PollQuery, PollBegin, PollDecide, PollUnlock, PollEnd,
     VisitOver, VisitStart, VisitSkip, SpawnThread, SpawnFails, CleanQuery,
     JoinThread
<1>8. QED
  BY <1>3, <1>4, <1>5, <1>6, <1>7 DEF Next

(* The limits shrink as the priority gets lower. *)
LEMMA LimitShrinks ==
  ASSUME NEW p \in 0 .. MAX_QUERY_PRIORITY, NEW r \in p .. MAX_QUERY_PRIORITY
  PROVE  Limit(p) \in Nat /\ Limit(r) <= Limit(p)
<1>1. p \in {0, 1, 2, 3, 4, 5} /\ r \in {0, 1, 2, 3, 4, 5} /\ p <= r
  BY DEF MAX_QUERY_PRIORITY
<1>2. MaxThreads \in Nat
  BY ConstantsAssumption
<1>3. /\ Limit(0) = MaxThreads * 32 /\ Limit(1) = MaxThreads * 16
      /\ Limit(2) = MaxThreads * 8 /\ Limit(3) = MaxThreads * 4
      /\ Limit(4) = MaxThreads * 2 /\ Limit(5) = MaxThreads
  BY <1>2 DEF Limit
<1>4. QED
  BY <1>1, <1>2, <1>3

(* A step changes the set of the taken slots as the three say. *)
LEMMA BusyStep ==
  ASSUME TypeOK, TypeOK'
  PROVE  /\ SlotsSame => Busy' = Busy
         /\ \A q \in Query :
              /\ SlotGiven(q) => q \in Busy /\ Busy' = Busy \ {q}
              /\ SlotTaken(q) => q \notin Busy /\ Busy' = Busy \cup {q}
<1>1. Busy = {r \in Query : Taken(r)}
  BY BusyTaken
<1>2. Busy' = {r \in Query : Taken(r)'}
  BY DEF Busy, Taken, InFrameForward, TypeOK, PollTypes, ThreadTypes, Query
<1>3. QED
  BY <1>1, <1>2 DEF SlotsSame, SlotGiven, SlotTaken

(* The number of taken slots is finite, and follows the set by one. *)
LEMMA BusyCount ==
  ASSUME TypeOK
  PROVE  /\ IsFiniteSet(Busy) /\ Cardinality(Busy) \in Nat
         /\ \A q \in Busy : Cardinality(Busy \ {q}) = Cardinality(Busy) - 1
         /\ \A q \in Query \ Busy :
              /\ IsFiniteSet(Busy \cup {q})
              /\ Cardinality(Busy \cup {q}) = Cardinality(Busy) + 1
<1>1. IsFiniteSet(Query)
  BY FS_Interval, ConstantsAssumption DEF Query
<1>2. Busy \subseteq Query
  BY BusyTaken
<1>3. IsFiniteSet(Busy)
  BY <1>1, <1>2, FS_Subset
<1>4. QED
  BY <1>3, FS_CardinalityType, FS_AddElement, FS_RemoveElement

(* The slots are counted exactly during a map. *)
LEMMA SlotsCounted ==
  ASSUME TypeOK, TypeOK', IInv, SlotAccounting, Next
  PROVE  SlotAccounting'
<1> SUFFICES ASSUME stops' = 0
             PROVE  Slots' = Cardinality(Busy')
  BY DEF SlotAccounting, Slots
<1>1. stops = 0
  BY StopsGrow
<1>2. Slots = Cardinality(Busy) /\ Slots \in Int
  BY <1>1 DEF SlotAccounting, Slots, TypeOK, ThreadTypes
<1>3. CASE SlotsSame
  BY <1>2, <1>3, BusyStep DEF SlotsSame
<1>4. ASSUME NEW q \in Query, SlotGiven(q)
      PROVE  Slots' = Cardinality(Busy')
  <2>1. q \in Busy /\ Busy' = Busy \ {q}
    BY <1>4, BusyStep
  <2>2. Cardinality(Busy') = Cardinality(Busy) - 1
    BY <2>1, BusyCount
  <2>3. QED
    BY <1>2, <1>4, <2>2 DEF SlotGiven
<1>5. ASSUME NEW q \in Query, SlotTaken(q)
      PROVE  Slots' = Cardinality(Busy')
  <2>1. q \notin Busy /\ Busy' = Busy \cup {q}
    BY <1>5, BusyStep
  <2>2. Cardinality(Busy') = Cardinality(Busy) + 1
    BY <2>1, BusyCount
  <2>3. QED
    BY <1>2, <1>5, <2>2 DEF SlotTaken
<1>6. QED
  BY <1>3, <1>4, <1>5, SlotStep

(* The difference of num_threads and num_finished, which three threads     *)
(* change without a common lock, is the number of taken slots throughout   *)
(* the first map.                                                          *)
THEOREM SlotsExact == Spec => []SlotAccounting
<1>1. Init => SlotAccounting
  <2> SUFFICES ASSUME Init PROVE SlotAccounting
    OBVIOUS
  <2>1. Busy = {}
    BY DEF Init, Busy
  <2>2. Cardinality(Busy) = 0
    BY <2>1, FS_EmptySet
  <2>3. QED
    BY <2>2 DEF Init, SlotAccounting
<1>2. TypeOK /\ TypeOK' /\ IInv /\ SlotAccounting /\ [Next]_vars
        => SlotAccounting'
  <2> SUFFICES ASSUME TypeOK, TypeOK', IInv, SlotAccounting, [Next]_vars
               PROVE  SlotAccounting'
    OBVIOUS
  <2>1. CASE UNCHANGED vars
    BY <2>1 DEF vars, counts, game, poll, SlotAccounting, Busy, Query
  <2>2. QED
    BY <2>1, SlotsCounted
<1>3. QED
  BY <1>1, <1>2, TypeCorrect, Inductive, PTL DEF Spec

(* During a map, queries of priority p and lower take no more slots than   *)
(* max_threads << (5 - p).                                                 *)
WithinLimits ==
  stops = 0 => \A p \in 0 .. MAX_QUERY_PRIORITY :
                 Cardinality({q \in Busy : pri[q] >= p}) <= Limit(p)

(* A step that takes a slot keeps the queries of priority p and lower      *)
(* within their limit, and no other step adds any.                         *)
LEMMA LimitKept ==
  ASSUME TypeOK, TypeOK', IInv, SlotAccounting, WithinLimits, Next, stops' = 0,
         NEW p \in 0 .. MAX_QUERY_PRIORITY
  PROVE  Cardinality({r \in Busy' : pri'[r] >= p}) <= Limit(p)
<1> DEFINE Low == {r \in Busy : pri[r] >= p}
           LowNext == {r \in Busy' : pri'[r] >= p}
<1>1. stops = 0
  BY StopsGrow
<1>2. Cardinality(Low) <= Limit(p) /\ IsFiniteSet(Low)
  <2>1. IsFiniteSet(Low)
    BY BusyCount, FS_Subset
  <2>2. QED
    BY <1>1, <2>1 DEF WithinLimits
<1>3. \A r \in Query : r \in Busy => pri'[r] = pri[r]
  BY PriorityStep, BusyTaken
<1>4. Limit(p) \in Nat
  BY LimitShrinks DEF MAX_QUERY_PRIORITY
<1>5. Busy \subseteq Query
  BY BusyTaken
<1> HIDE DEF Low, LowNext
<1>6. ASSUME LowNext \subseteq Low
      PROVE  Cardinality(LowNext) <= Limit(p)
  <2>1. Cardinality(LowNext) <= Cardinality(Low) /\ IsFiniteSet(LowNext)
    BY <1>2, <1>6, FS_Subset
  <2>2. Cardinality(LowNext) \in Nat /\ Cardinality(Low) \in Nat
    BY <1>2, <2>1, FS_CardinalityType
  <2>3. QED
    BY <1>2, <1>4, <2>1, <2>2
<1>7. CASE SlotsSame
  <2>1. LowNext \subseteq Low
    BY <1>3, <1>5, <1>7, BusyStep DEF Low, LowNext
  <2>2. QED
    BY <1>6, <2>1 DEF LowNext
<1>8. ASSUME NEW q \in Query, SlotGiven(q)
      PROVE  Cardinality(LowNext) <= Limit(p)
  <2>1. LowNext \subseteq Low
    BY <1>3, <1>5, <1>8, BusyStep DEF Low, LowNext
  <2>2. QED
    BY <1>6, <2>1
<1>9. ASSUME NEW q \in Query, SlotTaken(q)
      PROVE  Cardinality(LowNext) <= Limit(p)
  <2>1. Busy' = Busy \cup {q} /\ q \notin Busy
    BY <1>9, BusyStep
  <2>2. pri'[q] = pri[q] /\ pri[q] \in 0 .. MAX_QUERY_PRIORITY
    <3>1. UNCHANGED pri
      BY <1>9 DEF SlotTaken
    <3>2. QED
      BY <3>1 DEF TypeOK, QueryTypes
  <2>3. CASE pri[q] < p
    <3>1. ~(pri'[q] >= p)
      BY <2>2, <2>3
    <3>2. LowNext \subseteq Low
      BY <1>3, <1>5, <2>1, <3>1 DEF Low, LowNext
    <3>3. QED
      BY <1>6, <3>2
  <2>4. CASE ~(pri[q] < p)
    <3>1. Slots = Cardinality(Busy) /\ Slots < Limit(pri[q])
      BY <1>1, <1>9 DEF SlotAccounting, Slots, SlotTaken
    <3>2. Limit(pri[q]) <= Limit(p) /\ Limit(pri[q]) \in Nat
      BY <2>2, <2>4, LimitShrinks DEF MAX_QUERY_PRIORITY
    <3>3. /\ IsFiniteSet(Busy') /\ Cardinality(Busy') = Cardinality(Busy) + 1
          /\ Cardinality(Busy) \in Nat
      BY <2>1, BusyCount
    <3>4. Cardinality(LowNext) <= Cardinality(Busy') /\ Cardinality(LowNext) \in Nat
      BY <3>3, FS_Subset, FS_CardinalityType DEF LowNext
    <3>5. QED
      BY <1>4, <3>1, <3>2, <3>3, <3>4
  <2>5. QED
    BY <2>3, <2>4
<1>10. QED
  BY <1>7, <1>8, <1>9, SlotStep DEF LowNext

(* The admission test of poll_query: queries of priority p and lower never *)
(* take more slots of the first map than max_threads << (5 - p).           *)
THEOREM SlotsLimited == Spec => []WithinLimits
<1>1. Init => WithinLimits
  <2> SUFFICES ASSUME Init, NEW p \in 0 .. MAX_QUERY_PRIORITY
               PROVE  Cardinality({q \in Busy : pri[q] >= p}) <= Limit(p)
    BY DEF WithinLimits
  <2>1. {q \in Busy : pri[q] >= p} = {}
    BY DEF Init, Busy
  <2>2. Cardinality({q \in Busy : pri[q] >= p}) = 0
    BY <2>1, FS_EmptySet
  <2>3. Limit(p) \in Nat
    BY LimitShrinks DEF MAX_QUERY_PRIORITY
  <2>4. QED
    BY <2>2, <2>3
<1>2. TypeOK /\ TypeOK' /\ IInv /\ SlotAccounting /\ WithinLimits /\ [Next]_vars
        => WithinLimits'
  <2> SUFFICES ASSUME TypeOK, TypeOK', IInv, SlotAccounting, WithinLimits,
                      [Next]_vars
               PROVE  WithinLimits'
    OBVIOUS
  <2>1. CASE UNCHANGED vars
    BY <2>1 DEF vars, memory, fields, counts, game, poll, WithinLimits, Busy,
       Query, Limit, MAX_QUERY_PRIORITY
  <2>2. CASE Next
    BY <2>2, LimitKept DEF WithinLimits, MAX_QUERY_PRIORITY, Limit
  <2>3. QED
    BY <2>1, <2>2
<1>3. QED
  BY <1>1, <1>2, TypeCorrect, Inductive, SlotsExact, PTL DEF Spec

(* Only the admission test of poll_query puts a query among those to be    *)
(* started.                                                                *)
LEMMA OnlyVisitStarts ==
  ASSUME Next, NEW q, q \in start_queries', q \notin start_queries
  PROVE  q \in Query /\ VisitStart(q)
<1> USE DEF poll
<1>1. CASE Natives
  BY <1>1 DEF Natives, AddConnect, PushQuery, PrepareSync, FreeInCallback,
     ExecQuery, FreeSync, PrepareQuery
<1>2. CASE FrameForward
  BY <1>2 DEF FrameForward, GetFrameQuery, ForwardAbort, ForwardExec,
     ForwardHeapLow, CallbackReturn, FinishFrame, CountFrame
<1>3. CASE Stop
  BY <1>3 DEF Stop, StopBegin, StopFrames, StopMark, StopClear
<1>4. ASSUME NEW r \in Query, RunQuery(r)
      PROVE  FALSE
  BY <1>4 DEF RunQuery, RunBegin, RunConnect, RunTuple, RunExec, RunCheck,
     RunFrame, RunPush, RunFinish, RunCount
<1>5. CASE PollQuery
  <2>1. ASSUME NEW r \in Query, VisitStart(r)
        PROVE  q = r
    BY <2>1 DEF VisitStart
  <2>2. QED
    BY <1>5, <2>1 DEF PollQuery, PollBegin, PollDecide, PollUnlock, PollEnd,
       VisitOver, VisitSkip, SpawnThread, SpawnFails, CleanQuery, JoinThread
<1>6. QED
  BY <1>1, <1>2, <1>3, <1>4, <1>5 DEF Next

(* The admission test of poll_query (l.320): during the first map a query  *)
(* of priority p is started only while fewer than max_threads << (5 - p)   *)
(* slots are taken, whatever the threads that take and give them back do.  *)
THEOREM Limited == Spec => PriorityLimits
<1> DEFINE Admitted ==
             \A q \in start_queries' \ start_queries :
               stops' = 0 => Cardinality(Busy) < Limit(pri[q])
<1>1. TypeOK /\ SlotAccounting /\ [Next]_vars => [Admitted]_vars
  <2> SUFFICES ASSUME TypeOK, SlotAccounting, Next,
                      NEW q \in start_queries' \ start_queries, stops' = 0
               PROVE  Cardinality(Busy) < Limit(pri[q])
    OBVIOUS
  <2>1. stops = 0
    BY StopsGrow
  <2>2. VisitStart(q)
    BY OnlyVisitStarts
  <2>3. num_threads - num_finished < Limit(pri[q])
    BY <2>2 DEF VisitStart, CanStart, ThreadsCountBelow
  <2>4. QED
    BY <2>1, <2>3 DEF SlotAccounting
<1>2. QED
  BY <1>1, TypeCorrect, SlotsExact, PTL DEF Spec, PriorityLimits
=============================================================================
