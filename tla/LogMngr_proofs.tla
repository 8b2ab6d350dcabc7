--------------------------- MODULE LogMngr_proofs ---------------------------
(***************************************************************************)
(* The limit on the writer threads, for every size of the buffer, every    *)
(* number of processors, lines and map changes.                            *)
(***************************************************************************)
EXTENDS LogMngr, FiniteSetTheorems, TLAPS

(* A writer number is used once, and the next one is free: every started   *)
(* writer took at least one line.                                          *)
FreshWriters ==
  /\ spawned + Cardinality(buffer) <= seq
  /\ \A w \in Writer : w > spawned => wpc[w] = "none"

(* The two counters, also between the two steps of the cleaner. *)
CountersAgree ==
  /\ key # 0 => mpc = "clean" /\ key \in m_finished
  /\ num_threads - num_finished + (IF key = 0 THEN 0 ELSE 1) = Cardinality(Running)

(* A running writer above the first max_writer_threads has spent a credit. *)
CreditsSpent ==
  Cardinality(Running) + num_productivity <= 3 * max_writer_threads

(* The inductive invariant of write_to_disk() and of the cleaner. *)
WInv == TypeOK /\ FreshWriters /\ CountersAgree /\ CreditsSpent

-----------------------------------------------------------------------------
(* The sets that are counted are finite. *)
LEMMA Finite ==
  ASSUME LineTypes
  PROVE  /\ IsFiniteSet(buffer) /\ Cardinality(buffer) \in Nat
         /\ IsFiniteSet(Running) /\ Cardinality(Running) \in Nat
<1>1. IsFiniteSet(1 .. MaxLines)
  BY LogAssumption, FS_Interval
<1>2. buffer \in SUBSET (1 .. MaxLines) /\ Running \in SUBSET (1 .. MaxLines)
  BY DEF LineTypes, Line, Running, Writer
<1>3. IsFiniteSet(buffer) /\ IsFiniteSet(Running)
  BY <1>1, <1>2, FS_Subset
<1>4. QED
  BY <1>3, FS_CardinalityType

(* Spawn starts a writer that did not run, with lines, and either the      *)
(* writers stay within max_writer_threads or a credit is spent.            *)
LEMMA SpawnStep ==
  ASSUME WInv, Spawn, ~Exceeding, ThreadMutexFree,
         buffer # {}, m_finished' = m_finished, num_finished' = num_finished,
         mpc' \in {"write", "sleep"}, key' = key
  PROVE  /\ CounterTypes' /\ WriterTypes' /\ CountersAgree' /\ CreditsSpent'
         /\ spawned' = spawned + 1 /\ spawned' <= seq
         /\ \A w \in Writer : w > spawned' => wpc'[w] = "none"
<1> DEFINE n == spawned + 1
<1>1. /\ IsFiniteSet(Running) /\ Cardinality(Running) \in Nat
      /\ IsFiniteSet(buffer) /\ Cardinality(buffer) \in Nat
  BY Finite DEF WInv, TypeOK
<1>2. Cardinality(buffer) >= 1
  BY <1>1, FS_EmptySet
<1>3. n \in Writer /\ n <= seq /\ spawned' = n /\ spawned \in Nat
  <2>1. seq \in 0 .. MaxLines /\ spawned \in 0 .. MaxLines
    BY DEF WInv, TypeOK, LineTypes, CounterTypes
  <2>2. spawned + Cardinality(buffer) <= seq
    BY DEF WInv, FreshWriters
  <2>3. QED
    BY <1>1, <1>2, <2>1, <2>2, LogAssumption DEF Writer, Spawn
<1>4. wpc[n] = "none"
  BY <1>3 DEF WInv, FreshWriters
<1>5. /\ wpc' = [wpc EXCEPT ![n] = "open"] /\ buff' = [buff EXCEPT ![n] = buffer]
      /\ m_threads' = m_threads \cup {n} /\ num_threads' = num_threads + 1
  BY <1>3 DEF Spawn
<1>6. WriterTypes'
  <2>1. /\ buff \in [Writer -> SUBSET Line] /\ buffer \in SUBSET Line
        /\ wpc \in [Writer -> {"none", "open", "write", "done", "exit"}]
        /\ \A w \in Writer : wpc[w] \in {"open", "write"} <=> buff[w] # {}
    BY DEF WInv, TypeOK, WriterTypes, LineTypes
  <2>2. /\ buff' \in [Writer -> SUBSET Line]
        /\ wpc' \in [Writer -> {"none", "open", "write", "done", "exit"}]
    BY <1>3, <1>5, <2>1
  <2>3. ASSUME NEW w \in Writer
        PROVE  wpc'[w] \in {"open", "write"} <=> buff'[w] # {}
    BY <1>3, <1>5, <2>1
  <2>4. QED
    BY <2>2, <2>3 DEF WriterTypes
<1>7. Running' = Running \cup {n} /\ n \notin Running
  BY <1>3, <1>4, <1>5 DEF Running, WInv, TypeOK, WriterTypes
<1>8. Cardinality(Running') = Cardinality(Running) + 1
  BY <1>1, <1>7, FS_AddElement
<1>9. key = 0 /\ get_num_threads = Cardinality(Running)
  <2>1. key = 0
    BY DEF WInv, CountersAgree, ThreadMutexFree
  <2>2. QED
    BY <2>1 DEF WInv, CountersAgree, get_num_threads, TypeOK, CounterTypes
<1>10. CountersAgree'
  BY <1>1, <1>5, <1>8, <1>9
     DEF CountersAgree, get_num_threads, WInv, TypeOK, CounterTypes
<1>11. /\ num_productivity' \in 0 .. MAX_PRODUCTIVITY
       /\ CreditsSpent'
  <2>1. num_productivity \in 0 .. 2 * max_writer_threads
    BY DEF WInv, TypeOK, CounterTypes, MAX_PRODUCTIVITY
  <2>2. Cardinality(Running) + num_productivity <= 3 * max_writer_threads
    BY DEF WInv, CreditsSpent
  <2>3. CASE get_num_threads >= max_writer_threads
    <3>1. num_productivity # 0 /\ num_productivity' = num_productivity - 1
      BY <2>3 DEF Exceeding, Spawn
    <3>2. QED
      BY <1>1, <1>8, <2>1, <2>2, <3>1, LogAssumption
         DEF MAX_PRODUCTIVITY, CreditsSpent
  <2>4. CASE ~(get_num_threads >= max_writer_threads)
    <3>1. num_productivity' \in 0 .. 2 * max_writer_threads
      BY <2>1, <2>4, LogAssumption DEF Spawn, MAX_PRODUCTIVITY
    <3>2. Cardinality(Running) + 1 <= max_writer_threads
      BY <1>1, <1>9, <2>4, LogAssumption
    <3>3. QED
      BY <1>1, <1>8, <3>1, <3>2, LogAssumption DEF MAX_PRODUCTIVITY, CreditsSpent
  <2>5. QED
    BY <2>3, <2>4
<1>12. CounterTypes'
  BY <1>3, <1>5, <1>11 DEF CounterTypes, WInv, TypeOK, Writer
<1>13. \A w \in Writer : w > spawned' => wpc'[w] = "none"
  BY <1>3, <1>5 DEF WInv, FreshWriters, TypeOK, WriterTypes, Writer
<1>14. QED
  BY <1>3, <1>6, <1>10, <1>11, <1>12, <1>13

(* write_to_disk() keeps the invariant, whoever calls it. *)
LEMMA WriteToDiskStep ==
  ASSUME WInv, WriteToDisk, seq' = seq, mpc' \in {"write", "sleep", "clean"},
         mpc' = "clean" <=> mpc = "clean", key' = key,
         m_finished' = m_finished, num_finished' = num_finished
  PROVE  /\ CounterTypes' /\ WriterTypes' /\ FreshWriters' /\ CountersAgree'
         /\ CreditsSpent' /\ buffer' \subseteq Line
<1>1. CASE buffer = {} \/ Exceeding
  BY <1>1 DEF WriteToDisk, WInv, TypeOK, LineTypes, CounterTypes, WriterTypes,
              FreshWriters, CountersAgree, CreditsSpent, Running, threads, writers
<1>2. CASE ~(buffer = {} \/ Exceeding)
  <2>1. Spawn /\ buffer' = {} /\ ThreadMutexFree
    BY <1>2 DEF WriteToDisk
  <2>2. mpc' \in {"write", "sleep"}
    BY <2>1 DEF ThreadMutexFree
  <2>3. /\ CounterTypes' /\ WriterTypes' /\ CountersAgree' /\ CreditsSpent'
        /\ spawned' = spawned + 1 /\ spawned' <= seq
        /\ \A w \in Writer : w > spawned' => wpc'[w] = "none"
    BY <1>2, <2>1, <2>2, SpawnStep
  <2>4. spawned' + Cardinality(buffer') <= seq'
    BY <2>1, <2>3, FS_EmptySet DEF CounterTypes
  <2>5. QED
    BY <2>1, <2>3, <2>4 DEF FreshWriters
<1>3. QED
  BY <1>1, <1>2

(* A step that leaves buffer, counters and writers alone. *)
LEMMA OtherStep ==
  ASSUME WInv, UNCHANGED <<seq, buffer, threads, ends, writers, key, lines>>,
         ThreadTypes', key = 0 \/ mpc' = mpc
  PROVE  WInv'
BY DEF WInv, TypeOK, LineTypes, CounterTypes, WriterTypes, FreshWriters,
       CountersAgree, CreditsSpent, Running, threads, ends, writers, lines

(* The game thread keeps the invariant. *)
LEMMA GameKeeps ==
  ASSUME WInv, WriteFile \/ CloseWrite \/ CloseAllRest
  PROVE  WInv'
<1>1. CASE WriteFile
  <2>1. /\ seq \in Nat /\ seq' = seq + 1 /\ seq' \in 0 .. MaxLines
        /\ seq' \in Line /\ mpc' = mpc /\ key' = key
        /\ m_finished' = m_finished /\ num_finished' = num_finished
        /\ written' = written /\ skipped' = skipped
    BY <1>1, LogAssumption
       DEF WriteFile, WInv, TypeOK, LineTypes, Line, ends, mainv
  <2>2. ThreadTypes'
    BY <1>1 DEF WriteFile, WInv, TypeOK, ThreadTypes, mainv, gamev
  <2>3. IsFiniteSet(buffer) /\ Cardinality(buffer) \in Nat
    BY Finite DEF WInv, TypeOK
  <2>4. CASE Cardinality(buffer) < MAX_LOG_BUFFER_SIZE
    <3>1. /\ buffer' = buffer \cup {seq'}
          /\ UNCHANGED <<threads, ends, writers, mpc, key, rejected>>
      BY <1>1, <2>1, <2>3, <2>4, LogAssumption DEF WriteFile, ends
    <3>2. Cardinality(buffer') <= Cardinality(buffer) + 1 /\ Cardinality(buffer') \in Nat
      BY <2>3, <3>1, FS_AddElement
    <3>3. LineTypes'
      BY <2>1, <3>1 DEF WInv, TypeOK, LineTypes
    <3>4. FreshWriters'
      BY <2>1, <2>3, <3>1, <3>2
         DEF WInv, TypeOK, FreshWriters, CounterTypes, threads, writers
    <3>5. CounterTypes' /\ WriterTypes' /\ CountersAgree' /\ CreditsSpent'
      BY <3>1 DEF WInv, TypeOK, CounterTypes, WriterTypes, CountersAgree,
                  CreditsSpent, Running, threads, ends, writers
    <3>6. QED
      BY <2>2, <3>3, <3>4, <3>5 DEF WInv, TypeOK
  <2>5. CASE Spawn /\ ~Exceeding /\ ThreadMutexFree
             /\ Cardinality(buffer) >= MAX_LOG_BUFFER_SIZE
             /\ buffer' = {seq'} /\ rejected' = rejected
    <3>1. buffer # {} /\ mpc' \in {"write", "sleep"}
      BY <2>1, <2>5, FS_EmptySet, LogAssumption DEF ThreadMutexFree
    <3>2. /\ CounterTypes' /\ WriterTypes' /\ CountersAgree' /\ CreditsSpent'
          /\ spawned' = spawned + 1 /\ spawned' <= seq
          /\ \A w \in Writer : w > spawned' => wpc'[w] = "none"
      BY <2>1, <2>5, <3>1, SpawnStep
    <3>3. Cardinality(buffer') = 1
      BY <2>5, FS_Singleton
    <3>4. FreshWriters'
      BY <2>1, <3>2, <3>3 DEF FreshWriters, CounterTypes
    <3>5. LineTypes'
      BY <2>1, <2>5 DEF WInv, TypeOK, LineTypes
    <3>6. QED
      BY <2>2, <3>2, <3>4, <3>5 DEF WInv, TypeOK
  <2>6. CASE /\ rejected' = rejected \cup {seq'}
             /\ UNCHANGED <<buffer, threads, writers>>
    <3>1. LineTypes'
      BY <2>1, <2>6 DEF WInv, TypeOK, LineTypes
    <3>2. FreshWriters'
      BY <2>1, <2>3, <2>6
         DEF WInv, TypeOK, FreshWriters, CounterTypes, threads, writers
    <3>3. CounterTypes' /\ WriterTypes' /\ CountersAgree' /\ CreditsSpent'
      BY <2>1, <2>6 DEF WInv, TypeOK, CounterTypes, WriterTypes, CountersAgree,
                        CreditsSpent, Running, threads, writers
    <3>4. QED
      BY <2>2, <3>1, <3>2, <3>3 DEF WInv, TypeOK
  <2>7. QED
    BY <1>1, <2>4, <2>5, <2>6 DEF WriteFile
<1>2. CASE CloseWrite
  <2>1. ThreadTypes'
    BY <1>2 DEF CloseWrite, WInv, TypeOK, ThreadTypes, mainv
  <2>2. /\ WriteToDisk /\ seq' = seq /\ mpc' = mpc /\ key' = key
        /\ m_finished' = m_finished /\ num_finished' = num_finished
        /\ UNCHANGED lines
    BY <1>2 DEF CloseWrite, ends, mainv
  <2>3. mpc' \in {"write", "sleep", "clean"}
    BY <2>1 DEF ThreadTypes
  <2>4. /\ CounterTypes' /\ WriterTypes' /\ FreshWriters' /\ CountersAgree'
        /\ CreditsSpent' /\ buffer' \subseteq Line
    BY <2>2, <2>3, WriteToDiskStep
  <2>5. LineTypes'
    BY <2>2, <2>4 DEF WInv, TypeOK, LineTypes, lines
  <2>6. QED
    BY <2>1, <2>4, <2>5 DEF WInv, TypeOK
<1>3. CASE CloseAllRest
  <2>1. ThreadTypes' /\ UNCHANGED <<seq, buffer, threads, ends, writers, key, mpc, lines>>
    BY <1>3 DEF CloseAllRest, CloseWait, CloseFiles, WInv, TypeOK, ThreadTypes, mainv
  <2>2. QED
    BY <2>1, OtherStep
<1>4. QED
  BY <1>1, <1>2, <1>3

(* A writer keeps the invariant: it stays among the running ones until it  *)
(* is counted as finished.                                                 *)
LEMMA WriterKeeps ==
  ASSUME WInv, NEW w \in Writer, WriterThread(w)
  PROVE  WInv'
<1>1. /\ seq' = seq /\ buffer' = buffer /\ UNCHANGED threads
      /\ mpc' = mpc /\ key' = key /\ UNCHANGED gamev
  BY DEF WriterThread, WriterOpen, WriterWrite, WriterDone, mainv
<1>2. /\ buff \in [Writer -> SUBSET Line]
      /\ wpc \in [Writer -> {"none", "open", "write", "done", "exit"}]
      /\ \A v \in Writer : wpc[v] \in {"open", "write"} <=> buff[v] # {}
      /\ seq \in 0 .. MaxLines /\ buffer \subseteq Line
      /\ written \subseteq Line /\ rejected \subseteq Line /\ skipped \subseteq Line
  BY DEF WInv, TypeOK, WriterTypes, LineTypes
<1>3. ThreadTypes'
  BY <1>1 DEF WriterThread, WriterOpen, WriterWrite, WriterDone, WInv, TypeOK,
              ThreadTypes, gamev
<1>4. ASSUME WriterOpen(w) \/ WriterWrite(w), UNCHANGED ends, Running' = Running,
             wpc[w] # "none", \A v \in Writer \ {w} : wpc'[v] = wpc[v]
      PROVE  CounterTypes' /\ FreshWriters' /\ CountersAgree' /\ CreditsSpent'
  BY <1>1, <1>4 DEF WInv, TypeOK, CounterTypes, FreshWriters, CountersAgree,
                    CreditsSpent, threads, ends
<1>5. CASE WriterOpen(w)
  <2>1. CASE /\ wpc' = [wpc EXCEPT ![w] = "write"]
             /\ UNCHANGED <<buff, skipped>>
    <3>1. wpc[w] = "open" /\ UNCHANGED <<ends, written, rejected>>
      BY <1>5 DEF WriterOpen
    <3>2. Running' = Running
      BY <1>2, <2>1, <3>1 DEF Running
    <3>3. WriterTypes'
      BY <1>2, <2>1, <3>1 DEF WriterTypes
    <3>4. LineTypes'
      BY <1>1, <1>2, <2>1, <3>1 DEF LineTypes
    <3>5. CounterTypes' /\ FreshWriters' /\ CountersAgree' /\ CreditsSpent'
      BY <1>2, <1>4, <1>5, <2>1, <3>1, <3>2
    <3>6. QED
      BY <1>3, <3>3, <3>4, <3>5 DEF WInv, TypeOK
  <2>2. CASE ~plugin_prms
    <3>1. PICK l \in buff[w] :
             /\ skipped' = skipped \cup {l}
             /\ buff' = [buff EXCEPT ![w] = @ \ {l}]
      BY <1>5, <2>2 DEF WriterOpen
    <3>2. /\ wpc[w] = "open" /\ UNCHANGED <<ends, written, rejected>>
          /\ wpc' = [wpc EXCEPT ![w] = IF buff'[w] = {} THEN "done" ELSE "open"]
      BY <1>5, <2>2 DEF WriterOpen
    <3>3. Running' = Running
      BY <1>2, <3>2 DEF Running
    <3>4. WriterTypes'
      <4>1. /\ buff' \in [Writer -> SUBSET Line]
            /\ wpc' \in [Writer -> {"none", "open", "write", "done", "exit"}]
        BY <1>2, <3>1, <3>2
      <4>2. ASSUME NEW v \in Writer
            PROVE  wpc'[v] \in {"open", "write"} <=> buff'[v] # {}
        BY <1>2, <3>1, <3>2
      <4>3. QED
        BY <4>1, <4>2 DEF WriterTypes
    <3>5. LineTypes'
      BY <1>1, <1>2, <3>1, <3>2 DEF LineTypes
    <3>6. CounterTypes' /\ FreshWriters' /\ CountersAgree' /\ CreditsSpent'
      BY <1>2, <1>4, <1>5, <3>2, <3>3
    <3>7. QED
      BY <1>3, <3>4, <3>5, <3>6 DEF WInv, TypeOK
  <2>3. QED
    BY <1>5, <2>1, <2>2 DEF WriterOpen
<1>6. CASE WriterWrite(w)
  <2>1. PICK batch \in (SUBSET buff[w]) \ {{}} :
           /\ written' = written \cup batch
           /\ buff' = [buff EXCEPT ![w] = @ \ batch]
    BY <1>6 DEF WriterWrite
  <2>2. /\ wpc[w] = "write" /\ UNCHANGED <<ends, rejected, skipped>>
        /\ wpc' = [wpc EXCEPT ![w] = IF buff'[w] = {} THEN "done" ELSE "write"]
    BY <1>6 DEF WriterWrite
  <2>3. Running' = Running
    BY <1>2, <2>2 DEF Running
  <2>4. WriterTypes'
    <3>1. /\ buff' \in [Writer -> SUBSET Line]
          /\ wpc' \in [Writer -> {"none", "open", "write", "done", "exit"}]
      BY <1>2, <2>1, <2>2
    <3>2. ASSUME NEW v \in Writer
          PROVE  wpc'[v] \in {"open", "write"} <=> buff'[v] # {}
      BY <1>2, <2>1, <2>2
    <3>3. QED
      BY <3>1, <3>2 DEF WriterTypes
  <2>5. LineTypes'
    BY <1>1, <1>2, <2>1, <2>2 DEF LineTypes
  <2>6. CounterTypes' /\ FreshWriters' /\ CountersAgree' /\ CreditsSpent'
    BY <1>2, <1>4, <1>6, <2>2, <2>3
  <2>7. QED
    BY <1>3, <2>4, <2>5, <2>6 DEF WInv, TypeOK
<1>7. CASE WriterDone(w)
  <2>1. /\ wpc[w] = "done" /\ ThreadMutexFree
        /\ m_finished' = m_finished \cup {w} /\ num_finished' = num_finished + 1
        /\ wpc' = [wpc EXCEPT ![w] = "exit"] /\ buff' = buff /\ UNCHANGED lines
    BY <1>7 DEF WriterDone
  <2>2. WriterTypes' /\ LineTypes'
    BY <1>1, <1>2, <2>1 DEF WriterTypes, LineTypes, lines
  <2>3. Running' = Running \ {w} /\ w \in Running
    BY <1>2, <2>1 DEF Running
  <2>4. IsFiniteSet(Running) /\ Cardinality(Running) \in Nat
    BY Finite DEF WInv, TypeOK
  <2>5. Cardinality(Running') = Cardinality(Running) - 1
    BY <2>3, <2>4, FS_RemoveElement
  <2>6. CounterTypes'
    BY <1>1, <2>1 DEF WInv, TypeOK, CounterTypes, threads
  <2>7. FreshWriters'
    BY <1>1, <1>2, <2>1 DEF WInv, FreshWriters, threads
  <2>8. CountersAgree'
    BY <1>1, <2>1, <2>4, <2>5 DEF WInv, TypeOK, CounterTypes, CountersAgree, threads
  <2>9. CreditsSpent'
    BY <1>1, <2>4, <2>5, LogAssumption
       DEF WInv, TypeOK, CounterTypes, CreditsSpent, threads, MAX_PRODUCTIVITY
  <2>10. QED
    BY <1>3, <2>2, <2>6, <2>7, <2>8, <2>9 DEF WInv, TypeOK
<1>8. QED
  BY <1>5, <1>6, <1>7 DEF WriterThread

(* The main thread keeps the invariant, also between the two counters that *)
(* the cleaner decrements.                                                 *)
LEMMA MainKeeps ==
  ASSUME WInv, Main
  PROVE  WInv'
<1>1. CASE MainWrite
  <2>1. ThreadTypes'
    BY <1>1 DEF MainWrite, WInv, TypeOK, ThreadTypes, gamev
  <2>2. /\ WriteToDisk /\ seq' = seq /\ mpc = "write" /\ mpc' = "sleep" /\ key' = key
        /\ m_finished' = m_finished /\ num_finished' = num_finished
        /\ UNCHANGED lines
    BY <1>1 DEF MainWrite, ends
  <2>3. /\ CounterTypes' /\ WriterTypes' /\ FreshWriters' /\ CountersAgree'
        /\ CreditsSpent' /\ buffer' \subseteq Line
    BY <2>2, WriteToDiskStep
  <2>4. LineTypes'
    BY <2>2, <2>3 DEF WInv, TypeOK, LineTypes, lines
  <2>5. QED
    BY <2>1, <2>3, <2>4 DEF WInv, TypeOK
<1>2. CASE CleanBegin \/ CleanEnd
  <2>1. key = 0
    BY <1>2 DEF CleanBegin, CleanEnd, WInv, CountersAgree
  <2>2. ThreadTypes' /\ UNCHANGED <<seq, buffer, threads, ends, writers, key, lines>>
    BY <1>2 DEF CleanBegin, CleanEnd, WInv, TypeOK, ThreadTypes, gamev
  <2>3. QED
    BY <2>1, <2>2, OtherStep
<1>3. ASSUME NEW w \in Writer, CleanJoin(w)
      PROVE  WInv'
  <2>1. w # 0
    BY DEF Writer
  <2>2. ThreadTypes' /\ WriterTypes' /\ LineTypes' /\ FreshWriters' /\ Running' = Running
    BY <1>3 DEF CleanJoin, WInv, TypeOK, ThreadTypes, WriterTypes, LineTypes,
                FreshWriters, Running, writers, lines, gamev
  <2>3. CounterTypes' /\ CountersAgree' /\ CreditsSpent'
    BY <1>3, <2>1, <2>2 DEF CleanJoin, WInv, TypeOK, CounterTypes, CountersAgree,
                            CreditsSpent, ends
  <2>4. QED
    BY <2>2, <2>3 DEF WInv, TypeOK
<1>4. CASE CleanCount
  <2>1. ThreadTypes' /\ WriterTypes' /\ LineTypes' /\ FreshWriters' /\ Running' = Running
    BY <1>4 DEF CleanCount, WInv, TypeOK, ThreadTypes, WriterTypes, LineTypes,
                FreshWriters, Running, threads, writers, lines, gamev
  <2>2. CounterTypes' /\ CountersAgree' /\ CreditsSpent'
    BY <1>4, <2>1 DEF CleanCount, WInv, TypeOK, CounterTypes, CountersAgree,
                      CreditsSpent, threads
  <2>3. QED
    BY <2>1, <2>2 DEF WInv, TypeOK
<1>5. QED
  BY <1>1, <1>2, <1>3, <1>4 DEF Main

-----------------------------------------------------------------------------
(* The invariant of the counters and credits holds in every reachable      *)
(* state of write_file(), close_all(), the writers and the main thread.    *)
THEOREM Counted == Spec => []WInv
<1>1. Init => WInv
  <2> SUFFICES ASSUME Init PROVE WInv
    OBVIOUS
  <2>1. Running = {}
    BY DEF Init, Running
  <2>2. TypeOK
    <3>1. LineTypes
      BY LogAssumption DEF Init, LineTypes
    <3>2. ThreadTypes
      <4>1. plugin_prms \in BOOLEAN
        BY Zenon DEF Init
      <4>2. QED
        BY <4>1 DEF Init, ThreadTypes
    <3>3. CounterTypes
      BY LogAssumption DEF Init, CounterTypes, MAX_PRODUCTIVITY
    <3>4. WriterTypes
      BY DEF Init, WriterTypes
    <3>5. QED
      BY <3>1, <3>2, <3>3, <3>4 DEF TypeOK
  <2>3. FreshWriters /\ CountersAgree /\ CreditsSpent
    BY <2>1, FS_EmptySet, LogAssumption
       DEF Init, FreshWriters, CountersAgree, CreditsSpent, MAX_PRODUCTIVITY
  <2>4. QED
    BY <2>2, <2>3 DEF WInv
<1>2. WInv /\ [Next]_vars => WInv'
  <2> SUFFICES ASSUME WInv, [Next]_vars PROVE WInv'
    OBVIOUS
  <2>1. CASE UNCHANGED vars
    <3>1. ThreadTypes' /\ UNCHANGED <<seq, buffer, threads, ends, writers, key, mpc, lines>>
      BY <2>1 DEF vars, mainv, gamev, WInv, TypeOK, ThreadTypes
    <3>2. QED
      BY <3>1, OtherStep
  <2>2. CASE Next
    BY <2>2, GameKeeps, WriterKeeps, MainKeeps DEF Next
  <2>3. QED
    BY <2>1, <2>2
<1>3. QED
  BY <1>1, <1>2, PTL DEF Spec

(* Every variable of the log writer keeps its type, and a writer has lines *)
(* exactly as long as it works (writer_thread, l.96-109).                  *)
THEOREM TypeCorrect == Spec => []TypeOK
<1>1. WInv => TypeOK
  BY DEF WInv
<1>2. QED
  BY <1>1, Counted, PTL

(* get_num_threads() is the number of running writers whenever the cleaner *)
(* is not between its two counters (l.143, l.506-507).                     *)
THEOREM CountsRunning == Spec => []RunningCounted
<1>1. WInv => RunningCounted
  BY DEF WInv, CountersAgree, RunningCounted, get_num_threads, TypeOK, CounterTypes
<1>2. QED
  BY <1>1, Counted, PTL

(* At most three times max_writer_threads writers run at once (l.159-168). *)
THEOREM Bounded == Spec => []WriterBound
<1>1. WInv => WriterBound
  <2> SUFFICES ASSUME WInv PROVE WriterBound
    OBVIOUS
  <2>1. Cardinality(Running) \in Nat /\ num_productivity \in Nat
    BY Finite, LogAssumption DEF WInv, TypeOK, CounterTypes, MAX_PRODUCTIVITY
  <2>2. QED
    BY <2>1, LogAssumption DEF WInv, CreditsSpent, WriterBound
<1>2. QED
  BY <1>1, Counted, PTL

-----------------------------------------------------------------------------
(***************************************************************************)
(* No line is lost or doubled.                                             *)
(***************************************************************************)

(* A line is nowhere before write_file() got it, and then in one place. *)
OnePlace(l) ==
  /\ l \in buffer => l \notin written \cup rejected \cup skipped
  /\ l \in written => l \notin rejected \cup skipped
  /\ l \in rejected => l \notin skipped
  /\ \A w \in Writer : l \in buff[w] =>
       /\ l \notin buffer \cup written \cup rejected \cup skipped
       /\ \A v \in Writer : l \in buff[v] => v = w
  /\ l <= seq => \/ l \in buffer \cup written \cup rejected \cup skipped
                 \/ \E w \in Writer : l \in buff[w]
  /\ l > seq => /\ l \notin buffer \cup written \cup rejected \cup skipped
                /\ \A w \in Writer : l \notin buff[w]

(* Spawn moves the lines of the buffer to a writer that had none. *)
LEMMA SpawnMoves ==
  ASSUME WInv, Spawn, buffer # {}
  PROVE  \E n \in Writer : buff[n] = {} /\ buff' = [buff EXCEPT ![n] = buffer]
<1> DEFINE n == spawned + 1
<1>1. IsFiniteSet(buffer) /\ Cardinality(buffer) \in Nat
  BY Finite DEF WInv, TypeOK
<1>2. Cardinality(buffer) >= 1
  BY <1>1, FS_EmptySet
<1>3. n \in Writer /\ spawned' = n /\ n > spawned
  BY <1>1, <1>2, LogAssumption
     DEF WInv, TypeOK, LineTypes, CounterTypes, FreshWriters, Writer, Spawn
<1>4. wpc[n] = "none"
  BY <1>3 DEF WInv, FreshWriters
<1>5. buff[n] = {}
  BY <1>3, <1>4 DEF WInv, TypeOK, WriterTypes
<1>6. buff' = [buff EXCEPT ![n] = buffer]
  BY <1>3 DEF Spawn
<1>7. QED
  BY <1>3, <1>5, <1>6

(* write_to_disk() keeps a line in one place. *)
LEMMA WriteToDiskPlaces ==
  ASSUME WInv, WriteToDisk, seq' = seq, UNCHANGED lines,
         NEW l \in Line, OnePlace(l)
  PROVE  OnePlace(l)'
<1> USE DEF OnePlace, lines, WInv, TypeOK, LineTypes, WriterTypes
<1>1. CASE buffer = {} \/ Exceeding
  BY <1>1 DEF WriteToDisk, writers
<1>2. CASE ~(buffer = {} \/ Exceeding)
  <2>1. Spawn /\ buffer' = {} /\ buffer # {}
    BY <1>2 DEF WriteToDisk
  <2>2. PICK n \in Writer : buff[n] = {} /\ buff' = [buff EXCEPT ![n] = buffer]
    BY <2>1, SpawnMoves
  <2>3. QED
    BY <2>1, <2>2
<1>3. QED
  BY <1>1, <1>2

(* write_file() puts the line it got into one place and moves the others   *)
(* together.                                                               *)
LEMMA WriteFilePlaces ==
  ASSUME WInv, WriteFile, NEW l \in Line, OnePlace(l)
  PROVE  OnePlace(l)'
<1> USE DEF OnePlace, WInv, TypeOK, LineTypes, WriterTypes
<1>1. /\ seq \in Nat /\ seq' = seq + 1 /\ l \in Nat
      /\ written' = written /\ skipped' = skipped
  BY LogAssumption DEF WriteFile, Line
<1>2. CASE /\ buffer' = buffer \cup {seq'} /\ UNCHANGED <<writers, rejected>>
  BY <1>1, <1>2 DEF writers
<1>3. CASE /\ Spawn /\ buffer' = {seq'} /\ UNCHANGED rejected
           /\ Cardinality(buffer) >= MAX_LOG_BUFFER_SIZE
  <2>1. buffer # {}
    BY <1>3, FS_EmptySet, LogAssumption
  <2>2. PICK n \in Writer : buff[n] = {} /\ buff' = [buff EXCEPT ![n] = buffer]
    BY <1>3, <2>1, SpawnMoves
  <2>3. QED
    BY <1>1, <1>3, <2>2
<1>4. CASE /\ rejected' = rejected \cup {seq'} /\ UNCHANGED <<buffer, writers>>
  BY <1>1, <1>4 DEF writers
<1>5. QED
  BY <1>2, <1>3, <1>4 DEF WriteFile

(* A writer moves its lines to the file, or skips its first one. *)
LEMMA WriterPlaces ==
  ASSUME WInv, NEW w \in Writer, WriterThread(w), NEW l \in Line, OnePlace(l)
  PROVE  OnePlace(l)'
<1> USE DEF OnePlace, WInv, TypeOK, LineTypes, WriterTypes
<1>1. seq' = seq /\ buffer' = buffer /\ rejected' = rejected
  BY DEF WriterThread, WriterOpen, WriterWrite, WriterDone, lines
<1>2. CASE WriterOpen(w)
  <2>1. CASE UNCHANGED <<buff, skipped>>
    BY <1>1, <1>2, <2>1 DEF WriterOpen
  <2>2. CASE ~plugin_prms
    <3>1. PICK k \in buff[w] : /\ skipped' = skipped \cup {k}
                               /\ buff' = [buff EXCEPT ![w] = @ \ {k}]
      BY <1>2, <2>2 DEF WriterOpen
    <3>2. written' = written
      BY <1>2 DEF WriterOpen
    <3>3. QED
      BY <1>1, <3>1, <3>2
  <2>3. QED
    BY <1>2, <2>1, <2>2 DEF WriterOpen
<1>3. CASE WriterWrite(w)
  <2>1. PICK batch \in (SUBSET buff[w]) \ {{}} :
           /\ written' = written \cup batch
           /\ buff' = [buff EXCEPT ![w] = @ \ batch]
    BY <1>3 DEF WriterWrite
  <2>2. skipped' = skipped
    BY <1>3 DEF WriterWrite
  <2>3. QED
    BY <1>1, <2>1, <2>2
<1>4. CASE WriterDone(w)
  BY <1>1, <1>4 DEF WriterDone, lines
<1>5. QED
  BY <1>2, <1>3, <1>4 DEF WriterThread

(* A line in one place is counted once. *)
LEMMA OnePlaceCounted ==
  ASSUME NEW l, l <= seq, OnePlace(l)
  PROVE  LET places == <<buffer, written, rejected, skipped>> IN
         Cardinality({w \in Writer : l \in buff[w]})
           + Cardinality({n \in 1 .. 4 : l \in places[n]}) = 1
<1> DEFINE places == <<buffer, written, rejected, skipped>>
           W == {w \in Writer : l \in buff[w]}
           N == {n \in 1 .. 4 : l \in places[n]}
<1>1. (W = {} /\ \E n : N = {n}) \/ (N = {} /\ \E w : W = {w})
  <2>1. CASE \E w \in Writer : l \in buff[w]
    <3>1. PICK w \in Writer : l \in buff[w]
      BY <2>1
    <3>2. W = {w}
      BY <3>1 DEF OnePlace
    <3>3. N = {}
      BY <3>1 DEF OnePlace
    <3>4. QED
      BY <3>2, <3>3
  <2>2. CASE ~\E w \in Writer : l \in buff[w]
    <3>1. W = {}
      BY <2>2
    <3>2. CASE l \in buffer
      <4>1. N = {1}
        BY <3>2 DEF OnePlace
      <4>2. QED
        BY <3>1, <4>1
    <3>3. CASE l \in written
      <4>1. N = {2}
        BY <3>3 DEF OnePlace
      <4>2. QED
        BY <3>1, <4>1
    <3>4. CASE l \in rejected
      <4>1. N = {3}
        BY <3>4 DEF OnePlace
      <4>2. QED
        BY <3>1, <4>1
    <3>5. CASE l \in skipped
      <4>1. N = {4}
        BY <3>5 DEF OnePlace
      <4>2. QED
        BY <3>1, <4>1
    <3>6. QED
      BY <2>2, <3>2, <3>3, <3>4, <3>5 DEF OnePlace
  <2>3. QED
    BY <2>1, <2>2
<1> HIDE DEF W, N
<1>2. \/ Cardinality(W) = 0 /\ Cardinality(N) = 1
      \/ Cardinality(N) = 0 /\ Cardinality(W) = 1
  BY <1>1, FS_EmptySet, FS_Singleton, Zenon
<1>3. Cardinality(W) + Cardinality(N) = 1
  BY <1>2
<1>4. QED
  BY <1>3 DEF W, N

(* Every line that write_file() got is in the buffer, with one writer, in  *)
(* the file, or among those rejected or skipped, and in one of these only, *)
(* whatever the order of the threads (l.82-109, l.159-168, l.484-490).     *)
THEOREM OnePlaceEach == Spec => []LineInOnePlace
<1> DEFINE LInv == \A l \in Line : OnePlace(l)
<1>1. Init => LInv
  BY DEF Init, OnePlace, Line
<1>2. WInv /\ LInv /\ [Next]_vars => LInv'
  <2> SUFFICES ASSUME WInv, LInv, [Next]_vars, NEW l \in Line
               PROVE  OnePlace(l)'
    OBVIOUS
  <2>1. OnePlace(l)
    OBVIOUS
  <2>2. CASE UNCHANGED <<seq, buffer, writers, lines>>
    BY <2>1, <2>2 DEF OnePlace, writers, lines
  <2>3. CASE WriteFile
    BY <2>1, <2>3, WriteFilePlaces
  <2>4. CASE CloseWrite \/ MainWrite
    BY <2>1, <2>4, WriteToDiskPlaces DEF CloseWrite, MainWrite
  <2>5. ASSUME NEW w \in Writer, WriterThread(w)
        PROVE  OnePlace(l)'
    BY <2>1, <2>5, WriterPlaces
  <2>6. CASE CloseAllRest \/ UNCHANGED vars
    BY <2>2, <2>6 DEF CloseAllRest, CloseWait, CloseFiles, vars
  <2>7. CASE CleanBegin \/ CleanCount \/ CleanEnd \/ \E w \in Writer : CleanJoin(w)
    BY <2>2, <2>7 DEF CleanBegin, CleanCount, CleanEnd, CleanJoin
  <2>8. QED
    BY <2>3, <2>4, <2>5, <2>6, <2>7 DEF Next, Main
<1>3. WInv /\ LInv => LineInOnePlace
  <2> SUFFICES ASSUME WInv, LInv, NEW l \in 1 .. seq
               PROVE  LET places == <<buffer, written, rejected, skipped>> IN
                      Cardinality({w \in Writer : l \in buff[w]})
                        + Cardinality({n \in 1 .. 4 : l \in places[n]}) = 1
    BY DEF LineInOnePlace
  <2>1. l \in Line /\ l <= seq
    BY LogAssumption DEF WInv, TypeOK, LineTypes, Line
  <2>2. OnePlace(l)
    BY <2>1
  <2>3. QED
    BY <2>1, <2>2, OnePlaceCounted
<1>4. QED
  BY <1>1, <1>2, <1>3, Counted, PTL DEF Spec
=============================================================================
