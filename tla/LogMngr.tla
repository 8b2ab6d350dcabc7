------------------------------ MODULE LogMngr ------------------------------
(***************************************************************************)
(* The asynchronous log writer of refsapi_log_mngr.h.                      *)
(*                                                                         *)
(* Plugins put lines into a buffer (write_file).  write_to_disk() hands    *)
(* the whole buffer to a new writer thread: the main thread does so at     *)
(* intervals, the game thread when the buffer is full and when the map     *)
(* ends (close_all).  The main thread also joins the writers that have     *)
(* finished.  num_productivity limits the number of writers.               *)
(*                                                                         *)
(* The plugins are one AMX with one log file; a line is its number, and a  *)
(* writer is the number of its thread.  The log directory is writable.     *)
(***************************************************************************)
EXTENDS Integers, FiniteSets

CONSTANTS
  MaxLines,            \* bound: calls of write_file
  MAX_LOG_BUFFER_SIZE, \* lines that the buffer holds
  max_writer_threads,  \* 1 .. 4: twice the processors, clamped
  MaxMaps              \* bound: calls of close_all()

ASSUME LogAssumption ==
  /\ MaxLines \in Nat
  /\ MAX_LOG_BUFFER_SIZE \in Nat \ {0}
  /\ max_writer_threads \in 1 .. 4
  /\ MaxMaps \in Nat

MAX_PRODUCTIVITY == 2 * max_writer_threads

Line   == 1 .. MaxLines
Writer == 1 .. MaxLines     \* a writer is started with at least one line

VARIABLES
  seq,                       \* m_sequence: calls of write_file so far
  buffer,
  plugin_prms,               \* does the plugin have a configuration?
  spawned,                   \* writer threads started so far
  m_threads, m_finished,     \* writers registered; writers to be joined
  num_threads, num_finished, num_productivity,
  buff, wpc,                 \* a writer's lines and position
  mpc, key,                  \* main thread and the writer it joins
  gpc,                       \* game thread
  written, rejected, skipped,\* history: where the lines went
  maps

lines   == <<written, rejected, skipped>>
threads == <<spawned, m_threads, num_threads, num_productivity>>
ends    == <<m_finished, num_finished>>
writers == <<buff, wpc>>
mainv   == <<mpc, key>>
gamev   == <<gpc, maps>>

vars == <<seq, buffer, plugin_prms, threads, ends, writers, mainv, gamev, lines>>

Init ==
  /\ seq = 0 /\ buffer = {} /\ plugin_prms = FALSE
  /\ spawned = 0 /\ m_threads = {} /\ m_finished = {}
  /\ num_threads = 0 /\ num_finished = 0
  /\ num_productivity = MAX_PRODUCTIVITY
  /\ buff = [w \in Writer |-> {}] /\ wpc = [w \in Writer |-> "none"]
  /\ mpc = "write" /\ key = 0
  /\ gpc = "idle" /\ maps = 0
  /\ written = {} /\ rejected = {} /\ skipped = {}

(***************************************************************************)
(* Locks held across steps: the cleaning main thread holds thread_mutex,   *)
(* close_all() holds buffer_mutex.                                         *)
(***************************************************************************)
ThreadMutexFree == mpc \in {"write", "sleep"}
BufferMutexFree == gpc = "idle"

get_num_threads == num_threads - num_finished

-----------------------------------------------------------------------------
(* write_to_disk(), inside buffer_mutex. *)

(* Mutant: the last credit is spent twice. *)
ExceedingLate == get_num_threads >= max_writer_threads /\ num_productivity < 0

(* All writers are busy and no productivity is left. *)
Exceeding == get_num_threads >= max_writer_threads /\ num_productivity = 0

(* Mutant: a busy writer costs no productivity. *)
SpawnFree ==
  /\ spawned' = spawned + 1
  /\ buff' = [buff EXCEPT ![spawned'] = buffer]
  /\ wpc' = [wpc EXCEPT ![spawned'] = "open"]
  /\ m_threads' = m_threads \cup {spawned'}
  /\ num_threads' = num_threads + 1
  /\ UNCHANGED num_productivity

(* A new writer takes the lines of the buffer. *)
Spawn ==
  /\ num_productivity' =
       IF get_num_threads >= max_writer_threads THEN num_productivity - 1
       ELSE IF num_productivity < MAX_PRODUCTIVITY THEN num_productivity + 1
       ELSE num_productivity
  /\ spawned' = spawned + 1
  /\ buff' = [buff EXCEPT ![spawned'] = buffer]
  /\ wpc' = [wpc EXCEPT ![spawned'] = "open"]
  /\ m_threads' = m_threads \cup {spawned'}
  /\ num_threads' = num_threads + 1

(* Mutant: the buffer is copied, not swapped. *)
WriteToDiskCopies ==
  /\ buffer # {} => ThreadMutexFree
  /\ IF buffer = {} \/ Exceeding
     THEN UNCHANGED <<threads, writers>>
     ELSE Spawn
  /\ UNCHANGED buffer

(* What write_to_disk() leaves in the buffer. *)
WriteToDisk ==
  /\ buffer # {} => ThreadMutexFree
  /\ IF buffer = {} \/ Exceeding
     THEN UNCHANGED <<buffer, threads, writers>>
     ELSE Spawn /\ buffer' = {}

-----------------------------------------------------------------------------
(* Game thread: write_file(), close_all(). *)

(* The line goes into the buffer; a full buffer is handed over first, or,  *)
(* if that fails, the line is rejected with an error.                      *)
WriteFile ==
  /\ gpc = "idle" /\ seq < MaxLines
  /\ seq' = seq + 1
  /\ plugin_prms' = TRUE
  /\ \/ /\ Cardinality(buffer) < MAX_LOG_BUFFER_SIZE
        /\ buffer' = buffer \cup {seq'}
        /\ UNCHANGED <<threads, writers, rejected>>
     \/ /\ Cardinality(buffer) >= MAX_LOG_BUFFER_SIZE
        /\ ThreadMutexFree /\ ~Exceeding
        /\ Spawn
        /\ buffer' = {seq'}
        /\ UNCHANGED rejected
     \/ /\ Cardinality(buffer) >= MAX_LOG_BUFFER_SIZE
        /\ ThreadMutexFree /\ Exceeding
        /\ rejected' = rejected \cup {seq'}
        /\ UNCHANGED <<buffer, threads, writers>>
  /\ UNCHANGED <<ends, mainv, gamev, written, skipped>>

CloseWrite ==
  /\ gpc = "idle" /\ maps < MaxMaps
  /\ maps' = maps + 1
  /\ gpc' = "close_wait"
  /\ WriteToDisk
  /\ UNCHANGED <<seq, plugin_prms, ends, mainv, lines>>

(* Mutant: close_all() waits until every writer is joined. *)
CloseWaitJoined ==
  /\ gpc = "close_wait" /\ num_threads <= 0
  /\ gpc' = "close_files"
  /\ UNCHANGED <<seq, buffer, plugin_prms, threads, ends, writers, mainv, maps,
                 lines>>

(* The counters are read without thread_mutex. *)
CloseWait ==
  /\ gpc = "close_wait" /\ get_num_threads <= 0
  /\ gpc' = "close_files"
  /\ UNCHANGED <<seq, buffer, plugin_prms, threads, ends, writers, mainv, maps,
                 lines>>

(* Waits for the lock of the file, closes it and forgets the configuration. *)
CloseFiles ==
  /\ gpc = "close_files"
  /\ \A w \in Writer : wpc[w] # "write"
  /\ plugin_prms' = FALSE
  /\ gpc' = "idle"
  /\ UNCHANGED <<seq, buffer, threads, ends, writers, mainv, maps, lines>>

-----------------------------------------------------------------------------
(* Writer w: writer_thread(). *)

(* open_file locks the file.  Without a configuration the line is skipped, *)
(* and a configuration is made for the next one if the plugin is loaded.   *)
WriterOpen(w) ==
  /\ wpc[w] = "open"
  /\ \/ /\ plugin_prms
        /\ \A v \in Writer : wpc[v] # "write"
        /\ wpc' = [wpc EXCEPT ![w] = "write"]
        /\ UNCHANGED <<plugin_prms, buff, skipped>>
     \/ /\ ~plugin_prms
        /\ plugin_prms' \in BOOLEAN
        /\ \E l \in buff[w] :
             /\ \A k \in buff[w] : l <= k
             /\ skipped' = skipped \cup {l}
             /\ buff' = [buff EXCEPT ![w] = @ \ {l}]
        /\ wpc' = [wpc EXCEPT ![w] = IF buff'[w] = {} THEN "done" ELSE "open"]
  /\ UNCHANGED <<seq, buffer, threads, ends, mainv, gamev, written, rejected>>

(* A batch of the oldest lines; after the last one the file is unlocked. *)
WriterWrite(w) ==
  /\ wpc[w] = "write"
  /\ \E batch \in (SUBSET buff[w]) \ {{}} :
       /\ \A l \in batch, k \in buff[w] \ batch : l < k
       /\ written' = written \cup batch
       /\ buff' = [buff EXCEPT ![w] = @ \ batch]
  /\ wpc' = [wpc EXCEPT ![w] = IF buff'[w] = {} THEN "done" ELSE "write"]
  /\ UNCHANGED <<seq, buffer, plugin_prms, threads, ends, mainv, gamev,
                 rejected, skipped>>

(* Mutant: the writer is listed as finished but not counted. *)
WriterDoneUncounted(w) ==
  /\ wpc[w] = "done" /\ ThreadMutexFree
  /\ m_finished' = m_finished \cup {w}
  /\ wpc' = [wpc EXCEPT ![w] = "exit"]
  /\ UNCHANGED <<seq, buffer, plugin_prms, threads, num_finished, buff, mainv,
                 gamev, lines>>

(* The assertion on the skipped lines is not compiled (NDEBUG, Makefile    *)
(* l.21): a writer that skipped some ends like any other.                  *)
WriterDone(w) ==
  /\ wpc[w] = "done" /\ ThreadMutexFree
  /\ m_finished' = m_finished \cup {w}
  /\ num_finished' = num_finished + 1
  /\ wpc' = [wpc EXCEPT ![w] = "exit"]
  /\ UNCHANGED <<seq, buffer, plugin_prms, threads, buff, mainv, gamev, lines>>

-----------------------------------------------------------------------------
(* Main thread. *)

(* Mutant: the main thread leaves the writing to full buffers. *)
MainWritesNothing ==
  /\ mpc = "write" /\ BufferMutexFree
  /\ mpc' = "sleep"
  /\ UNCHANGED <<seq, buffer, plugin_prms, threads, writers, ends, key, gamev,
                 lines>>

MainWrite ==
  /\ mpc = "write" /\ BufferMutexFree
  /\ WriteToDisk
  /\ mpc' = "sleep"
  /\ UNCHANGED <<seq, plugin_prms, ends, key, gamev, lines>>

(* Locks thread_mutex for the whole cleaning. *)
CleanBegin ==
  /\ mpc = "sleep"
  /\ mpc' = "clean"
  /\ UNCHANGED <<seq, buffer, plugin_prms, threads, ends, writers, key, gamev,
                 lines>>

(* Joins a writer and uncounts it, one counter after the other. *)
CleanJoin(w) ==
  /\ mpc = "clean" /\ key = 0
  /\ w \in m_finished \cap m_threads /\ wpc[w] = "exit"
  /\ key' = w
  /\ m_threads' = m_threads \ {w}
  /\ num_threads' = num_threads - 1
  /\ UNCHANGED <<seq, buffer, plugin_prms, spawned, num_productivity, ends,
                 writers, mpc, gamev, lines>>

CleanCount ==
  /\ mpc = "clean" /\ key # 0
  /\ num_finished' = num_finished - 1
  /\ m_finished' = m_finished \ {key}
  /\ key' = 0
  /\ UNCHANGED <<seq, buffer, plugin_prms, threads, writers, mpc, gamev, lines>>

CleanEnd ==
  /\ mpc = "clean" /\ m_finished = {}
  /\ mpc' = "write"
  /\ UNCHANGED <<seq, buffer, plugin_prms, threads, ends, writers, key, gamev,
                 lines>>

-----------------------------------------------------------------------------
WriterThread(w) == WriterOpen(w) \/ WriterWrite(w) \/ WriterDone(w)

CloseAllRest == CloseWait \/ CloseFiles

Main ==
  \/ MainWrite \/ CleanBegin \/ CleanCount \/ CleanEnd
  \/ \E w \in Writer : CleanJoin(w)

Next ==
  \/ WriteFile \/ CloseWrite \/ CloseAllRest
  \/ \E w \in Writer : WriterThread(w)
  \/ Main

Spec == Init /\ [][Next]_vars

(***************************************************************************)
(* Threads run, and the mutexes are given to everyone who waits long       *)
(* enough: the main thread sleeps between two rounds without any mutex.    *)
(***************************************************************************)
Fairness ==
  /\ WF_vars(Main) /\ WF_vars(CloseAllRest)
  /\ \A w \in Writer :
       /\ WF_vars(WriterOpen(w)) /\ WF_vars(WriterWrite(w))
       /\ SF_vars(WriterDone(w))

FairSpec == Spec /\ Fairness

-----------------------------------------------------------------------------
LineTypes ==
  /\ seq \in 0 .. MaxLines /\ buffer \subseteq Line
  /\ written \subseteq Line /\ rejected \subseteq Line /\ skipped \subseteq Line

CounterTypes ==
  /\ spawned \in 0 .. MaxLines
  /\ m_threads \subseteq Writer /\ m_finished \subseteq Writer
  /\ num_threads \in Int /\ num_finished \in Int
  /\ num_productivity \in 0 .. MAX_PRODUCTIVITY

WriterTypes ==
  /\ buff \in [Writer -> SUBSET Line]
  /\ wpc \in [Writer -> {"none", "open", "write", "done", "exit"}]
  /\ \A w \in Writer : wpc[w] \in {"open", "write"} <=> buff[w] # {}

ThreadTypes ==
  /\ plugin_prms \in BOOLEAN
  /\ mpc \in {"write", "sleep", "clean"} /\ key \in Writer \cup {0}
  /\ gpc \in {"idle", "close_wait", "close_files"} /\ maps \in Nat

(* Every variable has its type, and a writer has lines as long as it works. *)
TypeOK == LineTypes /\ CounterTypes /\ WriterTypes /\ ThreadTypes

(* Writers that have not finished. *)
Running == {w \in Writer : wpc[w] \in {"open", "write", "done"}}

(* get_num_threads() (l.143): except while the cleaner is between its two  *)
(* counters, their difference is the number of running writers.            *)
RunningCounted == key = 0 => get_num_threads = Cardinality(Running)

(* write_to_disk() (l.159-168): however the intervals, the full buffers    *)
(* and the map changes fall, at most three times max_writer_threads        *)
(* writers run, because every writer above the first max_writer_threads    *)
(* uses up one of the MAX_PRODUCTIVITY credits.                            *)
WriterBound == Cardinality(Running) <= 3 * max_writer_threads

(* write_file() and writer_thread(): every line is in exactly one place:   *)
(* the buffer, one writer, the file, or among those that were rejected     *)
(* with an error or skipped.                                               *)
LineInOnePlace ==
  LET places == <<buffer, written, rejected, skipped>> IN
  \A l \in 1 .. seq :
    Cardinality({w \in Writer : l \in buff[w]})
      + Cardinality({n \in 1 .. 4 : l \in places[n]}) = 1

(* l.484-490 and l.82-109: a line in the buffer is written, or a writer    *)
(* skips it, which happens only after close_all() forgot the configuration *)
(* of its plugin.                                                          *)
LineSettled ==
  \A l \in Line :
    l \in buffer ~> l \in written \/ (l \in skipped /\ maps > 0)

(* close_all() (l.418) returns, although it keeps buffer_mutex while it    *)
(* waits for the writers.                                                  *)
CloseReturns == gpc = "close_wait" ~> gpc = "idle"

-----------------------------------------------------------------------------
(* assert(skip_count == 0) at the end of writer_thread() (l.110): no line  *)
(* is skipped.                                                             *)
NothingSkipped == skipped = {}

=============================================================================
