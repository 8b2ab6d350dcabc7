# A TLA+ development of refsapi

refsapi is a module for AMX Mod X (Counter-Strike 1.6 servers): a shared
library, loaded through Metamod, that offers *natives* to the plugins of the
server.  Everything a plugin calls runs on the **game thread**, between or
inside server frames; three of the managers behind the natives also keep
threads of their own.  This directory models the managers whose correctness is
hard to test, checks the models with TLC and proves what matters most with
TLAPS.

## 1. Inventory

| Part | State | Operations | Hard because |
| --- | --- | --- | --- |
| `mysql_mngr` (`refsapi_mysql_mngr.h`) | queries in maps by priority, flags of each query, waiting results, thread table, two counters, tuples | natives (tuple, async query, sync query, exec, free), `poll_query`, `run_query`, `frame_forward`, `stop` | three kinds of threads, flags read twice, retries, map changes at any point |
| `timer_mngr` (`refsapi_timer_mngr.h`) | list of timers, queue of copies, expired copies, three stop flags | natives, `frame_forward`, `stop_all`, `build_queue`, `main`, destructor | four mutexes, a signal that can be missed, stale copies |
| `log_mngr` (`refsapi_log_mngr.h`) | line buffer, writer threads, files | `write_file`, `write_to_disk`, `writer_thread`, `main`, `close_all` | writers bounded by a productivity counter, counters read without a lock |
| `cvar_mngr` (`refsapi_cvar_mngr.h`) | a copy of each cvar with type and limits, binds, hooks, the cvars of each plugin | create, bind, set, hook, hook state, config file, clear | hooks that set the cvar they are called for; the engine keeps the real string |
| `recoil_mngr` (`refsapi_recoil_mngr.h`) | a switch, pointers to cvars, the last shot of each player | enable, disable, `think_post`, resets | pointers that die with the map; a shot is seen as a difference of two times |
| clients (`refsapi.cpp`) | `g_Clients`, `g_PlayersNum` | connect, team info, death, disconnect | counters maintained by increments over message orders |
| entity index (`refsapi.cpp`) | entities by class, class names by entity, weapons, items by player | allocate, free, add and remove item, ask for a class, transfer items | class names change without notice; lists that are shortened while they are walked over |
| life cycle (`main.cpp`, `meta_api.cpp`, `api_config.cpp`) | which managers run | attach, activate, deactivate, detach | order of the stops |
| helpers (`refsapi_misc.cpp`) | none | UTF-8, similarity, frame delay | boundaries |

Interaction: the natives call the managers; `R_StartFrame_Post` calls
`start_frame()` of the query service and of the timers; `ServerDeactivate_Post`
calls `stop()`, `clear_all()`, `close_all()` and `stop_all()` in this order.
The managers do not call each other, except that `recoil_mngr` keeps pointers
into `cvar_mngr`, and that the module's own cvars (`api_config.cpp`) are created,
bound and configured as those of a plugin.  The events of the engine and of the game
(connect, team messages, death, spawn, disconnect) reach the client counters,
the recoil factors, the timers of a player and the entity index through hooks,
all of them on the game thread.

What makes each part correct:

* **queries**: a query is not used after it is deleted; its handler is called
  once, also when it failed; the slots in use never exceed the limit of a
  priority, and they are given back; no query is left without somebody to go on
  with it.
* **timers**: no timer runs early, twice for one expiry, or more often than
  asked; none is stranded; a change of the list reaches the thread that waits.
* **log**: a line is in one place and is written to the file; the number of
  writer threads is limited; the end of a map waits for the writers and returns.
* **clients**: the counters are the sizes of the teams whatever the order of the
  notices; the dead are never more than the dead.
* **cvars**: the bound variables and what the hooks were told agree with the
  engine's string; a bound number is within its limits.
* **recoil**: hooks are registered once exactly while the manager is enabled,
  with live pointers; a shot is scaled in the life it was fired in.
* **entity index**: the two maps of class names agree, the list of a player is
  the player's items, and a question is answered with the entities asked for.
* **life cycle**: nothing of a map survives it; each module has the end of the
  map as an action, and its properties hold over map changes.
* **helpers**: results against reference definitions (not modelled).

This is what the parts should do.  Section 3 says how far the code does it: a
query that the end of a map aborts may be used after it was deleted, a failure is
never reported, a timer may be a millisecond early or lose its signal, a line may
be skipped at the end of a map, and a cvar may leave its copy.

The hazards behind these properties are listed with their lines in
`PROJECT.json`.

## 2. Modules

| Module | Models | Kind |
| --- | --- | --- |
| `MysqlMngr` | `refsapi_mysql_mngr.h`, the SQL natives | specification, properties |
| `QueryService` | what a plugin may rely on | abstract specification |
| `MysqlService` | - | refinement of `QueryService` by `MysqlMngr` |
| `MysqlMngrInv` | - | inductive invariant |
| `MysqlMngr_proofs` | - | theorems: memory safety, threads, slots |
| `MysqlService_proofs` | - | theorems: delivery, refinement |
| `TimerMngr` | `refsapi_timer_mngr.h`, the timer natives | specification, properties |
| `TimerMngr_proofs` | - | inductive invariant, theorems |
| `LogMngr` | `refsapi_log_mngr.h`, the log natives | specification, properties |
| `LogMngr_proofs` | - | inductive invariant, theorems |
| `Clients` | clients and counters of `refsapi.cpp` | specification, properties |
| `Clients_proofs` | - | inductive invariant, theorems |
| `RecoilMngr` | `refsapi_recoil_mngr.h`, composed with `Clients` | specification, properties |
| `RecoilMngr_proofs` | - | inductive invariant, theorems |
| `CvarMngr` | `refsapi_cvar_mngr.h`, the cvar natives | specification, properties |
| `CvarMngr_proofs` | - | inductive invariant, theorems |
| `MCCvarMngr` | - | symmetry for TLC |
| `Entities` | `g_Tries` of `refsapi.cpp`, `rf_get_ent_by_class`, `rf_transfer_items` | specification, properties |
| `Entities_proofs` | - | inductive invariant, theorems |
| `MCEntities` | - | symmetry for TLC |

The specifications have few and small constants, so that the `.cfg` files give
them values directly; two modules add the symmetry of interchangeable values.
Definitions whose comment begins with *Mutant* are plausible bugs: for each
property one of them replaces the definition it varies, and TLC must then find
the property violated.

### MysqlMngr

A query is a number, handed out in creation order; a boolean field of
`m_query_t` is the set of the queries that have it.  Three program counters say
where the threads are: `gpc` (game thread, with `cur` the query that
`frame_forward` holds), `ppc` (poller, with `pq` and the local lists of
`poll_query`) and `wpc[q]` (the worker of `q`).  A step ends where another
thread can see or change what the next one reads: every atomic flag has a step
of its own; code under a mutex is one step unless it reads atomics twice.

| Actions | Code |
| --- | --- |
| `AddConnect`, `PushQuery`, `PrepareSync`, `ExecQuery`, `FreeSync`, `FreeInCallback` | natives and `prepare_query`, `exec_query`, `free_query` |
| `GetFrameQuery` ... `CountFrame` | `frame_forward`, one result per server frame |
| `StopBegin`, `StopFrames`, `StopMark`, `StopClear` | `stop` at the end of a map |
| `PollBegin`, `VisitOver`, `VisitStart`, `VisitSkip`, `PollDecide`, `SpawnThread`, `SpawnFails`, `PollUnlock`, `CleanQuery`, `JoinThread`, `PollEnd` | `poll_query` |
| `RunBegin`, `RunConnect`, `RunTuple`, `RunExec`, `RunCheck`, `RunFrame`, `RunPush`, `RunFinish`, `RunCount` | `run_query` with `async_connect`, `get_connect`, `exec_async_query` |

The answer of the MySQL server is a choice between success and failure; the
text of a query, rows and fields are left out.  `GetFrameQuery` takes any of the
waiting results: the code orders them by the time at which their queries were
created, and that time is of the system clock (l.1029), which may be set back.

### QueryService and MysqlService

`QueryService` says what a plugin sees of an asynchronous query: it is pending,
its handler is called at most once, with success or after at most `RetryCount`
failed attempts, after which it is released; a query of a map that ends is
cancelled.  That a query may be released after its last failure without a call
is what the code does, and the service is written to allow it; whether it should
is the question of `mysql_failure`.  `MysqlService` maps the flags, lists and program counters of
`MysqlMngr` to the status of each query (`StatusOf`) and states
`ImplementsService`: every step of the three threads is a step of the service or
invisible to it.

### TimerMngr

`tm` is the list of timers, `live` the ones that are in it, and the elements of
`m_timer_queue` and `m_frames` are *copies* (records), as in the code: a copy
keeps its time and its repeat count when the list changes.  `signal` holds while
the game thread is between a change of the list and `stop()`.  `stray` records
that the field `executed`, which `add_timer` does not initialise, happened to be
true.  `mpc = "crash"` stands for a read or a pop on an empty queue and for the
dereference of the end of a map: the process is gone, and `Next` is disabled.
The clock has `Millisecond` ticks to the millisecond: l.542 truncates the time to
wait to whole milliseconds and the timer is pushed without another look at the
clock, so that `LoopWait` ends up to `Millisecond` - 1 ticks early.
`ChangeTimer` is one step, although `change_timer_by_id` (l.316-327) writes the
fields after it gave `timer_mutex` back: that `build_queue` copies a timer of
which one field is old and another new is not modelled.
`fired`, `asked`, `done` and `changed` are history variables.

### LogMngr

A line is a number, and a writer is named by the order in which the writers
start.  `num_threads` and `num_finished` are the two atomic counters, `key` the
writer between the cleaner's two decrements.  The game thread writes lines and
ends maps; the main thread writes at intervals and cleans; each writer opens the
file of its lines, writes, and marks itself finished.  A writer that finds no
configuration of its plugin skips a line, and tries again with the next one, for
which the plugin, if it is loaded, has a configuration again.  The assertion
`skip_count == 0` that ends `writer_thread` (l.110) is compiled out by the build,
which defines `NDEBUG` (`src/Makefile:21`); the writer goes on in the model as in
the build, and the assertion itself is the property `NothingSkipped`.

### Clients

`is_connected`, `team` and `g_PlayersNum` are the module's own state; `slot`,
`dead` and `m_iTeam` are the engine's and the game's.  A disconnection is
announced by `SV_DropClient`, by `R_ClientDisconnect`, or by both, also for a
client that was never put in; `TeamInfo` may come before or after that.

### RecoilMngr

Extends `Clients`: every event of a client is the conjunction of its action
there and of what it does to `last_fired`.  `weapon_recoil` is "null", "live" or
"freed", since all pointers are fetched by `enable()` and all die in
`clear_all()`; `hooks` counts the registrations.  `due` and `refilled` are
history variables: a shot that was not noticed yet, and a memory that `enable()`
emptied after a shot.  Only humans are looked at by `think_post`.

### CvarMngr

The engine's `string` and the manager's `value` are kept apart, as in the code.
`stack` holds the calls of `on_direct_set` that have begun: a call enters with
the engine's string already set (`Entering`), leaves early (`SetSame`,
`SetUnbound`), is replaced by the corrected value (`SetFixed`), or writes the
bound variables (`SetChanged`) and walks over the hooks (`ExecuteForward`,
`SkipHook`, `HookReturn`) before it saves the value (`SaveValue`).  While a hook
runs, every native may be called.  A string is a number in halves in one of two
spellings, or a text.  `told` and `apart` are history variables; `apart` holds
the cvars whose copy is known to have left the engine's string: `add()` of an
existing cvar (l.438), and a hook that sets its own cvar (l.327), until the next
change from outside.  Every property of cvars but the types leaves these cvars
out.  A config file is executed from outside a hook only: `rf_config` called
within a hook is not modelled.

### Entities

`entities`, `classnames`, `wp_entities` and `player_entities` are the module's
maps and vectors; `state`, `class`, `owner` and `inventory` belong to the engine
and to the game.  `Rename` is any write to `pev->classname`.  The two loops that
erase from the vector they walk over read what `erase()` leaves behind the new
end (`Memory`); every loop is a recursive function of the round, so that it can be
proved about.  `rf_transfer_items` is one action, computed on a record of the
four variables that its steps and the hooks they reach change.  `trie_remove` destroys
the vector of a class when it takes the last entity out (l.523), also the vector
that `copy_entities` is walking over.  `Walk` has the maps after every round, and
`WalkedExists` says that the vector is there before each: a round takes out at
most one entity, so that the list can only be emptied by the last round, and an
entity that moved away is not copied (`continue`), so that nothing of the vector
is read after that.  `asked` and `misfiled` are history variables.  That a plugin writes `pev->owner` by itself is
not modelled.

## 3. Runs

| Run | Question | Bounds |
| --- | --- | --- |
| `mysql_maps` | use after deletion (of queries that no map change aborted), retries, delivery of successes, plugin handles, slots and limits, stranded queries, across a map change; refinement of `QueryService` | 2 queries: one of priority 4 (2 slots) and one of priority 5 (1 slot), or one of them and a sync query (`MaxEach`, `MaxSync`); 1 map change; threads that fail to start |
| `mysql_failure` (violation) | is the handler told of a query that failed? | 1 query |
| `mysql_count` (violation) | is `threads_count()` never negative? | 2 queries, 1 map change |
| `timer_maps` | less than a millisecond early, not lost, once, as often as asked, across maps and the unloading | 2 timers, 2 ticks to the millisecond, clock up to 3, 1 change, 1 map change |
| `timer_live` | a signalled timer reaches its frame | 2 timers, single, repeated or looping |
| `timer_fires` (violation) | does every timer run? | 1 timer |
| `timer_deadlock` (violation) | does the end of a map remove the timers? | 1 timer, 1 map change |
| `log` | counters, limit on writers, one place for a line, which is written unless a map change makes its writer skip it; end of `close_all` | 5 lines, buffer of 1, 1 map change |
| `log_skip` (violation) | is no line skipped? | 2 lines, 1 map change |
| `clients` | team counters and counters of the dead; switch, pointers and shots of the recoil manager | 2 clients, one of them a bot, clock up to 3, unbounded events |
| `cvar` | binds, limits and hooks of cvars that are not `apart` | 1 cvar, 2 variables, 2 hooks, numbers within and above the limits and a text, 2 nested calls |
| `entities` | class names, items of players, answers to plugins, lists destroyed under a walk | 3 entities, 2 players, a weapon and a zone class, 2 weapons, 1 entity renamed at a time |

Why the bounds are enough: the properties of queries speak of one query and the
shared counters; the second query is needed to compete for a slot, to have a
second worker, and to be visited while the first is collected.  The queries of
`mysql_maps` have two priorities: the one of priority 5 waits while the other has
a slot, and the one of priority 4 takes the second slot beside it.
A retry count of 3 is the code's own.  A timer
needs a second one to be ahead of it in the queue; the clock bound of 3 lets a
timer of delay 1 repeat, and two ticks to the millisecond let it be early.  Five lines reach the limit of three writers with
`max_writer_threads` = 1 before and after the map ends.  Two clients share a
team or not; the theorems have any number.  One cvar is enough, since calls for
different cvars share only the variables bound to both; two hooks and two
variables have a list with a first and a last element, and a text is corrected
twice, to 0 and then to the lower limit.  Three entities show what a loop does
that loses an element of the vector it walks over.  The unbounded counters of
`Entities` are named there: `wp_entities` may grow without limit in the code.

### Fairness

Only the runs with liveness properties or a temporal counterexample (`timer_live`,
`timer_fires`, `timer_deadlock`, `log`) assume any; that a query is not left
behind is the invariant `NotStranded`.  Whether every query ends is not claimed:
once `threads_count()` is negative (`mysql_count`), no query starts.

* Timers: the main thread, the server's frames, the calls that have begun, and
  the clock.
* Log: the main thread, `close_all` once begun, and the writers; a writer that
  asks for `thread_mutex` gets it, since the main thread sleeps without it.

### Disagreements with the repository's own statements

The five runs that end in a violation are described under `findings` in
`PROJECT.json`, each with the line it contradicts:

1. a query that failed three times is released, and its handler, whose first
   argument is the failure, is never called (`mysql_failure`);
2. a worker that passed its stop test pushes a result into the next map; it is
   counted finished twice, `threads_count()` becomes negative, and as a `size_t`
   it stops every start (`mysql_count`);
3. a timer set while `build_queue()` runs loses its signal (`timer_fires`);
4. `stop_all()` and `build_queue()` take two mutexes in opposite orders
   (`timer_deadlock`);
5. `close_all()` reads two counters between two decrements and forgets the
   configuration while a writer runs, which then skips its line (`log_skip`).

The limits of the priorities (`max_threads << (5 - pri)`, l.320) are not those of
the comment of l.15 ("PRI->THREADS: 0 -> 8, 1 -> 4, 2 -> 2, 3 -> 1");
`PriorityLimits` is about the limits of the code.

Observations without a statement of the repository to hold them against, most of
them hazards with a note: the uninitialised `executed`; the unlocked `pop()` of a
queue that `stop_all()` emptied; the destructor that joins a main thread whose
wait cannot end; the test of the tuples' size before the lock; the counter of
the dead that stays empty when a dead client joins a team; and native calls that
follow each other without a pause, which keep the main thread of the timers from
ever handing out a timer.  Also noted while reading: `timer_exists` answers true
for a group that was emptied, since `remove_timers` leaves the key; in
`remove_timer_by_id` the iterator is advanced after its element was erased; an
aborted query is released as soon as it is framed (l.317), which its worker sets
before it pushes the frame, so that worker and frame may use a deleted query; two
writers may create and truncate the same new log file.

Of the newer models: `add()` of a cvar that exists makes the copy differ from the
engine's string, so that a later change to the default is taken for no change; a
hook that sets its own cvar is followed by the save of the older value; limits
that are not in order, not whole, or no binary fraction, none of which
`rf_create_cvar` refuses, are corrected without end; a
renamed weapon stays in `wp_entities` after it is freed; `copy_entities` and
`rf_transfer_items` walk over lists that are shortened under them, which skips
elements and, in an answer, repeats others; a question for `func_buyzone` before
the map is active makes `r_bMapHasBuyZone` true; enabling the recoil manager
again scales the last shot of every player once more.  The properties are stated
so that they say what holds beside these cases, and name the case they leave out.

## 4. Proofs

All theorems hold for every value of the constants that satisfies the named
assumptions: natural bounds; priorities between 0 and 5; one to four threads;
finitely many clients, cvars and entities; numbers in halves for cvars.  Some
statements carry a condition of their own:

* `Forgotten` (`DeletedIsForgotten`) is about queries that no `stop()` aborted;
  `SlotsExact` and `Limited` are about the first map, since a result pushed into
  the next one breaks the count (`mysql_count`); `Delivered` is about successes.
* `NeverEarly` allows less than a millisecond.
* `NeverLost` leaves out timers whose `executed` was true when they were added.
* `BindsAreCurrent`, `HooksAreCurrent` and `RangeIsKept` leave out the cvars in
  `apart`; `RangeIsKept` also needs limits that are whole and in order
  (`SoundLimits`), which `rf_create_cvar` (`natives_refsapi.cpp` l.272-293) does
  not check.  With other limits `check_range` sets the cvar without end.
* `QueriesExact` leaves out weapons that are filed under another class.

* **`MysqlMngr_proofs`**: `TypeCorrect`, `Inductive`, `Forgotten`, `Started`,
  `Registered`, `Alive`, `NeverStranded`, `SlotsExact`, `Limited`.  "Deleted means forgotten" is
  not inductive: it depends on which list of the poller a query is in, which flags
  it has, and where its worker is.  `IInv` says this for one query at a time, in
  nine groups of facts (created, poller, decide, flags, start, run, return, frame,
  thread).  The heart of the argument: the poller collects the thread of an
  unaborted query only when the query is finished; a worker that will push a
  result leaves `finished` to `frame_forward`, so `finished` implies that the
  worker is past its last access (`RunFacts`, `ReturnFacts`) and that no frame
  holds the query (`FrameFacts`).  Each thread's actions get a lemma.
  `SlotsExact` follows the two counters: their difference is the cardinality of
  the set of queries that hold a slot, because every step adds or removes at most
  one element of that set; `Limited` is then a fact of the step that admits a
  query, for queries of all priorities at once, and `NeverStranded` of `IInv`.
* **`MysqlService_proofs`**: `ServiceInductive`, `Delivered`, `Implements`.  The
  second half of the life of a query: `SInv` says where a query is, that a worker
  without an answer has not succeeded, which retry ends in the list to delete,
  and that a handler that was called is followed by the release.  `Delivered` is
  the action property `ResultDelivered`, at the step that deletes a query; `Implements` is the refinement: every step of the three
  threads is a step of `QueryService` for one query, or leaves the status of all
  queries unchanged.
* **`TimerMngr_proofs`**: `TypeCorrect`, `Inductive`, `NeverEarly`, `NeverLost`,
  `NeverTwice`, `RepeatsExactly`.  A timer of the list is in at most one place: its
  copy is in the queue only while `executed` is false, and in the frames or in
  `frame_forward` only while it is true (`QueueFacts`, `FrameFacts`).  So only
  the main thread moves it forward and only `frame_forward` frees it again, and
  neither works with an outdated copy of a timer that nobody changed.
  `CountFacts` relates the repeat count of the list to the expiries counted in
  the history; the expiry under way (`Ahead`) is the term that makes it inductive.
* **`LogMngr_proofs`**: `Counted`, `TypeCorrect`, `CountsRunning`, `Bounded`,
  `OnePlaceEach`.  `WInv` adds to the types that the two counters differ by the
  number of running writers, less one between the cleaner's decrements; that
  writers and remaining credits together never exceed three times
  `max_writer_threads`; and that every writer took a line, so that the next
  writer's number is free.  For `OnePlaceEach` the lines of a writer that has not
  written yet are its own, and neither the buffer nor a file has them.
* **`Clients_proofs`**: `Consistent`, `TeamsCounted`, `DeadBounded`,
  `TypeCorrect`.  `CInv` adds to the two counting properties that a counted
  client is in its slot, so that it cannot be put in twice, and that the game's
  team is the one of the last message or none, so that a death is counted for
  the team it is later taken back from.
* **`RecoilMngr_proofs`**: `Composed`, `ClientsBelow`, `RecoilConsistent`,
  `Ready`, `Scaled`.  A step of the recoil manager and the clients together is a
  step of the clients or leaves them alone, so the theorems of `Clients_proofs`
  carry over; `RInv` is the types and the two properties, which are inductive
  together.
* **`CvarMngr_proofs`**: `TypeCorrect`, `Inductive`,
  `BindsAreCurrent`, `RangeIsKept`, `HooksAreCurrent`.  The difficulty is the
  stack: a hook may call every native, so a cvar changes while another (or the
  same) one is in the middle of a change.  `CInv` says for each cvar that is not
  `apart` that at most one call on the stack changes it (`OneRun`); that the
  engine's string is what that call carries (`StringFacts`); that the variables
  have it (`BoundFacts`), the hooks that the loop has passed were told it
  (`ToldFacts`), and it is in range or about to be corrected (`RangeFacts`).  The
  lemma `Frame` says that these facts of a cvar survive every step for another
  one, so that an action is looked at for one cvar only.  The depth of the stack
  is arbitrary.
* **`Entities_proofs`**: `Inductive`, `ClassIndexed`, `OwnerIndexed`,
  `QueriesExact`, `WalksExisting`.  The operations are loops over vectors of any length.  A loop is
  a recursive function over `0 .. n`: it exists (`Rounds`), and what its start has
  and every round keeps, its end has (`UpTo`); both follow from the least number
  principle, a fact without an operator as parameter.  With these, `Keep` is shown
  to leave exactly the elements in the set (`KeepElements`), `CopyRounds` to keep
  the index in order in every round of `copy_entities`, although the vector it
  walks over changes, and `ReplaceLoop` and `TransferLoop` to keep the items in
  order in `rf_transfer_items`.  `EInv` adds to the properties that a list holds
  only noted entities, that an item is in one inventory, that a live entity of a
  player's list is in the inventory (so that an item that may be added is in no
  list), and what `wp_entities` holds beside the renamed weapons.  `AddIndex`,
  `RemoveIndex` and `TransferIndex` say what the three operations on the maps do
  to the index.  For `QueriesExact` no entity moves in a loop over its own list
  once the names are settled, so that the loop is a filter.  `WalksExisting` is
  about names that are not: each round of the walk leaves the list at most one
  element shorter (`TransferLength`, `WalkLength`).

Each inductive invariant was checked by TLC on a small instance before it was proved (that
of the cvars additionally by simulation with two cvars).

Only model-checked: liveness (`SignalledRuns`, `LineSettled`,
`CloseReturns`), which needs fairness and `ENABLED` and is outside the prover's
reach.  What a loop computes is proved where an invariant of its rounds is enough.

## 5. Not modelled

* The list of sync connections (`rf_sql_connect`, `rf_sql_close`), the contents
  of results, the MySQL client library.
* Callback data and the frame rate of the timers; the contents of files and the
  formatting of log lines.
* The text of config files and their rewriting; how the engine prints a float
  that is not whole; the value of a recoil factor and what it multiplies;
  ammunition, shield and the geometry of buy zones.
* The string and number helpers (`refsapi_misc.cpp`): functions without state.
* `is_bot`, which nobody reads, and the copy of a team into `p->v.team`.
* Function tables and interface lookups (`amxxmodule.cpp`, `sdk_util.cpp`,
  `h_export.cpp`, `dllapi.cpp`, `engine_api.cpp`); the plugin in `revoice-plus`;
  the sources in `natives/`, which the Makefile does not compile.

## 6. Plan

Modelled: every manager with state.  Proved: every safety invariant of the
passing runs, and the refinement.  Left:

1. an abstract specification of the timers (asked, running, done), and its
   refinement within a map;
2. pure helpers against reference definitions (UTF-8 length, frame delay), in
   modules of their own, since they need recursion.
