----------------------------- MODULE TimerMngr -----------------------------
(***************************************************************************)
(* The timers of refsapi_timer_mngr.h.                                     *)
(*                                                                         *)
(* The game thread owns the list of timers (m_timers): natives add, change *)
(* and remove timers, frame_forward() runs one expired timer per server    *)
(* frame, and stop_all() ends a map.  The main thread copies the list into *)
(* a queue ordered by time, sleeps until the first copy expires and hands  *)
(* it to the frames.  A change of the list interrupts it with stop().      *)
(*                                                                         *)
(* The copies of a timer in the queue and in the frames are records with   *)
(* the fields of tm_t; the list itself is the function tm.  The plugins    *)
(* are one AMX.  add_timer() leaves executed uninitialised: the history    *)
(* field stray is the value that it happens to have.                       *)
(*                                                                         *)
(* Delays are whole milliseconds, and the clock is finer: Millisecond of   *)
(* its ticks make one.                                                     *)
(***************************************************************************)
EXTENDS Integers, FiniteSets

CONSTANTS
  MaxTimers,      \* bound: timers created in a behaviour
  Groups,         \* the group ids that plugins use
  Delays,         \* the delays they ask for, in milliseconds
  Millisecond,    \* the ticks of the clock in a millisecond
  Flags,          \* the sets of flags they pass
  Repeats,        \* the repeat counts they pass
  InitExecuted,   \* values that the uninitialised field executed may have
  MaxTime,        \* bound: the clock
  MaxChanges,     \* bound: calls of rf_change_timer_id, vain rf_remove_timer_id
  MaxMaps,        \* bound: calls of stop_all()
  Unloads         \* may the module be unloaded?

ASSUME TimerAssumption ==
  /\ MaxTimers \in Nat
  /\ Groups \subseteq Nat /\ Delays \subseteq Nat /\ Repeats \subseteq Nat
  /\ Flags \subseteq SUBSET {"LOOP", "REPEAT", "RELATIVE"}
  /\ Millisecond \in Nat \ {0}
  /\ InitExecuted \subseteq BOOLEAN
  /\ MaxTime \in Nat /\ MaxChanges \in Nat /\ MaxMaps \in Nat
  /\ Unloads \in BOOLEAN

Timer == 1 .. MaxTimers

VARIABLES
  nums,                        \* m_timer_nums
  live, tm,                    \* m_timers: the timers in the list, their fields
  groups,                      \* the group keys of m_timers
  executed,                    \* timers with executed = true
  m_timer_queue, m_frames,     \* copies of timers
  stop_loop, stop_timer, stop_main,
  mpc, t, wake,                \* main thread, the copy it works on, the end of its wait
  gpc, ft,                      \* game thread and the copy frame_forward() runs
  signal,                      \* the game thread is about to call stop()
  now,
  fired, asked, done, changed, \* history: expiries, repeat counts, completions, changes
  maps, changes

list  == <<nums, live, tm, groups>>
stopf == <<stop_loop, stop_timer, stop_main>>
hist  == <<fired, asked, done, changed, maps, changes>>
main  == <<mpc, t, wake>>
game  == <<gpc, ft, signal>>

vars == <<list, executed, m_timer_queue, m_frames, stopf, main, game, now, hist>>

Init ==
  /\ nums = 0 /\ live = {} /\ tm = <<>> /\ groups = {} /\ executed = {}
  /\ m_timer_queue = {} /\ m_frames = {}
  /\ stop_loop = FALSE /\ stop_timer = FALSE /\ stop_main = FALSE
  /\ mpc = "start" /\ t = <<>> /\ wake = 0
  /\ gpc = "idle" /\ ft = <<>> /\ signal = FALSE
  /\ now = 0
  /\ fired = [i \in Timer |-> 0] /\ asked = fired /\ done = {} /\ changed = {}
  /\ maps = 0 /\ changes = 0

(***************************************************************************)
(* Locks held across steps: build_queue() holds timer_mutex while it waits *)
(* for queue_mutex, and stop_all() holds frame_mutex and queue_mutex while *)
(* it waits for timer_mutex.                                               *)
(***************************************************************************)
TimerMutexFree == mpc # "build_push"
QueueMutexFree == gpc # "stop_remove"
FrameMutexFree == gpc # "stop_remove"

(* The priority queues order copies by time; equal times in any order. *)
IsTop(c, Q) == c \in Q /\ \A d \in Q : c.time <= d.time

(* get_timer_by_id dereferences the end of the map when the plugin has     *)
(* timers but not in the group of the copy.                                *)
GroupLookupFails(c) == groups # {} /\ c.group_id \notin groups

-----------------------------------------------------------------------------
(* Game thread: natives, called between frames or inside a callback. *)

InPlugin == gpc \in {"idle", "callback"} /\ ~signal

(* The natives that change the list then call stop(). *)
AddTimer ==
  /\ InPlugin /\ TimerMutexFree
  /\ nums < MaxTimers
  /\ nums' = nums + 1
  /\ \E g \in Groups, d \in Delays, fl \in Flags, r \in Repeats, e \in InitExecuted :
       /\ now + d * Millisecond <= MaxTime
       /\ tm' = [i \in 1 .. nums' |->
                   IF i = nums'
                   THEN [id |-> i, group_id |-> g, delay_sec |-> d,
                         time |-> now + d * Millisecond, flags |-> fl,
                         repeat |-> r, stray |-> e]
                   ELSE tm[i]]
       /\ groups' = groups \cup {g}
       /\ executed' = IF e THEN executed \cup {nums'} ELSE executed
       /\ asked' = [asked EXCEPT ![nums'] = r]
  /\ live' = live \cup {nums'}
  /\ signal' = TRUE
  /\ UNCHANGED <<m_timer_queue, m_frames, stopf, main, gpc, ft, now, fired, done,
                 changed, maps, changes>>

(* rf_remove_timer removes a group; its key stays in the map. *)
RemoveTimers(g) ==
  /\ InPlugin /\ TimerMutexFree
  /\ g \in groups
  /\ live' = {i \in live : tm[i].group_id # g}
  /\ signal' = TRUE
  /\ UNCHANGED <<nums, tm, groups, executed, m_timer_queue, m_frames, stopf,
                 main, gpc, ft, now, hist>>

(* A player disconnects: the groups gs whose ids name the player are       *)
(* removed, and timer_mutex is kept until stop() has returned.             *)
OnClientDisconnected(gs) ==
  /\ InPlugin /\ TimerMutexFree
  /\ gs # {} /\ gs \subseteq groups
  /\ live' = {i \in live : tm[i].group_id \notin gs}
  /\ stop_loop' = TRUE
  /\ UNCHANGED <<nums, tm, groups, executed, m_timer_queue, m_frames, stop_timer,
                 stop_main, main, game, now, hist>>

(* rf_remove_timer_id, under timer_mutex like the last one; it calls       *)
(* stop() for an unknown timer too, which the model bounds.                *)
RemoveTimerById(i) ==
  /\ InPlugin /\ TimerMutexFree
  /\ groups # {}
  /\ \/ i \in live /\ UNCHANGED changes
     \/ i \notin live /\ changes < MaxChanges /\ changes' = changes + 1
  /\ live' = live \ {i}
  /\ stop_loop' = TRUE
  /\ UNCHANGED <<nums, tm, groups, executed, m_timer_queue, m_frames, stop_timer,
                 stop_main, main, game, now, fired, asked, done, changed, maps>>

(* rf_change_timer_id: a new delay, and flags and repeat if they are given. *)
(* The timer is looked up under timer_mutex and written to without it, also *)
(* while build_queue() has it; only this thread removes timers, so that the *)
(* lookup is part of the write.                                             *)
ChangeTimer(i) ==
  /\ InPlugin
  /\ changes < MaxChanges
  /\ i \in live
  /\ \E d \in Delays, fl \in Flags \cup {{}}, r \in Repeats \cup {0} :
       tm' = [tm EXCEPT ![i] =
                [tm[i] EXCEPT !.delay_sec = d,
                              !.flags = IF fl = {} THEN tm[i].flags ELSE fl,
                              !.repeat = IF r = 0 THEN tm[i].repeat ELSE r]]
  /\ changed' = changed \cup {i} /\ changes' = changes + 1
  /\ signal' = TRUE
  /\ UNCHANGED <<nums, live, groups, executed, m_timer_queue, m_frames, stopf,
                 main, gpc, ft, now, fired, asked, done, maps>>

(* stop(): interrupts the main thread. *)
StopLoop ==
  /\ signal
  /\ stop_loop' = TRUE
  /\ signal' = FALSE
  /\ UNCHANGED <<list, executed, m_timer_queue, m_frames, stop_timer,
                 stop_main, main, gpc, ft, now, hist>>

-----------------------------------------------------------------------------
(* Game thread: frame_forward(), one expired timer per server frame. *)

(* The copy's timer is looked up in the list: a removed one is dropped.    *)
(* With a full AMX heap the callback is left out.                          *)
FrameForward ==
  /\ gpc = "idle" /\ ~signal /\ ~stop_timer /\ TimerMutexFree
  /\ \E c \in m_frames :
       /\ IsTop(c, m_frames)
       /\ m_frames' = m_frames \ {c}
       /\ IF c.id \in live
          THEN /\ ft' = c
               /\ fired' = [fired EXCEPT ![c.id] = @ + 1]
               /\ gpc' \in {"callback", "rearm"}
          ELSE UNCHANGED <<gpc, ft, fired>>
  /\ UNCHANGED <<list, executed, m_timer_queue, stopf, main, signal, now, asked,
                 done, changed, maps, changes>>

(* The handler returns; a nonzero result ends the timer. *)
CallbackReturn ==
  /\ gpc = "callback" /\ ~signal
  /\ gpc' \in {"rearm", "remove"}
  /\ UNCHANGED <<list, executed, m_timer_queue, m_frames, stopf, main, ft,
                 signal, now, hist>>

(* Mutant: the last repetition is left out. *)
MayRepeatOnceLess(c) ==
  "LOOP" \in c.flags \/ ("REPEAT" \in c.flags /\ c.repeat > 2)

MayRepeat(c) == "LOOP" \in c.flags \/ ("REPEAT" \in c.flags /\ c.repeat > 1)

(* A timer that is not to be repeated is removed. *)
RearmEnds ==
  /\ gpc = "rearm" /\ ~MayRepeat(ft)
  /\ done' = IF ft.id \in live THEN done \cup {ft.id} ELSE done
  /\ gpc' = "remove"
  /\ UNCHANGED <<list, executed, m_timer_queue, m_frames, stopf, main, ft,
                 signal, now, fired, asked, changed, maps, changes>>

(* The flags and the delay are the copy's, the rest the list's. *)
NewTime(i) ==
  (IF "RELATIVE" \in ft.flags THEN now ELSE tm[i].time)
    + ft.delay_sec * Millisecond
NewRepeat(i) ==
  IF "REPEAT" \in ft.flags THEN tm[i].repeat - 1 ELSE tm[i].repeat + 1

(* A timer that its own callback removed is written to after it was freed: *)
(* taken to leave the other timers alone.                                  *)
RearmTime ==
  /\ gpc = "rearm" /\ MayRepeat(ft)
  /\ tm' = [i \in 1 .. nums |->
              IF i = ft.id /\ i \in live
              THEN [tm[i] EXCEPT !.time = NewTime(i), !.repeat = NewRepeat(i)]
              ELSE tm[i]]
  /\ gpc' = "rearmed"
  /\ UNCHANGED <<nums, live, groups, executed, m_timer_queue, m_frames, stopf,
                 main, ft, signal, now, hist>>

(* Mutant: executed is not reset. *)
RearmStaysExecuted ==
  /\ gpc = "rearmed"
  /\ signal' = TRUE
  /\ gpc' = "idle" /\ ft' = <<>>
  /\ UNCHANGED <<list, executed, m_timer_queue, m_frames, stopf, main, now, hist>>

RearmExecuted ==
  /\ gpc = "rearmed"
  /\ executed' = executed \ {ft.id}
  /\ signal' = TRUE
  /\ gpc' = "idle" /\ ft' = <<>>
  /\ UNCHANGED <<list, m_timer_queue, m_frames, stopf, main, now, hist>>

RemoveForwarded ==
  /\ gpc = "remove" /\ TimerMutexFree
  /\ live' = live \ {ft.id}
  /\ gpc' = "idle" /\ ft' = <<>>
  /\ UNCHANGED <<nums, tm, groups, executed, m_timer_queue, m_frames, stopf,
                 main, signal, now, hist>>

-----------------------------------------------------------------------------
(* Game thread: stop_all() at the end of a map, and the destructor. *)

StopAll ==
  /\ gpc = "idle" /\ ~signal
  /\ \/ maps < MaxMaps /\ maps' = maps + 1 /\ UNCHANGED stop_main
     \/ Unloads /\ stop_main' = TRUE /\ UNCHANGED maps
  /\ stop_loop' = TRUE /\ stop_timer' = TRUE
  /\ gpc' = "stop_clear"
  /\ UNCHANGED <<list, executed, m_timer_queue, m_frames, main, ft, signal, now,
                 fired, asked, done, changed, changes>>

(* Locks frame_mutex and queue_mutex and keeps both. *)
StopClear ==
  /\ gpc = "stop_clear"
  /\ m_frames' = {} /\ m_timer_queue' = {}
  /\ gpc' = "stop_remove"
  /\ UNCHANGED <<list, executed, stopf, main, ft, signal, now, hist>>

(* remove_all_timers *)
StopRemove ==
  /\ gpc = "stop_remove" /\ TimerMutexFree
  /\ live' = {} /\ groups' = {}
  /\ gpc' = "stop_start"
  /\ UNCHANGED <<nums, tm, executed, m_timer_queue, m_frames, stopf, main, ft,
                 signal, now, hist>>

(* start(), unless the module is being unloaded. *)
StopStart ==
  /\ gpc = "stop_start"
  /\ IF stop_main
     THEN gpc' = "join" /\ UNCHANGED <<stop_timer, stop_loop>>
     ELSE gpc' = "idle" /\ stop_timer' = FALSE /\ stop_loop' = TRUE
  /\ UNCHANGED <<list, executed, m_timer_queue, m_frames, stop_main, main, ft,
                 signal, now, hist>>

JoinMain ==
  /\ gpc = "join" /\ mpc = "exit"
  /\ gpc' = "unloaded"
  /\ UNCHANGED <<list, executed, m_timer_queue, m_frames, stopf, main, ft,
                 signal, now, hist>>

-----------------------------------------------------------------------------
(* Main thread. *)

Goto(from, to) == mpc = from /\ mpc' = to

MainStart ==
  /\ Goto("start", "while")
  /\ stop_timer' = FALSE /\ stop_loop' = TRUE
  /\ UNCHANGED <<list, executed, m_timer_queue, m_frames, stop_main, t, wake,
                 game, now, hist>>

MainExit ==
  /\ stop_main
  /\ Goto("while", "exit")
  /\ UNCHANGED <<list, executed, m_timer_queue, m_frames, stopf, t, wake, game,
                 now, hist>>

(* build_queue: empty the queue, ... *)
BuildClear ==
  /\ ~stop_main /\ QueueMutexFree
  /\ Goto("while", "build_lock")
  /\ m_timer_queue' = {}
  /\ UNCHANGED <<list, executed, m_frames, stopf, t, wake, game, now, hist>>

(* ... return if the map ends, else keep timer_mutex, ... *)
BuildLock ==
  /\ Goto("build_lock", IF stop_timer THEN "loop" ELSE "build_push")
  /\ UNCHANGED <<list, executed, m_timer_queue, m_frames, stopf, t, wake, game,
                 now, hist>>

(* Mutant: timers that were handed to the frames are queued again. *)
BuildPushAll ==
  /\ live = {} \/ QueueMutexFree
  /\ Goto("build_push", "build_done")
  /\ m_timer_queue' = m_timer_queue \cup {tm[i] : i \in live}
  /\ UNCHANGED <<list, executed, m_frames, stopf, t, wake, game, now, hist>>

(* ... push the timers that wait, each under queue_mutex, ... *)
BuildPush ==
  LET waiting == live \ executed IN
  /\ waiting = {} \/ QueueMutexFree
  /\ Goto("build_push", "build_done")
  /\ m_timer_queue' = m_timer_queue \cup {tm[i] : i \in waiting}
  /\ UNCHANGED <<list, executed, m_frames, stopf, t, wake, game, now, hist>>

(* ... and clear the signal. *)
BuildDone ==
  /\ Goto("build_done", "loop")
  /\ stop_loop' = FALSE
  /\ UNCHANGED <<list, executed, m_timer_queue, m_frames, stop_timer,
                 stop_main, t, wake, game, now, hist>>

(* The loop reads the queue without a lock. *)
LoopSize ==
  /\ Goto("loop", IF m_timer_queue = {} THEN "after" ELSE "top")
  /\ UNCHANGED <<list, executed, m_timer_queue, m_frames, stopf, t, wake, game,
                 now, hist>>

(* Mutant: the top of the queue is not copied. *)
LoopTopUnread ==
  /\ m_timer_queue # {}
  /\ Goto("top", "test")
  /\ UNCHANGED <<list, executed, m_timer_queue, m_frames, stopf, t, wake, game,
                 now, hist>>

(* duration_cast drops what is less than a millisecond. *)
Truncated(d) == (d \div Millisecond) * Millisecond

(* The wait begins when the remaining time is computed. *)
LoopTop ==
  /\ \/ /\ m_timer_queue = {}
        /\ Goto("top", "crash") /\ UNCHANGED <<t, wake>>
     \/ \E c \in m_timer_queue :
          /\ IsTop(c, m_timer_queue)
          /\ t' = c
          /\ IF c.time > now
             THEN Goto("top", "wait") /\ wake' = now + Truncated(c.time - now)
             ELSE Goto("top", "test") /\ UNCHANGED wake
  /\ UNCHANGED <<list, executed, m_timer_queue, m_frames, stopf, game, now,
                 hist>>

(* cv.wait_for: interrupted, or the whole milliseconds are over. *)
LoopWait ==
  /\ Goto("wait", "test")
  /\ stop_timer \/ stop_loop \/ wake <= now
  /\ wake' = 0
  /\ UNCHANGED <<list, executed, m_timer_queue, m_frames, stopf, t, game, now,
                 hist>>

(* Mutant: an interrupted wait is not told from an expired one. *)
LoopTestNothing ==
  /\ Goto("test", "push")
  /\ UNCHANGED <<list, executed, m_timer_queue, m_frames, stopf, t, wake, game,
                 now, hist>>

LoopTest ==
  LET stopped == stop_timer \/ stop_loop IN
  /\ Goto("test", IF stopped THEN "after" ELSE "push")
  /\ t' = IF stopped THEN <<>> ELSE t
  /\ UNCHANGED <<list, executed, m_timer_queue, m_frames, stopf, wake, game,
                 now, hist>>

(* Under frame_mutex and timer_mutex: the timer goes to the frames if it   *)
(* is still in the list.                                                   *)
LoopPush ==
  /\ FrameMutexFree /\ mpc = "push"
  /\ Goto("push", IF GroupLookupFails(t) THEN "crash" ELSE "pop")
  /\ IF t.id \in live
     THEN /\ executed' = executed \cup {t.id}
          /\ m_frames' = m_frames \cup {t}
     ELSE UNCHANGED <<executed, m_frames>>
  /\ UNCHANGED <<list, m_timer_queue, stopf, t, wake, game, now, hist>>

(* pop() without a lock: on a queue that stop_all() emptied the size wraps *)
(* and the next top() reads through a null pointer.                        *)
LoopPop ==
  /\ Goto("pop", IF m_timer_queue = {} THEN "crash" ELSE "loop")
  /\ m_timer_queue' = m_timer_queue \ {t}
  /\ t' = <<>>
  /\ UNCHANGED <<list, executed, m_frames, stopf, wake, game, now, hist>>

LoopAfter ==
  /\ Goto("after", IF ~stop_timer /\ stop_loop THEN "while" ELSE "sleep")
  /\ UNCHANGED <<list, executed, m_timer_queue, m_frames, stopf, t, wake, game,
                 now, hist>>

(* Mutant: the main thread waits for the end of the signal. *)
MainSleepInverted ==
  /\ ~stop_timer /\ ~stop_loop
  /\ Goto("sleep", "while")
  /\ UNCHANGED <<list, executed, m_timer_queue, m_frames, stopf, t, wake, game,
                 now, hist>>

(* cv.wait *)
MainSleep ==
  /\ ~stop_timer /\ stop_loop
  /\ Goto("sleep", "while")
  /\ UNCHANGED <<list, executed, m_timer_queue, m_frames, stopf, t, wake, game,
                 now, hist>>

-----------------------------------------------------------------------------
Tick ==
  /\ now < MaxTime
  /\ now' = now + 1
  /\ UNCHANGED <<list, executed, m_timer_queue, m_frames, stopf, main, game,
                 hist>>

Natives ==
  \/ AddTimer
  \/ \E g \in Groups : RemoveTimers(g)
  \/ \E gs \in SUBSET Groups : OnClientDisconnected(gs)
  \/ \E i \in Timer : RemoveTimerById(i) \/ ChangeTimer(i)

StartFrame ==
  \/ FrameForward \/ CallbackReturn \/ RearmEnds \/ RearmTime
  \/ RearmExecuted \/ RemoveForwarded

StopAllRest == StopClear \/ StopRemove \/ StopStart \/ JoinMain

Main ==
  \/ MainStart \/ MainExit \/ BuildClear \/ BuildLock \/ BuildPush
  \/ BuildDone \/ LoopSize \/ LoopTop \/ LoopWait \/ LoopTest \/ LoopPush
  \/ LoopPop \/ LoopAfter \/ MainSleep

(* A crash ends the process. *)
Next ==
  /\ mpc # "crash"
  /\ \/ Natives \/ StopLoop \/ StartFrame
     \/ StopAll \/ StopAllRest
     \/ Main
     \/ Tick

Spec == Init /\ [][Next]_vars

(***************************************************************************)
(* The main thread runs, the server produces frames and completes what a   *)
(* native, a frame or stop_all() began, and time passes.  No plugin has to *)
(* call a native.                                                          *)
(***************************************************************************)
Fairness ==
  /\ WF_vars(Main) /\ WF_vars(StartFrame) /\ WF_vars(StopLoop)
  /\ WF_vars(StopAllRest) /\ WF_vars(Tick)

FairSpec == Spec /\ Fairness

-----------------------------------------------------------------------------
Copy == [id : Timer, group_id : Groups, delay_sec : Nat, time : Nat,
         flags : Flags, repeat : Int, stray : BOOLEAN]

ListTypes ==
  /\ nums \in 0 .. MaxTimers /\ live \subseteq 1 .. nums
  /\ tm \in [1 .. nums -> Copy] /\ \A i \in 1 .. nums : tm[i].id = i
  /\ groups \subseteq Groups /\ executed \subseteq 1 .. nums

ThreadTypes ==
  /\ m_timer_queue \subseteq Copy /\ m_frames \subseteq Copy
  /\ mpc \in {"start", "while", "build_lock", "build_push", "build_done",
              "loop", "top", "wait", "test", "push", "pop", "after", "sleep",
              "exit", "crash"}
  /\ t \in Copy \cup {<<>>}
  /\ mpc \in {"wait", "test", "push", "pop"} => t \in Copy
  /\ gpc \in {"idle", "callback", "rearm", "rearmed", "remove", "stop_clear",
              "stop_remove", "stop_start", "join", "unloaded"}
  /\ ft \in Copy \cup {<<>>}
  /\ gpc \in {"callback", "rearm", "rearmed", "remove"} => ft \in Copy

StopTypes ==
  /\ stop_loop \in BOOLEAN /\ stop_timer \in BOOLEAN /\ stop_main \in BOOLEAN
  /\ signal \in BOOLEAN

HistoryTypes ==
  /\ now \in 0 .. MaxTime /\ wake \in Nat
  /\ fired \in [Timer -> Nat] /\ asked \in [Timer -> Nat]
  /\ done \subseteq Timer /\ changed \subseteq Timer
  /\ maps \in Nat /\ changes \in Nat

(* Every variable has its type; the list and the copies hold timers that   *)
(* add_timer created, and the threads hold a copy wherever the code uses   *)
(* one.                                                                    *)
TypeOK == ListTypes /\ ThreadTypes /\ StopTypes /\ HistoryTypes

(***************************************************************************)
(* Safety.                                                                 *)
(***************************************************************************)

(* main() (l.540-559) truncates the time it waits to milliseconds and does *)
(* not look at the clock again: whatever wakes it, a timer reaches the     *)
(* frames less than a millisecond before its time.                         *)
NotEarly == \A c \in m_frames : c.time < now + Millisecond

(* The copies that frame_forward() will still run. *)
Framed == {c.id : c \in m_frames} \cup
          {c.id : c \in {ft} \ {<<>>}}

(* rf_set_timer (natives_refsapi.cpp l.785) promises a callback: a timer   *)
(* in the list waits for the next build of the queue, or for a frame, or   *)
(* runs; executed = true never leaves it stranded, except while stop_all() *)
(* has emptied the frames and not yet the list.  A stray timer is lost     *)
(* from the start.                                                         *)
NotLost ==
  gpc # "stop_remove" =>
    {i \in executed \cap live : ~tm[i].stray} \subseteq Framed

(* l.552-560 with l.504: the main thread never puts a timer into the       *)
(* frames that is there already, or whose callback still runs.             *)
PushedOnce == mpc = "push" /\ t.id \in live => t.id \notin Framed

(* l.494-504: a timer that nobody changed, when it completes, has expired  *)
(* once, or as often as repeat says: the copies in the queue and in the    *)
(* frames never lag behind the list.                                       *)
RepeatExact ==
  \A i \in done \ changed :
    fired[i] = IF "REPEAT" \in tm[i].flags /\ asked[i] > 1 THEN asked[i] ELSE 1

(***************************************************************************)
(* Liveness.                                                               *)
(***************************************************************************)

(* The list changed and the main thread is past the build of its queue. *)
Signalled(i) ==
  /\ i \in live \ executed /\ tm[i].time <= MaxTime
  /\ stop_loop /\ ~stop_timer
  /\ mpc \in {"loop", "top", "wait", "test", "push", "pop", "after", "sleep"}

(* stop() (l.117) interrupts main() wherever it waits (l.545, l.571): the  *)
(* timer whose signal arrives outside build_queue() is put into the frames *)
(* when its time comes, unless it is removed before.                       *)
SignalledRuns ==
  \A i \in Timer :
    Signalled(i) ~> i \in executed \/ i \notin live

-----------------------------------------------------------------------------
(***************************************************************************)
(* What the repository says of the program and the code does not do.       *)
(***************************************************************************)

(* "native rf_set_timer(const Float:delay_s, ...)" (natives_refsapi.cpp    *)
(* l.785) and "Send signal" (l.119): a timer that is set expires or is     *)
(* removed.                                                                *)
TimerFires == \A i \in Timer : i \in live ~> fired[i] > 0 \/ i \notin live

(* "Remove timers" (l.219), inside stop_all(): the timers of the map that  *)
(* ends are removed.                                                       *)
StopAllRemoves == gpc = "stop_clear" ~> gpc = "stop_start"

=============================================================================
