-------------------------- MODULE TimerMngr_proofs --------------------------
(***************************************************************************)
(* Proofs about the timers, for every number of timers, groups, delays,    *)
(* flags, repeat counts and map changes.                                   *)
(*                                                                         *)
(* The argument: a timer of the list is in at most one place.  Its copy is *)
(* in the queue only while executed is false, and in the frames or in      *)
(* frame_forward() only while executed is true; so only the main thread    *)
(* can move it forward, only frame_forward() can set it free again, and    *)
(* neither ever works with an outdated copy of a timer nobody changed.     *)
(***************************************************************************)
EXTENDS TimerMngr, TLAPS

(* frame_forward() works on the copy ft. *)
Forwarding == gpc \in {"callback", "rearm", "rearmed", "remove"}

(* ft is empty otherwise. *)
ForwardFacts == ~Forwarding => ft = <<>>

(* The wait ends less than a millisecond before the copy expires, and an   *)
(* interrupted wait is told from an expired one.                           *)
WaitFacts ==
  /\ mpc = "wait" => t.time < wake + Millisecond
  /\ mpc = "test" => t.time < now + Millisecond \/ stop_loop \/ stop_timer
  /\ mpc = "push" => t.time < now + Millisecond

(* The copy c is the timer as the list has it, unless the timer was changed. *)
Current(c) == c.id \notin changed => tm[c.id] = c

(* The queue holds one copy of a timer, which waits, and the main thread   *)
(* works on one of them; the last copy is popped after it was handed over. *)
QueueFacts ==
  /\ mpc \in {"build_lock", "build_push"} => m_timer_queue = {}
  /\ \A c \in m_timer_queue :
       /\ c.id <= nums
       /\ \A d \in m_timer_queue : c.id = d.id => c = d
       /\ mpc # "crash" /\ c.id \in live =>
            \/ c.id \notin executed /\ Current(c)
            \/ mpc = "pop" /\ c = t
  /\ mpc \in {"wait", "test", "push", "pop"} =>
       t.id <= nums /\ (t \in m_timer_queue \/ m_timer_queue = {})
  /\ mpc \in {"wait", "test", "push"} /\ t.id \in live =>
       t.id \notin executed /\ Current(t)

(* The frames hold one copy of a timer of the list, and none of the timer  *)
(* that frame_forward() runs; both are executed.                           *)
FrameFacts ==
  /\ \A c \in m_frames :
       /\ c.id <= nums
       /\ c.id \in live =>
            /\ c.id \in executed /\ Current(c)
            /\ \A d \in m_frames : c.id = d.id => c = d
  /\ Forwarding => ft.id <= nums
  /\ Forwarding /\ ft.id \in live =>
       /\ ft.id \in executed
       /\ gpc \in {"callback", "rearm"} => Current(ft)
       /\ \A c \in m_frames : c.id # ft.id

(* The expiry that frame_forward() has begun and not yet counted. *)
Ahead(i) == gpc \in {"callback", "rearm", "remove"} /\ ft.id = i

(* The repetitions of a timer that nobody changed are counted, in the list *)
(* while it lives and in the history once it is done.                      *)
CountFacts(i) ==
  /\ i > nums => fired[i] = 0 /\ i \notin done /\ i \notin changed
  /\ i \in live /\ i \notin changed =>
       LET ahead == IF Ahead(i) THEN 1 ELSE 0
           f     == tm[i].flags
           r     == tm[i].repeat
       IN  /\ "REPEAT" \in f => r + fired[i] = asked[i] + ahead
           /\ "REPEAT" \in f /\ "LOOP" \notin f =>
                r = asked[i] \/ (1 <= r /\ r <= asked[i])
           /\ "REPEAT" \notin f /\ "LOOP" \notin f => fired[i] = ahead
  /\ i \in done /\ i \notin changed =>
       /\ i \in live => gpc = "remove" /\ ft.id = i
       /\ fired[i] = IF "REPEAT" \in tm[i].flags /\ asked[i] > 1
                     THEN asked[i] ELSE 1

(* The inductive invariant of the natives, frame_forward(), stop_all() and *)
(* main() taken together.                                                  *)
TInv ==
  /\ ForwardFacts /\ WaitFacts /\ NotEarly /\ QueueFacts /\ FrameFacts
  /\ NotLost /\ \A i \in Timer : CountFacts(i)

(* The fields of a copy; a copy is not the empty one. *)
LEMMA CopyFields ==
  ASSUME NEW c \in Copy
  PROVE  /\ c # <<>> /\ c.id \in Timer /\ c.group_id \in Groups
         /\ c.delay_sec \in Nat /\ c.time \in Nat /\ c.flags \in Flags
         /\ c.repeat \in Int
BY DEF Copy

(* A whole number of milliseconds is a whole number of ticks. *)
LEMMA Ticks ==
  ASSUME NEW d \in Nat
  PROVE  d * Millisecond \in Nat
<1>1. \A a, b \in Nat : a * b \in Nat
  OBVIOUS
<1>2. QED
  BY <1>1, TimerAssumption

(* duration_cast (l.542) takes off less than a millisecond. *)
LEMMA TruncatedBound ==
  ASSUME NEW d \in Nat
  PROVE  /\ Truncated(d) \in Nat
         /\ d < Truncated(d) + Millisecond
<1>1. \A m \in Nat \ {0} : /\ (d \div m) \in Nat
                          /\ d < (d \div m) * m + m
  OBVIOUS
<1>2. (d \div Millisecond) \in Nat /\ d < (d \div Millisecond) * Millisecond + Millisecond
  BY <1>1, TimerAssumption
<1>3. (d \div Millisecond) * Millisecond \in Nat
  BY <1>2, Ticks
<1>4. QED
  BY <1>2, <1>3 DEF Truncated

(* rf_change_timer_id changes one timer and leaves the others alone. *)
LEMMA ChangedList ==
  ASSUME ListTypes, NEW k \in Timer, ChangeTimer(k), NEW i \in 1 .. nums
  PROVE  /\ tm'[i] \in Copy /\ tm'[i].id = i /\ tm'[i].stray = tm[i].stray
         /\ i # k => tm'[i] = tm[i]
<1>1. tm[i] \in Copy /\ tm[i].id = i /\ k \in 1 .. nums
  BY DEF ListTypes, ChangeTimer
<1>2. PICK d \in Delays, fl \in Flags \cup {{}}, r \in Repeats \cup {0} :
        tm' = [tm EXCEPT ![k] =
                [tm[k] EXCEPT !.delay_sec = d,
                              !.flags = IF fl = {} THEN tm[k].flags ELSE fl,
                              !.repeat = IF r = 0 THEN tm[k].repeat ELSE r]]
  BY DEF ChangeTimer
<1>3. CASE i = k
  <2>1. tm'[i] = [tm[i] EXCEPT !.delay_sec = d,
                               !.flags = IF fl = {} THEN tm[i].flags ELSE fl,
                               !.repeat = IF r = 0 THEN tm[i].repeat ELSE r]
    BY <1>1, <1>2, <1>3 DEF ListTypes
  <2>2. d \in Nat /\ r \in Int
    BY TimerAssumption
  <2>3. QED
    BY <1>1, <1>3, <2>1, <2>2 DEF Copy
<1>4. CASE i # k
  BY <1>1, <1>2, <1>4 DEF ListTypes
<1>5. QED
  BY <1>3, <1>4

(* frame_forward() gives the timer that it ran a new time and a new count  *)
(* and leaves the others alone.                                            *)
LEMMA RearmedList ==
  ASSUME ListTypes, ThreadTypes, HistoryTypes, RearmTime, NEW i \in 1 .. nums
  PROVE  /\ tm'[i] \in Copy /\ tm'[i].id = i /\ tm'[i].flags = tm[i].flags
         /\ tm'[i].stray = tm[i].stray
         /\ ~(i = ft.id /\ i \in live) => tm'[i] = tm[i]
         /\ i = ft.id /\ i \in live => tm'[i].repeat = NewRepeat(i)
<1>1. tm[i] \in Copy /\ tm[i].id = i /\ ft \in Copy /\ now \in Nat
  <2>1. tm[i] \in Copy /\ tm[i].id = i
    BY DEF ListTypes
  <2>2. ft \in Copy
    BY DEF ThreadTypes, RearmTime
  <2>3. now \in Nat
    BY TimerAssumption DEF HistoryTypes
  <2>4. QED
    BY <2>1, <2>2, <2>3
<1>2. CASE i = ft.id /\ i \in live
  <2>1. /\ tm[i].time \in Nat /\ tm[i].repeat \in Int /\ ft.delay_sec \in Nat
    BY <1>1, CopyFields
  <2>2. NewTime(i) \in Nat /\ NewRepeat(i) \in Int
    <3>1. ft.delay_sec * Millisecond \in Nat
      BY <2>1, Ticks
    <3>2. QED
      BY <1>1, <2>1, <3>1 DEF NewTime, NewRepeat
  <2>3. tm'[i] = [tm[i] EXCEPT !.time = NewTime(i), !.repeat = NewRepeat(i)]
    BY <1>2 DEF RearmTime
  <2>4. QED
    BY <1>1, <1>2, <2>2, <2>3 DEF Copy
<1>3. CASE ~(i = ft.id /\ i \in live)
  BY <1>1, <1>3 DEF RearmTime
<1>4. QED
  BY <1>2, <1>3

(* A step keeps the types of the list. *)
LEMMA ListTypesStep ==
  ASSUME ListTypes, ThreadTypes, HistoryTypes, Next
  PROVE  ListTypes'
<1> USE TimerAssumption DEF ListTypes, Goto, list, stopf, hist, main, game
<1>1. CASE Natives
  <2>1. CASE AddTimer
    <3>1. PICK g \in Groups, d \in Delays, fl \in Flags, r \in Repeats,
                e \in InitExecuted :
            /\ tm' = [i \in 1 .. nums' |->
                        IF i = nums'
                        THEN [id |-> i, group_id |-> g, delay_sec |-> d,
                              time |-> now + d * Millisecond, flags |-> fl,
                              repeat |-> r, stray |-> e]
                        ELSE tm[i]]
            /\ groups' = groups \cup {g}
            /\ executed' = IF e THEN executed \cup {nums'} ELSE executed
      BY <2>1 DEF AddTimer
    <3>2. /\ nums' = nums + 1 /\ nums \in Nat /\ nums' \in 0 .. MaxTimers
          /\ nums' \in Timer /\ live' = live \cup {nums'}
      BY <2>1 DEF AddTimer, Timer
    <3>3. [id |-> nums', group_id |-> g, delay_sec |-> d,
           time |-> now + d * Millisecond, flags |-> fl, repeat |-> r,
           stray |-> e] \in Copy
      <4>1. now + d * Millisecond \in Nat
        BY Ticks DEF HistoryTypes
      <4>2. QED
        BY <3>2, <4>1 DEF Copy
    <3>4. \A i \in 1 .. nums' : i # nums' => i \in 1 .. nums
      BY <3>2
    <3>5. tm' \in [1 .. nums' -> Copy] /\ \A i \in 1 .. nums' : tm'[i].id = i
      BY <3>1, <3>2, <3>3, <3>4
    <3>6. live' \subseteq 1 .. nums' /\ executed' \subseteq 1 .. nums'
      BY <3>1, <3>2
    <3>7. QED
      BY <3>1, <3>2, <3>5, <3>6
  <2>2. ASSUME NEW g \in Groups, RemoveTimers(g)
       PROVE  ListTypes'
    BY <2>2 DEF RemoveTimers
  <2>3. ASSUME NEW gs \in SUBSET Groups, OnClientDisconnected(gs)
       PROVE  ListTypes'
    BY <2>3 DEF OnClientDisconnected
  <2>4. ASSUME NEW i \in Timer, RemoveTimerById(i)
       PROVE  ListTypes'
    BY <2>4 DEF RemoveTimerById
  <2>5. ASSUME NEW i \in Timer, ChangeTimer(i)
       PROVE  ListTypes'
    <3>1. /\ UNCHANGED <<nums, live, groups, executed>>
          /\ DOMAIN tm' = 1 .. nums /\ tm' = [j \in 1 .. nums |-> tm'[j]]
      BY <2>5 DEF ChangeTimer
    <3>2. \A j \in 1 .. nums : tm'[j] \in Copy /\ tm'[j].id = j
      BY <2>5, ChangedList DEF Timer
    <3>3. QED
      BY <3>1, <3>2
  <2>6. QED
    BY <1>1, <2>1, <2>2, <2>3, <2>4, <2>5 DEF Natives
<1>2. CASE StopLoop
  BY <1>2 DEF StopLoop
<1>3. CASE StartFrame
  <2>1. CASE FrameForward
    BY <2>1 DEF FrameForward, IsTop
  <2>2. CASE CallbackReturn
    BY <2>2 DEF CallbackReturn
  <2>3. CASE RearmEnds
    BY <2>3 DEF RearmEnds
  <2>4. CASE RearmTime
    <3>1. /\ UNCHANGED <<nums, live, groups, executed>>
          /\ DOMAIN tm' = 1 .. nums /\ tm' = [j \in 1 .. nums |-> tm'[j]]
      BY <2>4 DEF RearmTime
    <3>2. \A j \in 1 .. nums : tm'[j] \in Copy /\ tm'[j].id = j
      BY <2>4, RearmedList
    <3>3. QED
      BY <3>1, <3>2
  <2>5. CASE RearmExecuted
    BY <2>5 DEF RearmExecuted
  <2>6. CASE RemoveForwarded
    BY <2>6 DEF RemoveForwarded
  <2>7. QED
    BY <1>3, <2>1, <2>2, <2>3, <2>4, <2>5, <2>6 DEF StartFrame
<1>4. CASE StopAll
  BY <1>4 DEF StopAll
<1>5. CASE StopAllRest
  BY <1>5 DEF StopAllRest, StopClear, StopRemove, StopStart, JoinMain
<1>6. CASE Main
  <2>1. CASE MainStart
    BY <2>1 DEF MainStart
  <2>2. CASE MainExit
    BY <2>2 DEF MainExit
  <2>3. CASE BuildClear
    BY <2>3 DEF BuildClear
  <2>4. CASE BuildLock
    BY <2>4 DEF BuildLock
  <2>5. CASE BuildPush
    BY <2>5 DEF BuildPush
  <2>6. CASE BuildDone
    BY <2>6 DEF BuildDone
  <2>7. CASE LoopSize
    BY <2>7 DEF LoopSize
  <2>8. CASE LoopTop
    BY <2>8 DEF LoopTop, IsTop
  <2>9. CASE LoopWait
    BY <2>9 DEF LoopWait
  <2>10. CASE LoopTest
    BY <2>10 DEF LoopTest
  <2>11. CASE LoopPush
    <3>1. \/ t.id \in live /\ executed' = executed \cup {t.id}
          \/ executed' = executed
      BY <2>11 DEF LoopPush
    <3>2. UNCHANGED <<nums, live, tm, groups>>
      BY <2>11 DEF LoopPush
    <3>3. executed' \subseteq 1 .. nums
      BY <3>1
    <3>4. QED
      BY <3>2, <3>3
  <2>12. CASE LoopPop
    BY <2>12 DEF LoopPop
  <2>13. CASE LoopAfter
    BY <2>13 DEF LoopAfter
  <2>14. CASE MainSleep
    BY <2>14 DEF MainSleep
  <2>15. QED
    BY <1>6, <2>1, <2>2, <2>3, <2>4, <2>5, <2>6, <2>7, <2>8, <2>9, <2>10,
       <2>11, <2>12, <2>13, <2>14 DEF Main
<1>7. CASE Tick
  BY <1>7 DEF Tick
<1>8. QED
  BY <1>1, <1>2, <1>3, <1>4, <1>5, <1>6, <1>7 DEF Next

(* A step keeps the types of what the two threads work on. *)
LEMMA ThreadTypesStep ==
  ASSUME ListTypes, ThreadTypes, Next
  PROVE  ThreadTypes'
<1> USE DEF ThreadTypes, Goto, list, stopf, hist, main, game
<1>1. CASE Natives
  <2>1. CASE AddTimer
    BY <2>1 DEF AddTimer
  <2>2. ASSUME NEW g \in Groups, RemoveTimers(g)
       PROVE  ThreadTypes'
    BY <2>2 DEF RemoveTimers
  <2>3. ASSUME NEW gs \in SUBSET Groups, OnClientDisconnected(gs)
       PROVE  ThreadTypes'
    BY <2>3 DEF OnClientDisconnected
  <2>4. ASSUME NEW i \in Timer, RemoveTimerById(i)
       PROVE  ThreadTypes'
    BY <2>4 DEF RemoveTimerById
  <2>5. ASSUME NEW i \in Timer, ChangeTimer(i)
       PROVE  ThreadTypes'
    BY <2>5 DEF ChangeTimer
  <2>6. QED
    BY <1>1, <2>1, <2>2, <2>3, <2>4, <2>5 DEF Natives
<1>2. CASE StopLoop
  BY <1>2 DEF StopLoop
<1>3. CASE StartFrame
  <2>1. CASE FrameForward
    BY <2>1 DEF FrameForward, IsTop
  <2>2. CASE CallbackReturn
    BY <2>2 DEF CallbackReturn
  <2>3. CASE RearmEnds
    BY <2>3 DEF RearmEnds
  <2>4. CASE RearmTime
    BY <2>4 DEF RearmTime
  <2>5. CASE RearmExecuted
    BY <2>5 DEF RearmExecuted
  <2>6. CASE RemoveForwarded
    BY <2>6 DEF RemoveForwarded
  <2>7. QED
    BY <1>3, <2>1, <2>2, <2>3, <2>4, <2>5, <2>6 DEF StartFrame
<1>4. CASE StopAll
  BY <1>4 DEF StopAll
<1>5. CASE StopAllRest
  <2>1. CASE StopClear
    BY <2>1 DEF StopClear
  <2>2. CASE StopRemove
    BY <2>2 DEF StopRemove
  <2>3. CASE StopStart
    BY <2>3 DEF StopStart
  <2>4. CASE JoinMain
    BY <2>4 DEF JoinMain
  <2>5. QED
    BY <1>5, <2>1, <2>2, <2>3, <2>4 DEF StopAllRest
<1>6. CASE Main
  <2>1. CASE MainStart
    BY <2>1 DEF MainStart
  <2>2. CASE MainExit
    BY <2>2 DEF MainExit
  <2>3. CASE BuildClear
    BY <2>3 DEF BuildClear
  <2>4. CASE BuildLock
    BY <2>4 DEF BuildLock
  <2>5. CASE BuildPush
    BY <2>5 DEF BuildPush, ListTypes
  <2>6. CASE BuildDone
    BY <2>6 DEF BuildDone
  <2>7. CASE LoopSize
    BY <2>7 DEF LoopSize
  <2>8. CASE LoopTop
    BY <2>8 DEF LoopTop, IsTop
  <2>9. CASE LoopWait
    BY <2>9 DEF LoopWait
  <2>10. CASE LoopTest
    BY <2>10 DEF LoopTest
  <2>11. CASE LoopPush
    BY <2>11 DEF LoopPush
  <2>12. CASE LoopPop
    BY <2>12 DEF LoopPop
  <2>13. CASE LoopAfter
    BY <2>13 DEF LoopAfter
  <2>14. CASE MainSleep
    BY <2>14 DEF MainSleep
  <2>15. QED
    BY <1>6, <2>1, <2>2, <2>3, <2>4, <2>5, <2>6, <2>7, <2>8, <2>9, <2>10,
       <2>11, <2>12, <2>13, <2>14 DEF Main
<1>7. CASE Tick
  BY <1>7 DEF Tick
<1>8. QED
  BY <1>1, <1>2, <1>3, <1>4, <1>5, <1>6, <1>7 DEF Next

(* The flags stay booleans. *)
LEMMA StopTypesStep ==
  ASSUME StopTypes, Next
  PROVE  StopTypes'
<1> USE DEF StopTypes, Goto, list, stopf, hist, main, game
<1>1. CASE Natives
  <2>1. CASE AddTimer
    BY <2>1 DEF AddTimer
  <2>2. ASSUME NEW g \in Groups, RemoveTimers(g)
       PROVE  StopTypes'
    BY <2>2 DEF RemoveTimers
  <2>3. ASSUME NEW gs \in SUBSET Groups, OnClientDisconnected(gs)
       PROVE  StopTypes'
    BY <2>3 DEF OnClientDisconnected
  <2>4. ASSUME NEW i \in Timer, RemoveTimerById(i)
       PROVE  StopTypes'
    BY <2>4 DEF RemoveTimerById
  <2>5. ASSUME NEW i \in Timer, ChangeTimer(i)
       PROVE  StopTypes'
    BY <2>5 DEF ChangeTimer
  <2>6. QED
    BY <1>1, <2>1, <2>2, <2>3, <2>4, <2>5 DEF Natives
<1>2. CASE StopLoop
  BY <1>2 DEF StopLoop
<1>3. CASE StartFrame
  <2>1. CASE FrameForward
    BY <2>1 DEF FrameForward
  <2>2. CASE CallbackReturn
    BY <2>2 DEF CallbackReturn
  <2>3. CASE RearmEnds
    BY <2>3 DEF RearmEnds
  <2>4. CASE RearmTime
    BY <2>4 DEF RearmTime
  <2>5. CASE RearmExecuted
    BY <2>5 DEF RearmExecuted
  <2>6. CASE RemoveForwarded
    BY <2>6 DEF RemoveForwarded
  <2>7. QED
    BY <1>3, <2>1, <2>2, <2>3, <2>4, <2>5, <2>6 DEF StartFrame
<1>4. CASE StopAll
  BY <1>4 DEF StopAll
<1>5. CASE StopAllRest
  <2>1. CASE StopClear
    BY <2>1 DEF StopClear
  <2>2. CASE StopRemove
    BY <2>2 DEF StopRemove
  <2>3. CASE StopStart
    BY <2>3 DEF StopStart
  <2>4. CASE JoinMain
    BY <2>4 DEF JoinMain
  <2>5. QED
    BY <1>5, <2>1, <2>2, <2>3, <2>4 DEF StopAllRest
<1>6. CASE Main
  <2>1. CASE MainStart
    BY <2>1 DEF MainStart
  <2>2. CASE MainExit
    BY <2>2 DEF MainExit
  <2>3. CASE BuildClear
    BY <2>3 DEF BuildClear
  <2>4. CASE BuildLock
    BY <2>4 DEF BuildLock
  <2>5. CASE BuildPush
    BY <2>5 DEF BuildPush
  <2>6. CASE BuildDone
    BY <2>6 DEF BuildDone
  <2>7. CASE LoopSize
    BY <2>7 DEF LoopSize
  <2>8. CASE LoopTop
    BY <2>8 DEF LoopTop
  <2>9. CASE LoopWait
    BY <2>9 DEF LoopWait
  <2>10. CASE LoopTest
    BY <2>10 DEF LoopTest
  <2>11. CASE LoopPush
    BY <2>11 DEF LoopPush
  <2>12. CASE LoopPop
    BY <2>12 DEF LoopPop
  <2>13. CASE LoopAfter
    BY <2>13 DEF LoopAfter
  <2>14. CASE MainSleep
    BY <2>14 DEF MainSleep
  <2>15. QED
    BY <1>6, <2>1, <2>2, <2>3, <2>4, <2>5, <2>6, <2>7, <2>8, <2>9, <2>10,
       <2>11, <2>12, <2>13, <2>14 DEF Main
<1>7. CASE Tick
  BY <1>7 DEF Tick
<1>8. QED
  BY <1>1, <1>2, <1>3, <1>4, <1>5, <1>6, <1>7 DEF Next

(* A step keeps the types of the clock and of the history. *)
LEMMA HistoryTypesStep ==
  ASSUME ListTypes, ThreadTypes, HistoryTypes, Next
  PROVE  HistoryTypes'
<1> USE TimerAssumption, CopyFields DEF HistoryTypes, Goto, list, stopf, hist,
       main, game
<1>1. CASE Natives
  <2>1. CASE AddTimer
    <3>1. PICK r \in Repeats : asked' = [asked EXCEPT ![nums'] = r]
      BY <2>1 DEF AddTimer
    <3>2. asked' \in [Timer -> Nat]
      BY <3>1
    <3>3. QED
      BY <2>1, <3>2 DEF AddTimer
  <2>2. ASSUME NEW g \in Groups, RemoveTimers(g)
       PROVE  HistoryTypes'
    BY <2>2 DEF RemoveTimers
  <2>3. ASSUME NEW gs \in SUBSET Groups, OnClientDisconnected(gs)
       PROVE  HistoryTypes'
    BY <2>3 DEF OnClientDisconnected
  <2>4. ASSUME NEW i \in Timer, RemoveTimerById(i)
       PROVE  HistoryTypes'
    BY <2>4 DEF RemoveTimerById
  <2>5. ASSUME NEW i \in Timer, ChangeTimer(i)
       PROVE  HistoryTypes'
    BY <2>5 DEF ChangeTimer
  <2>6. QED
    BY <1>1, <2>1, <2>2, <2>3, <2>4, <2>5 DEF Natives
<1>2. CASE StopLoop
  BY <1>2 DEF StopLoop
<1>3. CASE StartFrame
  <2>1. CASE FrameForward
    <3>1. PICK c \in m_frames :
            \/ fired' = [fired EXCEPT ![c.id] = @ + 1]
            \/ fired' = fired
      BY <2>1 DEF FrameForward
    <3>2. c \in Copy
      BY ONLY c \in m_frames, ThreadTypes DEF ThreadTypes
    <3>3. c.id \in Timer
      BY ONLY <3>2, CopyFields
    <3>4. fired \in [Timer -> Nat]
      OBVIOUS
    <3>5. fired' \in [Timer -> Nat]
      BY ONLY <3>1, <3>3, <3>4
    <3>6. /\ now' = now /\ asked' = asked /\ done' = done
          /\ changed' = changed /\ maps' = maps /\ changes' = changes
          /\ wake' = wake
      BY <2>1 DEF FrameForward
    <3>7. QED
      BY ONLY <3>5, <3>6, HistoryTypes DEF HistoryTypes
  <2>2. CASE CallbackReturn
    BY <2>2 DEF CallbackReturn
  <2>3. CASE RearmEnds
    <3>1. ft \in Copy
      BY <2>3 DEF RearmEnds, ThreadTypes
    <3>2. ft.id \in Timer
      BY ONLY <3>1, CopyFields
    <3>3. QED
      BY <2>3, <3>2 DEF RearmEnds
  <2>4. CASE RearmTime
    BY <2>4 DEF RearmTime
  <2>5. CASE RearmExecuted
    BY <2>5 DEF RearmExecuted
  <2>6. CASE RemoveForwarded
    BY <2>6 DEF RemoveForwarded
  <2>7. QED
    BY <1>3, <2>1, <2>2, <2>3, <2>4, <2>5, <2>6 DEF StartFrame
<1>4. CASE StopAll
  BY <1>4 DEF StopAll
<1>5. CASE StopAllRest
  BY <1>5 DEF StopAllRest, StopClear, StopRemove, StopStart, JoinMain
<1>6. CASE Main
  <2>1. UNCHANGED <<now, fired, asked, done, changed, maps, changes>>
    BY <1>6 DEF Main, MainStart, MainExit, BuildClear, BuildLock, BuildPush,
       BuildDone, LoopSize, LoopTop, LoopWait, LoopTest, LoopPush, LoopPop,
       LoopAfter, MainSleep
  <2>2. wake' \in Nat
    <3>1. CASE LoopTop
      <4>1. /\ now \in Nat
            /\ \A c \in m_timer_queue : c.time \in Nat
        BY DEF ThreadTypes
      <4>2. ASSUME NEW c \in m_timer_queue, c.time > now
            PROVE  now + Truncated(c.time - now) \in Nat
        <5>1. c.time - now \in Nat
          BY <4>1, <4>2
        <5>2. Truncated(c.time - now) \in Nat
          BY <5>1, TruncatedBound
        <5>3. QED
          BY <4>1, <5>2
      <4>3. QED
        BY <3>1, <4>2 DEF LoopTop
    <3>2. CASE ~LoopTop
      BY <1>6, <3>2 DEF Main, MainStart, MainExit, BuildClear, BuildLock,
         BuildPush, BuildDone, LoopSize, LoopWait, LoopTest, LoopPush, LoopPop,
         LoopAfter, MainSleep
    <3>3. QED
      BY <3>1, <3>2
  <2>3. QED
    BY <2>1, <2>2
<1>7. CASE Tick
  BY <1>7 DEF Tick
<1>8. QED
  BY <1>1, <1>2, <1>3, <1>4, <1>5, <1>6, <1>7 DEF Next

(* Every variable keeps its type: the two threads hold a copy of a timer   *)
(* wherever main() and frame_forward() use one.                            *)
THEOREM TypeCorrect == Spec => []TypeOK
<1>1. Init => TypeOK
  <2> SUFFICES ASSUME Init PROVE TypeOK
    OBVIOUS
  <2>1. ListTypes
    BY TimerAssumption DEF Init, ListTypes
  <2>2. ThreadTypes
    BY DEF Init, ThreadTypes
  <2>3. StopTypes
    BY Zenon DEF Init, StopTypes
  <2>4. HistoryTypes
    BY TimerAssumption DEF Init, HistoryTypes
  <2>5. QED
    BY <2>1, <2>2, <2>3, <2>4 DEF TypeOK
<1>2. TypeOK /\ [Next]_vars => TypeOK'
  <2> SUFFICES ASSUME TypeOK, [Next]_vars PROVE TypeOK'
    OBVIOUS
  <2>1. CASE Next
    BY <2>1, ListTypesStep, ThreadTypesStep, StopTypesStep, HistoryTypesStep
       DEF TypeOK
  <2>2. CASE UNCHANGED vars
    BY <2>2 DEF TypeOK, ListTypes, ThreadTypes, StopTypes, HistoryTypes, vars,
       list, stopf, hist, main, game
  <2>3. QED
    BY <2>1, <2>2
<1>3. QED
  BY <1>1, <1>2, PTL DEF Spec

(* What add_timer does to the list: a new timer, which is stray if executed *)
(* happens to be true, and nothing else.                                   *)
LEMMA AddedList ==
  ASSUME ListTypes, HistoryTypes, AddTimer
  PROVE  /\ nums' = nums + 1 /\ live' = live \cup {nums'} /\ nums' \in Timer
         /\ \A i \in 1 .. nums : tm'[i] = tm[i]
         /\ \A i \in 1 .. nums : i \in executed' <=> i \in executed
         /\ nums' \in executed' => tm'[nums'].stray
         /\ asked' = [asked EXCEPT ![nums'] = tm'[nums'].repeat]
<1>1. PICK g \in Groups, d \in Delays, fl \in Flags, r \in Repeats,
           e \in InitExecuted :
        /\ now + d * Millisecond <= MaxTime
        /\ tm' = [i \in 1 .. nums' |->
                    IF i = nums'
                    THEN [id |-> i, group_id |-> g, delay_sec |-> d,
                          time |-> now + d * Millisecond, flags |-> fl,
                          repeat |-> r, stray |-> e]
                    ELSE tm[i]]
        /\ groups' = groups \cup {g}
        /\ executed' = IF e THEN executed \cup {nums'} ELSE executed
        /\ asked' = [asked EXCEPT ![nums'] = r]
  BY DEF AddTimer
<1>2. nums' = nums + 1 /\ live' = live \cup {nums'} /\ nums' \in Timer /\ nums \in Nat
  BY TimerAssumption DEF AddTimer, ListTypes, Timer
<1>3. \A i \in 1 .. nums : i \in 1 .. nums' /\ i # nums'
  BY <1>2
<1>4. \A i \in 1 .. nums : tm'[i] = tm[i]
  BY <1>1, <1>3
<1>5. \A i \in 1 .. nums : i \in executed' <=> i \in executed
  BY <1>1, <1>3
<1>6. tm'[nums'].stray = e /\ tm'[nums'].repeat = r
  BY <1>1, <1>2
<1>7. nums' \in executed' => e
  BY <1>1, <1>2 DEF ListTypes
<1>8. QED
  BY <1>1, <1>2, <1>4, <1>5, <1>6, <1>7

(* Outside frame_forward() there is no copy to work on. *)
LEMMA ForwardFactsStep ==
  ASSUME ForwardFacts, Next
  PROVE  ForwardFacts'
<1> USE DEF ForwardFacts, Forwarding, Goto, list, stopf, hist, main, game
<1>1. CASE Natives
  <2>1. CASE AddTimer
    BY <2>1 DEF AddTimer
  <2>2. ASSUME NEW g \in Groups, RemoveTimers(g)
       PROVE  ForwardFacts'
    BY <2>2 DEF RemoveTimers
  <2>3. ASSUME NEW gs \in SUBSET Groups, OnClientDisconnected(gs)
       PROVE  ForwardFacts'
    BY <2>3 DEF OnClientDisconnected
  <2>4. ASSUME NEW i \in Timer, RemoveTimerById(i)
       PROVE  ForwardFacts'
    BY <2>4 DEF RemoveTimerById
  <2>5. ASSUME NEW i \in Timer, ChangeTimer(i)
       PROVE  ForwardFacts'
    BY <2>5 DEF ChangeTimer
  <2>6. QED
    BY <1>1, <2>1, <2>2, <2>3, <2>4, <2>5 DEF Natives
<1>2. CASE StopLoop
  BY <1>2 DEF StopLoop
<1>3. CASE StartFrame
  <2>1. CASE FrameForward
    BY <2>1 DEF FrameForward
  <2>2. CASE CallbackReturn
    BY <2>2 DEF CallbackReturn
  <2>3. CASE RearmEnds
    BY <2>3 DEF RearmEnds
  <2>4. CASE RearmTime
    BY <2>4 DEF RearmTime
  <2>5. CASE RearmExecuted
    BY <2>5 DEF RearmExecuted
  <2>6. CASE RemoveForwarded
    BY <2>6 DEF RemoveForwarded
  <2>7. QED
    BY <1>3, <2>1, <2>2, <2>3, <2>4, <2>5, <2>6 DEF StartFrame
<1>4. CASE StopAll
  BY <1>4 DEF StopAll
<1>5. CASE StopAllRest
  <2>1. CASE StopClear
    BY <2>1 DEF StopClear
  <2>2. CASE StopRemove
    BY <2>2 DEF StopRemove
  <2>3. CASE StopStart
    BY <2>3 DEF StopStart
  <2>4. CASE JoinMain
    BY <2>4 DEF JoinMain
  <2>5. QED
    BY <1>5, <2>1, <2>2, <2>3, <2>4 DEF StopAllRest
<1>6. CASE Main
  <2>1. CASE MainStart
    BY <2>1 DEF MainStart
  <2>2. CASE MainExit
    BY <2>2 DEF MainExit
  <2>3. CASE BuildClear
    BY <2>3 DEF BuildClear
  <2>4. CASE BuildLock
    BY <2>4 DEF BuildLock
  <2>5. CASE BuildPush
    BY <2>5 DEF BuildPush
  <2>6. CASE BuildDone
    BY <2>6 DEF BuildDone
  <2>7. CASE LoopSize
    BY <2>7 DEF LoopSize
  <2>8. CASE LoopTop
    BY <2>8 DEF LoopTop
  <2>9. CASE LoopWait
    BY <2>9 DEF LoopWait
  <2>10. CASE LoopTest
    BY <2>10 DEF LoopTest
  <2>11. CASE LoopPush
    BY <2>11 DEF LoopPush
  <2>12. CASE LoopPop
    BY <2>12 DEF LoopPop
  <2>13. CASE LoopAfter
    BY <2>13 DEF LoopAfter
  <2>14. CASE MainSleep
    BY <2>14 DEF MainSleep
  <2>15. QED
    BY <1>6, <2>1, <2>2, <2>3, <2>4, <2>5, <2>6, <2>7, <2>8, <2>9, <2>10,
       <2>11, <2>12, <2>13, <2>14 DEF Main
<1>7. CASE Tick
  BY <1>7 DEF Tick
<1>8. QED
  BY <1>1, <1>2, <1>3, <1>4, <1>5, <1>6, <1>7 DEF Next

(* A copy reaches the frames less than a millisecond before its time. *)
LEMMA WaitFactsStep ==
  ASSUME TypeOK, WaitFacts, NotEarly, Next
  PROVE  WaitFacts' /\ NotEarly'
<1>0. /\ now \in Nat /\ wake \in Nat /\ Millisecond \in Nat \ {0}
      /\ \A c \in m_timer_queue \cup m_frames : c.time \in Nat
      /\ mpc \in {"wait", "test", "push", "pop"} => t.time \in Nat
  BY CopyFields, TimerAssumption DEF TypeOK, ThreadTypes, HistoryTypes
<1> USE DEF WaitFacts, NotEarly, Goto, list, stopf, hist, main, game
<1>1. CASE Natives
  <2>1. CASE AddTimer
    BY <2>1 DEF AddTimer
  <2>2. ASSUME NEW g \in Groups, RemoveTimers(g)
       PROVE  WaitFacts' /\ NotEarly'
    BY <2>2 DEF RemoveTimers
  <2>3. ASSUME NEW gs \in SUBSET Groups, OnClientDisconnected(gs)
       PROVE  WaitFacts' /\ NotEarly'
    BY <2>3 DEF OnClientDisconnected
  <2>4. ASSUME NEW i \in Timer, RemoveTimerById(i)
       PROVE  WaitFacts' /\ NotEarly'
    BY <2>4 DEF RemoveTimerById
  <2>5. ASSUME NEW i \in Timer, ChangeTimer(i)
       PROVE  WaitFacts' /\ NotEarly'
    BY <2>5 DEF ChangeTimer
  <2>6. QED
    BY <1>1, <2>1, <2>2, <2>3, <2>4, <2>5 DEF Natives
<1>2. CASE StopLoop
  BY <1>2 DEF StopLoop
<1>3. CASE StartFrame
  <2>1. CASE FrameForward
    BY <2>1 DEF FrameForward
  <2>2. CASE CallbackReturn
    BY <2>2 DEF CallbackReturn
  <2>3. CASE RearmEnds
    BY <2>3 DEF RearmEnds
  <2>4. CASE RearmTime
    BY <2>4 DEF RearmTime
  <2>5. CASE RearmExecuted
    BY <2>5 DEF RearmExecuted
  <2>6. CASE RemoveForwarded
    BY <2>6 DEF RemoveForwarded
  <2>7. QED
    BY <1>3, <2>1, <2>2, <2>3, <2>4, <2>5, <2>6 DEF StartFrame
<1>4. CASE StopAll
  BY <1>4 DEF StopAll
<1>5. CASE StopAllRest
  <2>1. CASE StopClear
    BY <2>1 DEF StopClear
  <2>2. CASE StopRemove
    BY <2>2 DEF StopRemove
  <2>3. CASE StopStart
    BY <2>3 DEF StopStart
  <2>4. CASE JoinMain
    BY <2>4 DEF JoinMain
  <2>5. QED
    BY <1>5, <2>1, <2>2, <2>3, <2>4 DEF StopAllRest
<1>6. CASE Main
  <2>1. CASE MainStart
    BY <2>1 DEF MainStart
  <2>2. CASE MainExit
    BY <2>2 DEF MainExit
  <2>3. CASE BuildClear
    BY <2>3 DEF BuildClear
  <2>4. CASE BuildLock
    BY <2>4 DEF BuildLock
  <2>5. CASE BuildPush
    BY <2>5 DEF BuildPush
  <2>6. CASE BuildDone
    BY <2>6 DEF BuildDone
  <2>7. CASE LoopSize
    BY <2>7 DEF LoopSize
  <2>8. CASE LoopTop
    <3>1. CASE m_timer_queue = {}
      BY <2>8, <3>1 DEF LoopTop
    <3>2. UNCHANGED <<m_frames, now>>
      BY <2>8 DEF LoopTop
    <3>3. ASSUME NEW c \in m_timer_queue, t' = c, c.time > now, mpc' = "wait",
                 wake' = now + Truncated(c.time - now)
          PROVE  WaitFacts' /\ NotEarly'
      <4>1. /\ Truncated(c.time - now) \in Nat
            /\ c.time - now < Truncated(c.time - now) + Millisecond
        BY <1>0, <3>3, TruncatedBound
      <4>2. c.time < wake' + Millisecond
        BY <1>0, <3>3, <4>1
      <4>3. QED
        BY <3>2, <3>3, <4>2
    <3>4. ASSUME NEW c \in m_timer_queue, t' = c, ~(c.time > now), mpc' = "test"
          PROVE  WaitFacts' /\ NotEarly'
      BY <1>0, <3>2, <3>4
    <3>5. QED
      BY <2>8, <3>1, <3>3, <3>4 DEF LoopTop
  <2>9. CASE LoopWait
    BY <1>0, <2>9 DEF LoopWait
  <2>10. CASE LoopTest
    BY <2>10 DEF LoopTest
  <2>11. CASE LoopPush
    BY <2>11 DEF LoopPush
  <2>12. CASE LoopPop
    BY <2>12 DEF LoopPop
  <2>13. CASE LoopAfter
    BY <2>13 DEF LoopAfter
  <2>14. CASE MainSleep
    BY <2>14 DEF MainSleep
  <2>15. QED
    BY <1>6, <2>1, <2>2, <2>3, <2>4, <2>5, <2>6, <2>7, <2>8, <2>9, <2>10,
       <2>11, <2>12, <2>13, <2>14 DEF Main
<1>7. CASE Tick
  BY <1>0, <1>7 DEF Tick
<1>8. QED
  BY <1>1, <1>2, <1>3, <1>4, <1>5, <1>6, <1>7 DEF Next

(* A timer that was handed to the frames stays on its way. *)
LEMMA NotLostStep ==
  ASSUME TypeOK, ForwardFacts, NotLost, Next
  PROVE  NotLost'
<1>0. /\ nums \in Nat /\ live \subseteq 1 .. nums /\ executed \subseteq 1 .. nums
      /\ \A c \in m_timer_queue \cup m_frames : c.id \in Timer
      /\ mpc \in {"wait", "test", "push", "pop"} => t.id \in Timer
      /\ Forwarding => ft.id \in Timer
  BY CopyFields DEF TypeOK, ListTypes, ThreadTypes, Forwarding
<1> USE DEF NotLost, Framed, ForwardFacts, Forwarding, Goto, list, stopf, hist,
       main, game
<1>1. CASE Natives
  <2>1. CASE AddTimer
    <3>1. /\ live' = live \cup {nums'} /\ nums' = nums + 1
          /\ nums' \in executed' => tm'[nums'].stray
          /\ \A i \in 1 .. nums : tm'[i] = tm[i] /\ (i \in executed' <=> i \in executed)
      BY <2>1, AddedList DEF TypeOK
    <3>2. UNCHANGED <<m_frames, ft, gpc>>
      BY <2>1 DEF AddTimer
    <3>3. ASSUME NEW i \in executed', i \in live', ~tm'[i].stray
          PROVE  i \in executed /\ i \in live /\ ~tm[i].stray
      BY <1>0, <3>1, <3>3
    <3>4. QED
      BY <3>2, <3>3
  <2>2. ASSUME NEW g \in Groups, RemoveTimers(g)
       PROVE  NotLost'
    BY <2>2 DEF RemoveTimers
  <2>3. ASSUME NEW gs \in SUBSET Groups, OnClientDisconnected(gs)
       PROVE  NotLost'
    BY <2>3 DEF OnClientDisconnected
  <2>4. ASSUME NEW i \in Timer, RemoveTimerById(i)
       PROVE  NotLost'
    BY <2>4 DEF RemoveTimerById
  <2>5. ASSUME NEW i \in Timer, ChangeTimer(i)
       PROVE  NotLost'
    <3>1. \A j \in 1 .. nums : tm'[j].stray = tm[j].stray
      BY <2>5, ChangedList DEF TypeOK
    <3>2. UNCHANGED <<executed, live, m_frames, ft>> /\ gpc # "stop_remove"
      BY <2>5 DEF ChangeTimer, InPlugin
    <3>3. QED
      BY <1>0, <3>1, <3>2
  <2>6. QED
    BY <1>1, <2>1, <2>2, <2>3, <2>4, <2>5 DEF Natives
<1>2. CASE StopLoop
  BY <1>2 DEF StopLoop
<1>3. CASE StartFrame
  <2>1. CASE FrameForward
    <3>1. PICK c \in m_frames :
            /\ m_frames' = m_frames \ {c}
            /\ IF c.id \in live THEN ft' = c ELSE UNCHANGED ft
      BY <2>1 DEF FrameForward
    <3>2. c # <<>> /\ ft = <<>>
      BY <2>1, CopyFields DEF FrameForward, TypeOK, ThreadTypes
    <3>3. UNCHANGED <<executed, live, tm>> /\ gpc = "idle"
      BY <2>1 DEF FrameForward
    <3>4. QED
      BY <3>1, <3>2, <3>3
  <2>2. CASE CallbackReturn
    BY <2>2 DEF CallbackReturn
  <2>3. CASE RearmEnds
    BY <2>3 DEF RearmEnds
  <2>4. CASE RearmTime
    <3>1. \A j \in 1 .. nums : tm'[j].stray = tm[j].stray
      BY <2>4, RearmedList DEF TypeOK
    <3>2. UNCHANGED <<executed, live, m_frames, ft>> /\ gpc # "stop_remove"
      BY <2>4 DEF RearmTime
    <3>3. QED
      BY <1>0, <3>1, <3>2
  <2>5. CASE RearmExecuted
    BY <2>5 DEF RearmExecuted
  <2>6. CASE RemoveForwarded
    BY <2>6 DEF RemoveForwarded
  <2>7. QED
    BY <1>3, <2>1, <2>2, <2>3, <2>4, <2>5, <2>6 DEF StartFrame
<1>4. CASE StopAll
  BY <1>4 DEF StopAll
<1>5. CASE StopAllRest
  <2>1. CASE StopClear
    BY <2>1 DEF StopClear
  <2>2. CASE StopRemove
    BY <2>2 DEF StopRemove
  <2>3. CASE StopStart
    BY <2>3 DEF StopStart
  <2>4. CASE JoinMain
    BY <2>4 DEF JoinMain
  <2>5. QED
    BY <1>5, <2>1, <2>2, <2>3, <2>4 DEF StopAllRest
<1>6. CASE Main
  <2>1. CASE MainStart
    BY <2>1 DEF MainStart
  <2>2. CASE MainExit
    BY <2>2 DEF MainExit
  <2>3. CASE BuildClear
    BY <2>3 DEF BuildClear
  <2>4. CASE BuildLock
    BY <2>4 DEF BuildLock
  <2>5. CASE BuildPush
    BY <2>5 DEF BuildPush
  <2>6. CASE BuildDone
    BY <2>6 DEF BuildDone
  <2>7. CASE LoopSize
    BY <2>7 DEF LoopSize
  <2>8. CASE LoopTop
    BY <2>8 DEF LoopTop
  <2>9. CASE LoopWait
    BY <2>9 DEF LoopWait
  <2>10. CASE LoopTest
    BY <2>10 DEF LoopTest
  <2>11. CASE LoopPush
    BY <2>11 DEF LoopPush
  <2>12. CASE LoopPop
    BY <2>12 DEF LoopPop
  <2>13. CASE LoopAfter
    BY <2>13 DEF LoopAfter
  <2>14. CASE MainSleep
    BY <2>14 DEF MainSleep
  <2>15. QED
    BY <1>6, <2>1, <2>2, <2>3, <2>4, <2>5, <2>6, <2>7, <2>8, <2>9, <2>10,
       <2>11, <2>12, <2>13, <2>14 DEF Main
<1>7. CASE Tick
  BY <1>7 DEF Tick
<1>8. QED
  BY <1>1, <1>2, <1>3, <1>4, <1>5, <1>6, <1>7 DEF Next

(* A step keeps what is known of the queue. *)
LEMMA QueueFactsStep ==
  ASSUME TypeOK, QueueFacts, FrameFacts, Next
  PROVE  QueueFacts'
<1>0. /\ nums \in Nat /\ live \subseteq 1 .. nums /\ executed \subseteq 1 .. nums
      /\ \A c \in m_timer_queue \cup m_frames : c.id \in Timer
      /\ mpc \in {"wait", "test", "push", "pop"} => t.id \in Timer
      /\ Forwarding => ft.id \in Timer
  BY CopyFields DEF TypeOK, ListTypes, ThreadTypes, Forwarding
<1> USE <1>0 DEF QueueFacts, Current, Timer, Goto, list, stopf, hist, main,
       game
<1>1. CASE Natives
  <2>1. CASE AddTimer
    BY <2>1 DEF AddTimer, TypeOK, ListTypes
  <2>2. ASSUME NEW g \in Groups, RemoveTimers(g)
       PROVE  QueueFacts'
    BY <2>2 DEF RemoveTimers
  <2>3. ASSUME NEW gs \in SUBSET Groups, OnClientDisconnected(gs)
       PROVE  QueueFacts'
    BY <2>3 DEF OnClientDisconnected
  <2>4. ASSUME NEW i \in Timer, RemoveTimerById(i)
       PROVE  QueueFacts'
    BY <2>4 DEF RemoveTimerById
  <2>5. ASSUME NEW i \in Timer, ChangeTimer(i)
       PROVE  QueueFacts'
    <3>1. \A j \in 1 .. nums : j \notin changed' => tm'[j] = tm[j] /\ j \notin changed
      <4>1. changed' = changed \cup {i}
        BY <2>5 DEF ChangeTimer
      <4>2. \A j \in 1 .. nums : j # i => tm'[j] = tm[j]
        BY <2>5, ChangedList DEF TypeOK
      <4>3. QED
        BY <4>1, <4>2
    <3>2. QED
      BY <2>5, <3>1 DEF ChangeTimer
  <2>6. QED
    BY <1>1, <2>1, <2>2, <2>3, <2>4, <2>5 DEF Natives
<1>2. CASE StopLoop
  BY <1>2 DEF StopLoop
<1>3. CASE StartFrame
  <2>1. CASE FrameForward
    BY <2>1 DEF FrameForward
  <2>2. CASE CallbackReturn
    BY <2>2 DEF CallbackReturn
  <2>3. CASE RearmEnds
    BY <2>3 DEF RearmEnds
  <2>4. CASE RearmTime
    BY <2>4 DEF RearmTime, FrameFacts, Forwarding
  <2>5. CASE RearmExecuted
    BY <2>5 DEF RearmExecuted
  <2>6. CASE RemoveForwarded
    BY <2>6 DEF RemoveForwarded
  <2>7. QED
    BY <1>3, <2>1, <2>2, <2>3, <2>4, <2>5, <2>6 DEF StartFrame
<1>4. CASE StopAll
  BY <1>4 DEF StopAll
<1>5. CASE StopAllRest
  <2>1. CASE StopClear
    BY <2>1 DEF StopClear
  <2>2. CASE StopRemove
    BY <2>2 DEF StopRemove
  <2>3. CASE StopStart
    BY <2>3 DEF StopStart
  <2>4. CASE JoinMain
    BY <2>4 DEF JoinMain
  <2>5. QED
    BY <1>5, <2>1, <2>2, <2>3, <2>4 DEF StopAllRest
<1>6. CASE Main
  <2>1. CASE MainStart
    BY <2>1 DEF MainStart
  <2>2. CASE MainExit
    BY <2>2 DEF MainExit
  <2>3. CASE BuildClear
    BY <2>3 DEF BuildClear
  <2>4. CASE BuildLock
    BY <2>4 DEF BuildLock
  <2>5. CASE BuildPush
    <3>1. m_timer_queue' = {tm[i] : i \in live \ executed}
      BY <2>5 DEF BuildPush
    <3>2. \A i \in live : tm[i].id = i
      BY DEF TypeOK, ListTypes
    <3>3. /\ mpc' = "build_done"
          /\ UNCHANGED <<live, executed, changed, tm, nums>>
      BY <2>5 DEF BuildPush
    <3>4. QED
      BY <3>1, <3>2, <3>3
  <2>6. CASE BuildDone
    BY <2>6 DEF BuildDone
  <2>7. CASE LoopSize
    BY <2>7 DEF LoopSize
  <2>8. CASE LoopTop
    BY <2>8 DEF LoopTop, IsTop
  <2>9. CASE LoopWait
    BY <2>9 DEF LoopWait
  <2>10. CASE LoopTest
    BY <2>10 DEF LoopTest
  <2>11. CASE LoopPush
    BY <2>11 DEF LoopPush
  <2>12. CASE LoopPop
    BY <2>12 DEF LoopPop
  <2>13. CASE LoopAfter
    BY <2>13 DEF LoopAfter
  <2>14. CASE MainSleep
    BY <2>14 DEF MainSleep
  <2>15. QED
    BY <1>6, <2>1, <2>2, <2>3, <2>4, <2>5, <2>6, <2>7, <2>8, <2>9, <2>10,
       <2>11, <2>12, <2>13, <2>14 DEF Main
<1>7. CASE Tick
  BY <1>7 DEF Tick
<1>8. QED
  BY <1>1, <1>2, <1>3, <1>4, <1>5, <1>6, <1>7 DEF Next

(* A step keeps what is known of the frames. *)
LEMMA FrameFactsStep ==
  ASSUME TypeOK, ForwardFacts, QueueFacts, FrameFacts, Next
  PROVE  FrameFacts'
<1>0. /\ nums \in Nat /\ live \subseteq 1 .. nums /\ executed \subseteq 1 .. nums
      /\ \A c \in m_timer_queue \cup m_frames : c.id \in Timer
      /\ mpc \in {"wait", "test", "push", "pop"} => t.id \in Timer
      /\ Forwarding => ft.id \in Timer
  BY CopyFields DEF TypeOK, ListTypes, ThreadTypes, Forwarding
<1> USE <1>0 DEF FrameFacts, Forwarding, Current, Timer, Goto, list, stopf,
       hist, main, game
<1>1. CASE Natives
  <2>1. CASE AddTimer
    BY <2>1 DEF AddTimer
  <2>2. ASSUME NEW g \in Groups, RemoveTimers(g)
       PROVE  FrameFacts'
    BY <2>2 DEF RemoveTimers
  <2>3. ASSUME NEW gs \in SUBSET Groups, OnClientDisconnected(gs)
       PROVE  FrameFacts'
    BY <2>3 DEF OnClientDisconnected
  <2>4. ASSUME NEW i \in Timer, RemoveTimerById(i)
       PROVE  FrameFacts'
    BY <2>4 DEF RemoveTimerById
  <2>5. ASSUME NEW i \in Timer, ChangeTimer(i)
       PROVE  FrameFacts'
    <3>1. \A j \in 1 .. nums : j \notin changed' => tm'[j] = tm[j] /\ j \notin changed
      <4>1. changed' = changed \cup {i}
        BY <2>5 DEF ChangeTimer
      <4>2. \A j \in 1 .. nums : j # i => tm'[j] = tm[j]
        BY <2>5, ChangedList DEF TypeOK
      <4>3. QED
        BY <4>1, <4>2
    <3>2. QED
      BY <2>5, <3>1 DEF ChangeTimer
  <2>6. QED
    BY <1>1, <2>1, <2>2, <2>3, <2>4, <2>5 DEF Natives
<1>2. CASE StopLoop
  BY <1>2 DEF StopLoop
<1>3. CASE StartFrame
  <2>1. CASE FrameForward
    BY <2>1 DEF FrameForward
  <2>2. CASE CallbackReturn
    BY <2>2 DEF CallbackReturn
  <2>3. CASE RearmEnds
    BY <2>3 DEF RearmEnds
  <2>4. CASE RearmTime
    BY <2>4 DEF RearmTime
  <2>5. CASE RearmExecuted
    BY <2>5 DEF RearmExecuted
  <2>6. CASE RemoveForwarded
    BY <2>6 DEF RemoveForwarded
  <2>7. QED
    BY <1>3, <2>1, <2>2, <2>3, <2>4, <2>5, <2>6 DEF StartFrame
<1>4. CASE StopAll
  BY <1>4 DEF StopAll
<1>5. CASE StopAllRest
  <2>1. CASE StopClear
    BY <2>1 DEF StopClear
  <2>2. CASE StopRemove
    BY <2>2 DEF StopRemove
  <2>3. CASE StopStart
    BY <2>3 DEF StopStart
  <2>4. CASE JoinMain
    BY <2>4 DEF JoinMain
  <2>5. QED
    BY <1>5, <2>1, <2>2, <2>3, <2>4 DEF StopAllRest
<1>6. CASE Main
  <2>1. CASE MainStart
    BY <2>1 DEF MainStart
  <2>2. CASE MainExit
    BY <2>2 DEF MainExit
  <2>3. CASE BuildClear
    BY <2>3 DEF BuildClear
  <2>4. CASE BuildLock
    BY <2>4 DEF BuildLock
  <2>5. CASE BuildPush
    BY <2>5 DEF BuildPush
  <2>6. CASE BuildDone
    BY <2>6 DEF BuildDone
  <2>7. CASE LoopSize
    BY <2>7 DEF LoopSize
  <2>8. CASE LoopTop
    BY <2>8 DEF LoopTop
  <2>9. CASE LoopWait
    BY <2>9 DEF LoopWait
  <2>10. CASE LoopTest
    BY <2>10 DEF LoopTest
  <2>11. CASE LoopPush
    BY <2>11 DEF LoopPush, QueueFacts
  <2>12. CASE LoopPop
    BY <2>12 DEF LoopPop
  <2>13. CASE LoopAfter
    BY <2>13 DEF LoopAfter
  <2>14. CASE MainSleep
    BY <2>14 DEF MainSleep
  <2>15. QED
    BY <1>6, <2>1, <2>2, <2>3, <2>4, <2>5, <2>6, <2>7, <2>8, <2>9, <2>10,
       <2>11, <2>12, <2>13, <2>14 DEF Main
<1>7. CASE Tick
  BY <1>7 DEF Tick
<1>8. QED
  BY <1>1, <1>2, <1>3, <1>4, <1>5, <1>6, <1>7 DEF Next

(* A step keeps the account of the repetitions of a timer k. *)
LEMMA CountFactsStep ==
  ASSUME TypeOK, ForwardFacts, FrameFacts, NEW k \in Timer, CountFacts(k), Next
  PROVE  CountFacts(k)'
<1>0. /\ nums \in Nat /\ live \subseteq 1 .. nums
      /\ fired \in [Timer -> Nat] /\ asked \in [Timer -> Nat]
      /\ Forwarding => ft.id \in Timer
      /\ k <= nums => /\ k \in 1 .. nums /\ tm[k] \in Copy /\ tm[k].repeat \in Int
  BY CopyFields DEF TypeOK, ListTypes, ThreadTypes, HistoryTypes, Forwarding, Timer
<1> USE <1>0 DEF CountFacts, Ahead, Forwarding, Timer, Goto, list, stopf, hist,
       main, game
<1>1. CASE Natives
  <2>1. CASE AddTimer
    <3>1. /\ UNCHANGED <<gpc, ft, fired, done, changed>> /\ nums' = nums + 1
          /\ live' = live \cup {nums'} /\ nums' \in Timer
          /\ gpc \in {"idle", "callback"}
          /\ \A i \in 1 .. nums : tm'[i] = tm[i]
          /\ asked' = [asked EXCEPT ![nums'] = tm'[nums'].repeat]
      BY <2>1, AddedList DEF TypeOK, AddTimer, InPlugin
    <3>2. CASE k = nums'
      <4>1. k > nums /\ fired[k] = 0 /\ k \notin done /\ k \notin changed
        BY <3>1, <3>2
      <4>2. asked'[k] = tm'[k].repeat /\ tm'[k].repeat \in Int
        <5>1. tm'[k] \in Copy
          BY <3>1, <3>2, <2>1, ListTypesStep DEF TypeOK, Natives, Next, ListTypes
        <5>2. QED
          BY <3>1, <3>2, <5>1, CopyFields
      <4>3. ~Ahead(k)'
        BY <3>1, <4>1 DEF FrameFacts
      <4>4. QED
        BY <3>1, <3>2, <4>1, <4>2, <4>3
    <3>3. CASE k # nums'
      <4>1. k <= nums => asked'[k] = asked[k] /\ tm'[k] = tm[k]
        BY <3>1, <3>3
      <4>2. (k > nums' => k > nums) /\ (k \in live' <=> k \in live)
        BY <3>1, <3>3
      <4>3. k <= nums \/ k > nums'
        BY <3>1, <3>3
      <4>4. QED
        BY <3>1, <4>1, <4>2, <4>3
    <3>4. QED
      BY <3>2, <3>3
  <2>2. ASSUME NEW g \in Groups, RemoveTimers(g)
       PROVE  CountFacts(k)'
    BY <2>2 DEF RemoveTimers
  <2>3. ASSUME NEW gs \in SUBSET Groups, OnClientDisconnected(gs)
       PROVE  CountFacts(k)'
    BY <2>3 DEF OnClientDisconnected
  <2>4. ASSUME NEW i \in Timer, RemoveTimerById(i)
       PROVE  CountFacts(k)'
    BY <2>4 DEF RemoveTimerById
  <2>5. ASSUME NEW i \in Timer, ChangeTimer(i)
       PROVE  CountFacts(k)'
    BY <2>5 DEF ChangeTimer
  <2>6. QED
    BY <1>1, <2>1, <2>2, <2>3, <2>4, <2>5 DEF Natives
<1>2. CASE StopLoop
  BY <1>2 DEF StopLoop
<1>3. CASE StartFrame
  <2>1. CASE FrameForward
    <3>1. PICK c \in m_frames :
            IF c.id \in live
            THEN /\ ft' = c /\ fired' = [fired EXCEPT ![c.id] = @ + 1]
                 /\ gpc' \in {"callback", "rearm"}
            ELSE UNCHANGED <<gpc, ft, fired>>
      BY <2>1 DEF FrameForward
    <3>2. gpc = "idle" /\ UNCHANGED <<nums, live, tm, asked, done, changed>>
      BY <2>1 DEF FrameForward
    <3>3. c.id \in Timer
      BY CopyFields DEF TypeOK, ThreadTypes
    <3>4. CASE c.id \in live /\ c.id = k
      <4>1. fired'[k] = fired[k] + 1 /\ Ahead(k)' /\ ~Ahead(k)
        BY <3>1, <3>2, <3>3, <3>4
      <4>2. QED
        BY <3>2, <3>4, <4>1
    <3>5. CASE c.id \in live /\ c.id # k
      <4>1. fired'[k] = fired[k] /\ ~Ahead(k)' /\ ~Ahead(k)
        BY <3>1, <3>2, <3>3, <3>5
      <4>2. QED
        BY <3>2, <3>5, <4>1
    <3>6. CASE c.id \notin live
      BY <3>1, <3>2, <3>6
    <3>7. QED
      BY <3>4, <3>5, <3>6
  <2>2. CASE CallbackReturn
    BY <2>2 DEF CallbackReturn
  <2>3. CASE RearmEnds
    BY <2>3 DEF RearmEnds, FrameFacts, Current, MayRepeat
  <2>4. CASE RearmTime
    <3>1. /\ gpc = "rearm" /\ gpc' = "rearmed" /\ MayRepeat(ft)
          /\ UNCHANGED <<nums, live, ft, fired, asked, done, changed>>
      BY <2>4 DEF RearmTime
    <3>2. k <= nums => /\ tm'[k].flags = tm[k].flags
                       /\ ~(k = ft.id /\ k \in live) => tm'[k] = tm[k]
                       /\ k = ft.id /\ k \in live => tm'[k].repeat = NewRepeat(k)
      BY <2>4, RearmedList DEF TypeOK
    <3>3. CASE k = ft.id /\ k \in live /\ k \notin changed
      <4>1. tm[k] = ft /\ Ahead(k) /\ ~Ahead(k)' /\ k <= nums
        BY <3>1, <3>3 DEF FrameFacts, Current
      <4>2. "LOOP" \in tm[k].flags \/ ("REPEAT" \in tm[k].flags /\ tm[k].repeat > 1)
        BY <3>1, <4>1 DEF MayRepeat
      <4>3. "REPEAT" \in tm[k].flags => tm'[k].repeat = tm[k].repeat - 1
        BY <3>2, <3>3, <4>1 DEF NewRepeat
      <4>4. k \notin done
        BY <3>1, <3>3
      <4>5. "REPEAT" \in tm[k].flags => tm'[k].repeat + fired[k] = asked[k]
        BY <3>3, <4>1, <4>3
      <4>6. "REPEAT" \in tm[k].flags /\ "LOOP" \notin tm[k].flags =>
              1 <= tm'[k].repeat /\ tm'[k].repeat <= asked[k]
        BY <3>3, <4>1, <4>2, <4>3
      <4>7. tm'[k].flags = tm[k].flags /\ ~(k > nums)
        BY <3>2, <4>1
      <4>8. QED
        BY <3>1, <4>1, <4>2, <4>4, <4>5, <4>6, <4>7
    <3>4. CASE ~(k = ft.id /\ k \in live /\ k \notin changed)
      <4>1. k \in live /\ k \notin changed => ~Ahead(k) /\ ~Ahead(k)' /\ tm'[k] = tm[k]
        BY <3>1, <3>2, <3>4
      <4>2. k \in done /\ k \notin changed => k \notin live /\ k <= nums
        BY <3>1
      <4>3. QED
        BY <3>1, <3>2, <4>1, <4>2
    <3>5. QED
      BY <3>3, <3>4
  <2>5. CASE RearmExecuted
    BY <2>5 DEF RearmExecuted
  <2>6. CASE RemoveForwarded
    BY <2>6 DEF RemoveForwarded
  <2>7. QED
    BY <1>3, <2>1, <2>2, <2>3, <2>4, <2>5, <2>6 DEF StartFrame
<1>4. CASE StopAll
  BY <1>4 DEF StopAll
<1>5. CASE StopAllRest
  <2>1. CASE StopClear
    BY <2>1 DEF StopClear
  <2>2. CASE StopRemove
    BY <2>2 DEF StopRemove
  <2>3. CASE StopStart
    BY <2>3 DEF StopStart
  <2>4. CASE JoinMain
    BY <2>4 DEF JoinMain
  <2>5. QED
    BY <1>5, <2>1, <2>2, <2>3, <2>4 DEF StopAllRest
<1>6. CASE Main
  <2>1. UNCHANGED <<nums, live, tm, gpc, ft, fired, asked, done, changed>>
    BY <1>6 DEF Main, MainStart, MainExit, BuildClear, BuildLock, BuildPush,
       BuildDone, LoopSize, LoopTop, LoopWait, LoopTest, LoopPush, LoopPop,
       LoopAfter, MainSleep
  <2>2. QED
    BY <2>1
<1>7. CASE Tick
  BY <1>7 DEF Tick
<1>8. QED
  BY <1>1, <1>2, <1>3, <1>4, <1>5, <1>6, <1>7 DEF Next

(* The invariant of the timers holds at every step of both threads. *)
THEOREM Inductive == Spec => [](TypeOK /\ TInv)
<1>1. Init => TInv
  <2> SUFFICES ASSUME Init PROVE TInv
    OBVIOUS
  <2>1. ForwardFacts /\ WaitFacts /\ NotEarly /\ NotLost
    BY DEF Init, ForwardFacts, WaitFacts, NotEarly, NotLost
  <2>2. QueueFacts /\ FrameFacts
    BY DEF Init, QueueFacts, FrameFacts, Forwarding
  <2>3. \A i \in Timer : CountFacts(i)
    BY DEF Init, CountFacts
  <2>4. QED
    BY <2>1, <2>2, <2>3 DEF TInv
<1>2. TypeOK /\ TInv /\ [Next]_vars => TInv'
  <2> SUFFICES ASSUME TypeOK, TInv, [Next]_vars PROVE TInv'
    OBVIOUS
  <2>1. CASE Next
    <3>1. ForwardFacts' /\ WaitFacts' /\ NotEarly' /\ NotLost'
      BY <2>1, ForwardFactsStep, WaitFactsStep, NotLostStep DEF TInv
    <3>2. QueueFacts' /\ FrameFacts'
      BY <2>1, QueueFactsStep, FrameFactsStep DEF TInv
    <3>3. \A k \in Timer : CountFacts(k)'
      BY <2>1, CountFactsStep DEF TInv
    <3>4. QED
      BY <3>1, <3>2, <3>3 DEF TInv, Timer
  <2>2. CASE UNCHANGED vars
    <3> USE <2>2 DEF vars, list, stopf, hist, main, game
    <3>1. ForwardFacts' /\ WaitFacts' /\ NotEarly' /\ NotLost'
      BY DEF TInv, ForwardFacts, Forwarding, WaitFacts, NotEarly, NotLost, Framed
    <3>2. QueueFacts'
      BY DEF TInv, QueueFacts, Current
    <3>3. FrameFacts'
      BY DEF TInv, FrameFacts, Forwarding, Current
    <3>4. \A k \in Timer : CountFacts(k)'
      BY DEF TInv, CountFacts, Ahead
    <3>5. QED
      BY <3>1, <3>2, <3>3, <3>4 DEF TInv, Timer
  <2>3. QED
    BY <2>1, <2>2
<1>3. QED
  BY <1>1, <1>2, TypeCorrect, PTL DEF Spec

(* main() of refsapi_timer_mngr.h truncates its wait to milliseconds and   *)
(* does not look at the clock again (l.540-559): whatever wakes the main   *)
(* thread, a timer reaches the frames less than a millisecond before its   *)
(* time.                                                                   *)
THEOREM NeverEarly == Spec => []NotEarly
<1>1. TInv => NotEarly
  BY DEF TInv
<1>2. QED
  BY <1>1, Inductive, PTL

(* A timer that was handed to the frames is in the frames or runs, until   *)
(* it is armed again or leaves the list; only a stray timer is lost.       *)
THEOREM NeverLost == Spec => []NotLost
<1>1. TInv => NotLost
  BY DEF TInv
<1>2. QED
  BY <1>1, Inductive, PTL

(* The main thread never pushes a timer that the frames already hold or    *)
(* whose callback still runs.                                              *)
THEOREM NeverTwice == Spec => []PushedOnce
<1>1. TypeOK /\ TInv => PushedOnce
  <2> SUFFICES ASSUME TypeOK, TInv, mpc = "push", t.id \in live
               PROVE  t.id \notin Framed
    BY DEF PushedOnce
  <2>1. t.id \notin executed
    BY DEF TInv, QueueFacts
  <2>2. \A c \in m_frames : c.id # t.id
    BY <2>1 DEF TInv, FrameFacts
  <2>3. ft # <<>> => ft.id # t.id
    BY <2>1 DEF TInv, FrameFacts, ForwardFacts
  <2>4. QED
    BY <2>2, <2>3 DEF Framed
<1>2. QED
  BY <1>1, Inductive, PTL

(* A timer that nobody changed, when it completes, has expired once, or as *)
(* often as its repeat count says.                                         *)
THEOREM RepeatsExactly == Spec => []RepeatExact
<1>1. TypeOK /\ TInv => RepeatExact
  BY DEF TInv, CountFacts, RepeatExact, TypeOK, HistoryTypes
<1>2. QED
  BY <1>1, Inductive, PTL

=============================================================================
