--------------------------- MODULE CvarMngr_proofs ---------------------------
(***************************************************************************)
(* Proofs about the cvar manager, for every set of cvars, values, limits,  *)
(* plugin variables and hooks, and every depth of nested calls.            *)
(*                                                                         *)
(* The argument: a cvar that neither add() nor a call for it within        *)
(* another one disturbed is changed by at most one call on the stack.      *)
(* While that call runs, the engine's string is the value that it carries, *)
(* the variables have it, and so have the hooks that the loop has passed;  *)
(* otherwise the copy is the value and the engine has the same, or is      *)
(* about to be told.  What a step does to one cvar leaves the facts about  *)
(* every other one alone (Frame).                                          *)
(***************************************************************************)
EXTENDS CvarMngr, SequenceTheorems, TLAPS

-----------------------------------------------------------------------------
(* The stack of calls. *)

(* A call is of on_direct_set() or of config(). *)
Calls == Call \cup ConfigCall

(* The elements of a sequence. *)
LEMMA SeqElements ==
  ASSUME NEW S, NEW s \in Seq(S)
  PROVE  /\ Len(s) \in Nat /\ DOMAIN s = 1 .. Len(s)
         /\ \A i \in DOMAIN s : s[i] \in S
OBVIOUS

(* Front() is the stack without its top, element by element. *)
LEMMA FrontElements ==
  ASSUME NEW S, NEW s \in Seq(S), s # <<>>
  PROVE  /\ Len(s) \in Nat \ {0} /\ Last(s) = s[Len(s)] /\ Last(s) \in S
         /\ Front(s) \in Seq(S) /\ Len(Front(s)) = Len(s) - 1
         /\ DOMAIN Front(s) = 1 .. (Len(s) - 1)
         /\ \A i \in 1 .. (Len(s) - 1) : Front(s)[i] = s[i]
<1>1. Len(s) \in Nat \ {0}
  BY EmptySeq
<1>2. Last(s) = s[Len(s)] /\ Last(s) \in S
  BY <1>1 DEF Last
<1>3. Front(s) = SubSeq(s, 1, Len(s) - 1)
  BY DEF Front
<1>4. PICK n \in Int : n = Len(s) - 1
  BY <1>1
<1>5. \A i \in 1 .. n : s[i] \in S
  BY <1>1, <1>4
<1>6. /\ SubSeq(s, 1, n) \in Seq(S)
      /\ Len(SubSeq(s, 1, n)) = IF 1 <= n THEN n - 1 + 1 ELSE 0
      /\ \A i \in 1 .. n - 1 + 1 : SubSeq(s, 1, n)[i] = s[1 + i - 1]
  BY <1>4, <1>5, SubSeqProperties
<1>7. /\ Front(s) \in Seq(S) /\ Len(Front(s)) = Len(s) - 1
      /\ \A i \in 1 .. (Len(s) - 1) : Front(s)[i] = s[i]
  BY <1>1, <1>3, <1>4, <1>6
<1>8. QED
  BY <1>1, <1>2, <1>7

(* The top is replaced. *)
LEMMA TopReplaced ==
  ASSUME NEW S, NEW s \in Seq(S), s # <<>>, NEW r \in S
  PROVE  LET q == Append(Front(s), r) IN
         /\ q \in Seq(S) /\ Len(q) = Len(s) /\ q # <<>>
         /\ DOMAIN q = 1 .. Len(s) /\ Last(q) = r /\ q[Len(s)] = r
         /\ \A i \in 1 .. (Len(s) - 1) : q[i] = s[i]
<1>1. /\ Len(s) \in Nat \ {0} /\ Front(s) \in Seq(S)
      /\ Len(Front(s)) = Len(s) - 1
      /\ \A i \in 1 .. (Len(s) - 1) : Front(s)[i] = s[i]
  BY FrontElements
<1> DEFINE f == Front(s)
           q == Append(f, r)
<1>2. /\ q \in Seq(S) /\ Len(q) = Len(f) + 1 /\ q[Len(f) + 1] = r
      /\ DOMAIN q = 1 .. Len(q)
      /\ \A i \in 1 .. Len(f) : q[i] = f[i]
  BY <1>1
<1>3. q # <<>> /\ Last(q) = q[Len(q)]
  BY <1>1, <1>2 DEF Last
<1>4. QED
  BY <1>1, <1>2, <1>3

(* A call is pushed. *)
LEMMA TopPushed ==
  ASSUME NEW S, NEW s \in Seq(S), NEW r \in S
  PROVE  LET q == Append(s, r) IN
         /\ q \in Seq(S) /\ Len(q) = Len(s) + 1 /\ q # <<>>
         /\ DOMAIN q = 1 .. (Len(s) + 1) /\ Last(q) = r
         /\ q[Len(s) + 1] = r
         /\ \A i \in 1 .. Len(s) : q[i] = s[i]
<1> DEFINE q == Append(s, r)
<1>1. /\ Len(s) \in Nat /\ q \in Seq(S) /\ Len(q) = Len(s) + 1
      /\ q[Len(s) + 1] = r /\ DOMAIN q = 1 .. Len(q)
      /\ \A i \in 1 .. Len(s) : q[i] = s[i]
  OBVIOUS
<1>2. q # <<>> /\ Last(q) = q[Len(q)]
  BY <1>1 DEF Last
<1>3. QED
  BY <1>1, <1>2

-----------------------------------------------------------------------------
(* Values. *)

(* Truncation gives a whole number, and keeps one. *)
LEMMA TruncWhole ==
  ASSUME NEW n \in Int
  PROVE  Trunc(n) \in Int /\ (n % 2 = 0 => Trunc(n) = n)
BY DEF Trunc

(* What plugins, the console and files write is a string. *)
LEMMA InputStrings == Inputs \subseteq String
BY CvarAssumption DEF Inputs, Short, Float, Text, String

(* What a bound variable receives is a string. *)
LEMMA CopyString ==
  ASSUME NEW t \in Types, NEW s \in String
  PROVE  Copy(t, s) \in String
<1>1. s.num \in Int /\ Trunc(s.num) \in Int
  BY TruncWhole DEF String
<1>2. \A n \in Int : Short(n) \in String
  BY DEF Short, String
<1>3. t \in {"NUM", "FLT", "STR", "FLG"}
  BY CvarAssumption
<1>4. QED
  BY <1>1, <1>2, <1>3 DEF Copy

(* A value that check_range() sets is a string; with sound limits it is    *)
(* in range, unless it is the zero that replaces a text.                   *)
LEMMA FixedInRange ==
  ASSUME NEW c, NEW t, NEW s \in String, ~InRange(c, t, s),
         NEW x \in Fixed(c, t, s)
  PROVE  /\ x \in String
         /\ SoundLimits =>
              /\ x # s
              /\ InRange(c, t, x) \/ (s = Text /\ x = Short(0))
<1>1. CASE s = Text
  BY <1>1 DEF Fixed, Short, Text, String
<1>2. CASE s # Text
  <2>1. PICK form \in {"short", "float"}, limit \in {min_val, max_val} :
          /\ x = [kind |-> form, num |-> limit]
          /\ limit = IF BelowMin(c, t, s) THEN min_val ELSE max_val
    BY <1>2, CvarAssumption DEF Fixed
  <2>2. /\ limit \in Int /\ x # Text /\ x.num = limit
        /\ SoundLimits => NumberOf(t, x) = limit
    BY <2>1, TruncWhole, CvarAssumption DEF NumberOf, Text, SoundLimits
  <2>3. x \in String
    BY <2>1, <2>2 DEF String
  <2>4. SoundLimits => InRange(c, t, x)
    BY <2>1, <2>2, CvarAssumption DEF InRange, BelowMin, AboveMax, SoundLimits
  <2>5. QED
    BY <2>3, <2>4
<1>3. QED
  BY <1>1, <1>2

-----------------------------------------------------------------------------
(* Types. *)

(* The call at the top, by what it does. *)
LEMMA TopCall ==
  ASSUME CallTypes, stack # <<>>
  PROVE  /\ Len(stack) \in Nat \ {0} /\ Top = stack[Len(stack)]
         /\ DOMAIN stack = 1 .. Len(stack)
         /\ Top.op \in {"set", "loop", "hook", "config"}
         /\ Top.op = "set" => Top \in Call /\ Top.cvar \in registered
         /\ Top.op \in {"loop", "hook"} =>
              Top \in Call /\ Top.cvar \in known /\ Top.pos > 0
         /\ Top.op = "config" => Top \in ConfigCall
<1>1. /\ Len(stack) \in Nat \ {0} /\ Top = stack[Len(stack)]
      /\ Top \in Calls /\ DOMAIN stack = 1 .. Len(stack)
  BY FrontElements DEF Top, CallTypes, Calls
<1>2. Len(stack) \in DOMAIN stack
  BY <1>1
<1>3. QED
  BY <1>1, <1>2 DEF CallTypes, Calls, Call, ConfigCall

(* A call is for a cvar that the engine, or the manager, has. *)
CallOK(r) ==
  /\ r.op = "set" => r.cvar \in registered
  /\ r.op \in {"loop", "hook"} => r.cvar \in known /\ r.pos > 0

(* The conjunct of CallTypes about the stack. *)
StackOK == stack \in Seq(Calls) /\ \A i \in DOMAIN stack : CallOK(stack[i])

(* Cvars are not forgotten while a call is in progress. *)
Grows == registered \subseteq registered' /\ known \subseteq known'

(* The stack stays well typed when a call returns, ... *)
LEMMA PopOK ==
  ASSUME StackOK, stack # <<>>, Pop, Grows
  PROVE  StackOK'
BY FrontElements DEF StackOK, Pop, CallOK, Grows

(* ... goes on, ... *)
LEMMA ReplaceOK ==
  ASSUME StackOK, stack # <<>>, Grows, NEW r \in Calls, CallOK(r)',
         stack' = Append(Front(stack), r)
  PROVE  StackOK'
<1>1. /\ stack' \in Seq(Calls) /\ Len(stack) \in Nat \ {0}
      /\ DOMAIN stack' = 1 .. Len(stack) /\ stack'[Len(stack)] = r
      /\ \A i \in 1 .. (Len(stack) - 1) : stack'[i] = stack[i]
  BY TopReplaced, FrontElements DEF StackOK
<1>2. \A i \in DOMAIN stack : CallOK(stack[i])' \/ i = Len(stack)
  BY <1>1 DEF StackOK, CallOK, Grows
<1>3. QED
  BY <1>1, <1>2 DEF StackOK, CallOK

(* ... or begins. *)
LEMMA PushOK ==
  ASSUME StackOK, Grows, NEW r \in Calls, CallOK(r)',
         stack' = Append(stack, r)
  PROVE  StackOK'
<1>1. /\ stack' \in Seq(Calls) /\ Len(stack) \in Nat
      /\ DOMAIN stack' = 1 .. (Len(stack) + 1) /\ stack'[Len(stack) + 1] = r
      /\ DOMAIN stack = 1 .. Len(stack)
      /\ \A i \in 1 .. Len(stack) : stack'[i] = stack[i]
  BY TopPushed DEF StackOK
<1>2. \A i \in DOMAIN stack : CallOK(stack[i])'
  BY <1>1 DEF StackOK, CallOK, Grows
<1>3. QED
  BY <1>1, <1>2 DEF StackOK, CallOK

(* An unchanged stack stays well typed. *)
LEMMA KeepOK ==
  ASSUME StackOK, Grows, UNCHANGED stack
  PROVE  StackOK'
BY DEF StackOK, CallOK, Grows

(* Every value of the records that calls are made of. *)
LEMMA CallRecords ==
  ASSUME NEW c \in Cvars, NEW s \in String
  PROVE  SetCall(c, s) \in Call /\ SetCall(c, s) \in Calls
BY DEF SetCall, Call, Calls

(* What a call becomes. *)
Became(o, c, s, k) == [op |-> o, cvar |-> c, val |-> s, pos |-> k]

(* The records that on_direct_set() makes of the call at the top. *)
LEMMA CallBecomes ==
  ASSUME Top \in Call
  PROVE  /\ [Top EXCEPT !.op = "hook"] =
              Became("hook", Top.cvar, Top.val, Top.pos)
         /\ \A k : LoopAt(k) = Became("loop", Top.cvar, Top.val, k)
BY DEF Call, Became, LoopAt

(* The cvars keep their types. *)
LEMMA CvarTypesStep ==
  ASSUME TypeOK, Next
  PROVE  CvarTypes'
<1> USE DEF TypeOK, CvarTypes, m_cvars, lists
<1>1. CASE SetUnknown
  <2>1. Top \in Call /\ Top.cvar \in registered
    BY <1>1, TopCall DEF SetUnknown, Entering, Changing, TypeOK
  <2>2. QED
    BY <1>1, <2>1 DEF SetUnknown, Entering, Changing, Nested, Call
<1>2. CASE SetSame
  <2>1. Top \in Call /\ Top.cvar \in registered
    BY <1>2, TopCall DEF SetSame, Entering, Changing, TypeOK
  <2>2. QED
    BY <1>2, <2>1 DEF SetSame, Entering, Changing, Nested, Call
<1>3. CASE SetUnbound
  <2>1. Top \in Call /\ Top.cvar \in registered
    BY <1>3, TopCall DEF SetUnbound, Entering, Changing, TypeOK
  <2>2. QED
    BY <1>3, <2>1 DEF SetUnbound, Entering, Changing, Nested, Call
<1>4. CASE SetFixed
  <2>1. Top \in Call /\ Top.cvar \in registered
    BY <1>4, TopCall DEF SetFixed, Entering, Changing, TypeOK
  <2>2. QED
    BY <1>4, <2>1 DEF SetFixed, Entering, Changing, Nested, Call
<1>5. CASE SetChanged
  <2>1. Top \in Call /\ Top.cvar \in registered
    BY <1>5, TopCall DEF SetChanged, Entering, Changing, TypeOK
  <2>2. QED
    BY <1>5, <2>1 DEF SetChanged, Entering, Changing, Nested, Call
<1>6. CASE ExecuteForward
  BY <1>6 DEF ExecuteForward
<1>7. CASE SkipHook
  BY <1>7 DEF SkipHook
<1>8. CASE HookReturn
  BY <1>8 DEF HookReturn
<1>9. CASE SaveValue
  <2>1. Top \in Call
    BY <1>9, TopCall DEF SaveValue, InLoop, TypeOK
  <2>2. QED
    BY <1>9, <2>1 DEF SaveValue, Call
<1>10. CASE ConfigBegin
  BY <1>10 DEF ConfigBegin
<1>11. CASE ConfigCvar
  BY <1>11 DEF ConfigCvar
<1>12. CASE ConfigEnd
  BY <1>12 DEF ConfigEnd
<1>13. CASE ClearAll
  BY <1>13 DEF ClearAll, Short, String
<1>14. ASSUME NEW c \in Cvars, AddExists(c)
       PROVE  CvarTypes'
  BY <1>14 DEF AddExists
<1>15. ASSUME NEW c \in Cvars, NEW s \in Inputs, Set(c, s)
       PROVE  CvarTypes'
  BY <1>15 DEF Set
<1>16. ASSUME NEW c \in Cvars, NEW s \in Inputs, NEW l \in Limits, NEW desc \in
          BOOLEAN, Add(c, s, l, desc)
       PROVE  CvarTypes'
  BY <1>16, InputStrings, CvarAssumption DEF Add, create_cvar
<1>17. ASSUME NEW c \in Cvars, NEW t \in Types, NEW p \in Ptrs, Bind(t, c, p)
       PROVE  CvarTypes'
  BY <1>17 DEF Bind
<1>18. ASSUME NEW c \in Cvars, NEW h \in Hooks, NEW e \in BOOLEAN,
          CreateHook(h, c, e)
       PROVE  CvarTypes'
  BY <1>18 DEF CreateHook
<1>19. ASSUME NEW h \in Hooks, NEW e \in BOOLEAN, HookState(h, e)
       PROVE  CvarTypes'
  BY <1>19 DEF HookState
<1> HIDE DEF TypeOK, CvarTypes, m_cvars, lists
<1>20. QED
  BY <1>1, <1>2, <1>3, <1>4, <1>5, <1>6, <1>7, <1>8, <1>9, <1>10, <1>11, <1>12,
     <1>13, <1>14, <1>15, <1>16, <1>17, <1>18, <1>19 DEF Next, OnDirectSet,
     Config, Natives

(* The lists of binds keep their types, and name no variable twice. *)
LEMMA BindTypesStep ==
  ASSUME TypeOK, Next
  PROVE  BindTypes'
<1> USE DEF TypeOK, BindTypes, m_cvars, lists
<1>1. CASE SetUnknown
  BY <1>1 DEF SetUnknown
<1>2. CASE SetSame
  BY <1>2 DEF SetSame
<1>3. CASE SetUnbound
  BY <1>3 DEF SetUnbound
<1>4. CASE SetFixed
  BY <1>4 DEF SetFixed
<1>5. CASE SetChanged
  <2>1. Top \in Call
    BY <1>5, TopCall DEF SetChanged, Entering, Changing, TypeOK
  <2>2. Top.val \in String /\ Top.cvar \in Cvars
    BY <2>1 DEF Call
  <2>3. cell' \in [Ptrs -> String]
    <3>1. \A i \in DOMAIN bind_list[Top.cvar] :
            Copy(bind_list[Top.cvar][i].type, Top.val) \in String
      <4>1. \A i \in DOMAIN bind_list[Top.cvar] :
              bind_list[Top.cvar][i] \in Bound
        BY <2>2, SeqElements
      <4>2. QED
        BY <2>2, <4>1, CopyString DEF Bound
    <3>2. QED
      BY <1>5, <3>1 DEF SetChanged, CopyBinds
  <2>4. QED
    BY <1>5, <2>3 DEF SetChanged
<1>6. CASE ExecuteForward
  BY <1>6 DEF ExecuteForward
<1>7. CASE SkipHook
  BY <1>7 DEF SkipHook
<1>8. CASE HookReturn
  BY <1>8 DEF HookReturn
<1>9. CASE SaveValue
  BY <1>9 DEF SaveValue
<1>10. CASE ConfigBegin
  BY <1>10 DEF ConfigBegin
<1>11. CASE ConfigCvar
  BY <1>11 DEF ConfigCvar
<1>12. CASE ConfigEnd
  BY <1>12 DEF ConfigEnd
<1>13. CASE ClearAll
  BY <1>13 DEF ClearAll, Short, String
<1>14. ASSUME NEW c \in Cvars, AddExists(c)
       PROVE  BindTypes'
  BY <1>14 DEF AddExists
<1>15. ASSUME NEW c \in Cvars, NEW s \in Inputs, Set(c, s)
       PROVE  BindTypes'
  BY <1>15 DEF Set
<1>16. ASSUME NEW c \in Cvars, NEW s \in Inputs, NEW l \in Limits, NEW desc \in
          BOOLEAN, Add(c, s, l, desc)
       PROVE  BindTypes'
  BY <1>16 DEF Add
<1>17. ASSUME NEW c \in Cvars, NEW t \in Types, NEW p \in Ptrs, Bind(t, c, p)
       PROVE  BindTypes'
  <2> DEFINE b == [ptr |-> p, type |-> t]
             q == Append(bind_list[c], b)
  <2>1. Copy(t, string[c]) \in String
    BY CopyString DEF CvarTypes
  <2>2. /\ q \in Seq(Bound)
        /\ Len(bind_list[c]) \in Nat
        /\ DOMAIN bind_list[c] = 1 .. Len(bind_list[c])
        /\ DOMAIN q = 1 .. (Len(bind_list[c]) + 1)
        /\ q[Len(bind_list[c]) + 1] = b
        /\ \A i \in 1 .. Len(bind_list[c]) : q[i] = bind_list[c][i]
    <3>1. bind_list[c] \in Seq(Bound)
      OBVIOUS
    <3>2. b \in Bound
      BY DEF Bound
    <3> HIDE DEF b
    <3>3. QED
      BY <3>1, <3>2, TopPushed, SeqElements
  <2>3. bind_list' = [bind_list EXCEPT ![c] = q]
    BY <1>17 DEF Bind
  <2>4. \A i, j \in DOMAIN q : q[i].ptr = q[j].ptr => i = j
    <3>1. \A i \in DOMAIN bind_list[c] : bind_list[c][i].ptr # p
      BY <1>17 DEF Bind
    <3>2. \A i \in DOMAIN q :
            i \in DOMAIN bind_list[c] \/ i = Len(bind_list[c]) + 1
      BY <2>2
    <3>3. \A i, j \in DOMAIN bind_list[c] : q[i].ptr = q[j].ptr => i = j
      BY <2>2
    <3>4. QED
      BY <2>2, <3>1, <3>2, <3>3
  <2> HIDE DEF q
  <2>5. known' = known /\ c \in known
    BY <1>17 DEF Bind
  <2>6. cell' \in [Ptrs -> String]
    BY <1>17, <2>1 DEF Bind
  <2>7. QED
    BY <2>2, <2>3, <2>4, <2>5, <2>6
<1>18. ASSUME NEW c \in Cvars, NEW h \in Hooks, NEW e \in BOOLEAN,
          CreateHook(h, c, e)
       PROVE  BindTypes'
  BY <1>18 DEF CreateHook
<1>19. ASSUME NEW h \in Hooks, NEW e \in BOOLEAN, HookState(h, e)
       PROVE  BindTypes'
  BY <1>19 DEF HookState
<1> HIDE DEF TypeOK, BindTypes, m_cvars, lists
<1>20. QED
  BY <1>1, <1>2, <1>3, <1>4, <1>5, <1>6, <1>7, <1>8, <1>9, <1>10, <1>11, <1>12,
     <1>13, <1>14, <1>15, <1>16, <1>17, <1>18, <1>19 DEF Next, OnDirectSet,
     Config, Natives

(* The hooks and their histories keep their types. *)
LEMMA HookTypesStep ==
  ASSUME TypeOK, Next
  PROVE  HookTypes'
<1> USE DEF TypeOK, HookTypes, m_cvars, lists
<1>1. CASE SetUnknown
  BY <1>1 DEF SetUnknown
<1>2. CASE SetSame
  BY <1>2 DEF SetSame
<1>3. CASE SetUnbound
  BY <1>3 DEF SetUnbound, Forget
<1>4. CASE SetFixed
  BY <1>4 DEF SetFixed
<1>5. CASE SetChanged
  BY <1>5 DEF SetChanged
<1>6. CASE ExecuteForward
  <2>1. Top \in Call /\ Top.pos > 0 /\ Top.pos <= Len(cvar_hook_list[Top.cvar])
    BY <1>6, TopCall DEF ExecuteForward, InLoop, Call
  <2>2. Top.val \in String /\ NextHook \in DOMAIN hook_state
    BY <2>1 DEF Call, NextHook
  <2>3. QED
    BY <1>6, <2>2 DEF ExecuteForward
<1>7. CASE SkipHook
  BY <1>7 DEF SkipHook
<1>8. CASE HookReturn
  BY <1>8 DEF HookReturn
<1>9. CASE SaveValue
  BY <1>9 DEF SaveValue
<1>10. CASE ConfigBegin
  BY <1>10 DEF ConfigBegin
<1>11. CASE ConfigCvar
  BY <1>11 DEF ConfigCvar
<1>12. CASE ConfigEnd
  BY <1>12 DEF ConfigEnd
<1>13. CASE ClearAll
  BY <1>13 DEF ClearAll
<1>14. ASSUME NEW c \in Cvars, AddExists(c)
       PROVE  HookTypes'
  BY <1>14 DEF AddExists
<1>15. ASSUME NEW c \in Cvars, NEW s \in Inputs, Set(c, s)
       PROVE  HookTypes'
  BY <1>15 DEF Set
<1>16. ASSUME NEW c \in Cvars, NEW s \in Inputs, NEW l \in Limits, NEW desc \in
          BOOLEAN, Add(c, s, l, desc)
       PROVE  HookTypes'
  BY <1>16 DEF Add
<1>17. ASSUME NEW c \in Cvars, NEW t \in Types, NEW p \in Ptrs, Bind(t, c, p)
       PROVE  HookTypes'
  BY <1>17 DEF Bind
<1>18. ASSUME NEW c \in Cvars, NEW h \in Hooks, NEW e \in BOOLEAN,
          CreateHook(h, c, e)
       PROVE  HookTypes'
  <2>1. /\ hook_state' \in [DOMAIN hook_state' -> BOOLEAN]
        /\ DOMAIN hook_state' = DOMAIN hook_state \cup {h}
    BY <1>18 DEF CreateHook
  <2>2. /\ Append(cvar_hook_list[c], h) \in Seq(Hooks)
        /\ \A i \in DOMAIN Append(cvar_hook_list[c], h) :
             \/ Append(cvar_hook_list[c], h)[i] = h
             \/ /\ i \in DOMAIN cvar_hook_list[c]
                /\ Append(cvar_hook_list[c], h)[i] = cvar_hook_list[c][i]
    OBVIOUS
  <2>3. QED
    BY <1>18, <2>1, <2>2 DEF CreateHook
<1>19. ASSUME NEW h \in Hooks, NEW e \in BOOLEAN, HookState(h, e)
       PROVE  HookTypes'
  <2>1. /\ hook_state' \in [DOMAIN hook_state' -> BOOLEAN]
        /\ DOMAIN hook_state' = DOMAIN hook_state
    BY <1>19, Zenon DEF HookState
  <2>2. QED
    BY <1>19, <2>1 DEF HookState
<1> HIDE DEF TypeOK, HookTypes, m_cvars, lists
<1>20. QED
  BY <1>1, <1>2, <1>3, <1>4, <1>5, <1>6, <1>7, <1>8, <1>9, <1>10, <1>11, <1>12,
     <1>13, <1>14, <1>15, <1>16, <1>17, <1>18, <1>19 DEF Next, OnDirectSet,
     Config, Natives

(* The conjuncts of CallTypes about the list of config(). *)
PluginOK ==
  plugin \in Seq(Cvars) /\ \A i \in DOMAIN plugin : plugin[i] \in known

(* The list of config() keeps its type. *)
LEMMA PluginStep ==
  ASSUME TypeOK, Next
  PROVE  PluginOK'
<1> USE DEF TypeOK, PluginOK, CallTypes, m_cvars, lists
<1>1. CASE SetUnknown
  BY <1>1 DEF SetUnknown
<1>2. CASE SetSame
  BY <1>2 DEF SetSame
<1>3. CASE SetUnbound
  BY <1>3 DEF SetUnbound
<1>4. CASE SetFixed
  BY <1>4 DEF SetFixed
<1>5. CASE SetChanged
  BY <1>5 DEF SetChanged
<1>6. CASE ExecuteForward
  BY <1>6 DEF ExecuteForward
<1>7. CASE SkipHook
  BY <1>7 DEF SkipHook
<1>8. CASE HookReturn
  BY <1>8 DEF HookReturn
<1>9. CASE SaveValue
  BY <1>9 DEF SaveValue
<1>10. CASE ConfigBegin
  <2>1. PICK order \in [DOMAIN plugin -> ToSet(plugin)] : plugin' = order
    BY <1>10 DEF ConfigBegin
  <2>2. ToSet(plugin) \subseteq known /\ known' = known /\ known \subseteq Cvars
    BY <1>10 DEF ConfigBegin, ToSet, CvarTypes
  <2>3. order \in [1 .. Len(plugin) -> Cvars] /\ Len(plugin) \in Nat
    BY <2>1, <2>2
  <2>4. QED
    BY <2>1, <2>2, <2>3
<1>11. CASE ConfigCvar
  BY <1>11 DEF ConfigCvar
<1>12. CASE ConfigEnd
  BY <1>12 DEF ConfigEnd
<1>13. CASE ClearAll
  BY <1>13 DEF ClearAll
<1>14. ASSUME NEW c \in Cvars, AddExists(c)
       PROVE  PluginOK'
  BY <1>14 DEF AddExists
<1>15. ASSUME NEW c \in Cvars, NEW s \in Inputs, Set(c, s)
       PROVE  PluginOK'
  BY <1>15 DEF Set
<1>16. ASSUME NEW c \in Cvars, NEW s \in Inputs, NEW l \in Limits, NEW desc \in
          BOOLEAN, Add(c, s, l, desc)
       PROVE  PluginOK'
  <2>1. /\ Append(plugin, c) \in Seq(Cvars)
        /\ \A i \in DOMAIN Append(plugin, c) :
             \/ Append(plugin, c)[i] = c
             \/ /\ i \in DOMAIN plugin
                /\ Append(plugin, c)[i] = plugin[i]
    OBVIOUS
  <2>2. QED
    BY <1>16, <2>1 DEF Add
<1>17. ASSUME NEW c \in Cvars, NEW t \in Types, NEW p \in Ptrs, Bind(t, c, p)
       PROVE  PluginOK'
  BY <1>17 DEF Bind
<1>18. ASSUME NEW c \in Cvars, NEW h \in Hooks, NEW e \in BOOLEAN,
          CreateHook(h, c, e)
       PROVE  PluginOK'
  BY <1>18 DEF CreateHook
<1>19. ASSUME NEW h \in Hooks, NEW e \in BOOLEAN, HookState(h, e)
       PROVE  PluginOK'
  BY <1>19 DEF HookState
<1> HIDE DEF TypeOK, PluginOK, CallTypes, m_cvars, lists
<1>20. QED
  BY <1>1, <1>2, <1>3, <1>4, <1>5, <1>6, <1>7, <1>8, <1>9, <1>10, <1>11, <1>12,
     <1>13, <1>14, <1>15, <1>16, <1>17, <1>18, <1>19 DEF Next, OnDirectSet,
     Config, Natives

(* The calls keep their types. *)
LEMMA StackStep ==
  ASSUME TypeOK, Next
  PROVE  StackOK'
<1>a. StackOK
  BY DEF TypeOK, CallTypes, StackOK, CallOK, Calls
<1> USE <1>a
<1>1. CASE SetUnknown
  BY <1>1, PopOK DEF SetUnknown, Entering, Grows, m_cvars
<1>2. CASE SetSame
  BY <1>2, PopOK DEF SetSame, Entering, Grows, m_cvars
<1>3. CASE SetUnbound
  BY <1>3, PopOK DEF SetUnbound, Entering, Grows, m_cvars
<1>4. CASE SetFixed
  <2>1. /\ stack # <<>> /\ Top \in Call /\ Top.cvar \in registered
        /\ Top.val \in String
    BY <1>4, TopCall DEF SetFixed, Changing, Entering, TypeOK, Call
  <2>2. PICK s \in Fixed(Top.cvar, type[Top.cvar], Top.val) :
          stack' = Append(Front(stack), SetCall(Top.cvar, s))
    BY <1>4 DEF SetFixed
  <2>3. s \in String
    BY <1>4, <2>1, FixedInRange DEF SetFixed
  <2>4. PICK r \in Calls : r = SetCall(Top.cvar, s)
    BY <2>1, <2>3, CallRecords DEF Call
  <2>5. Grows /\ CallOK(r)'
    BY <1>4, <2>1, <2>4 DEF SetFixed, Grows, m_cvars, CallOK, SetCall
  <2>6. QED
    BY <2>1, <2>2, <2>4, <2>5, ReplaceOK
<1>5. CASE SetChanged
  <2>1. /\ stack # <<>> /\ Top \in Call /\ Top.cvar \in known
        /\ Top.pos \in Nat
    BY <1>5, TopCall DEF SetChanged, Changing, Entering, TypeOK, Call
  <2>2. PICK r : r = Became("loop", Top.cvar, Top.val, 1)
    OBVIOUS
  <2>a. r \in Calls /\ r.cvar = Top.cvar /\ r.op # "set" /\ r.pos > 0
    BY <1>5, <2>1, <2>2, TopCall DEF SetChanged, Changing, Entering, TypeOK,
       Call, Calls, Became
  <2>3. Grows /\ CallOK(r)'
    BY <1>5, <2>1, <2>a DEF SetChanged, Grows, m_cvars, CallOK
  <2>4. stack' = Append(Front(stack), r)
    BY <1>5, <2>1, <2>2, CallBecomes DEF SetChanged
  <2>5. QED
    BY <2>1, <2>a, <2>3, <2>4, ReplaceOK
<1>6. CASE ExecuteForward
  <2>1. /\ stack # <<>> /\ Top \in Call /\ Top.cvar \in known
        /\ Top.pos \in Nat
    BY <1>6, TopCall DEF ExecuteForward, InLoop, TypeOK, Call
  <2>2. PICK r : r = Became("hook", Top.cvar, Top.val, Top.pos)
    OBVIOUS
  <2>a. r \in Calls /\ r.cvar = Top.cvar /\ r.op # "set" /\ r.pos > 0
    BY <1>6, <2>1, <2>2, TopCall DEF ExecuteForward, InLoop, TypeOK, Call,
       Calls, Became
  <2>3. Grows /\ CallOK(r)'
    BY <1>6, <2>1, <2>a DEF ExecuteForward, Grows, m_cvars, CallOK
  <2>4. stack' = Append(Front(stack), r)
    BY <1>6, <2>1, <2>2, CallBecomes DEF ExecuteForward
  <2>5. QED
    BY <2>1, <2>a, <2>3, <2>4, ReplaceOK
<1>7. CASE SkipHook
  <2>1. /\ stack # <<>> /\ Top \in Call /\ Top.cvar \in known
        /\ Top.pos \in Nat
    BY <1>7, TopCall DEF SkipHook, InLoop, TypeOK, Call
  <2>2. PICK r : r = Became("loop", Top.cvar, Top.val, Top.pos + 1)
    OBVIOUS
  <2>a. r \in Calls /\ r.cvar = Top.cvar /\ r.op # "set" /\ r.pos > 0
    BY <1>7, <2>1, <2>2, TopCall DEF SkipHook, InLoop, TypeOK, Call, Calls,
       Became
  <2>3. Grows /\ CallOK(r)'
    BY <1>7, <2>1, <2>a DEF SkipHook, Grows, m_cvars, CallOK
  <2>4. stack' = Append(Front(stack), r)
    BY <1>7, <2>1, <2>2, CallBecomes DEF SkipHook
  <2>5. QED
    BY <2>1, <2>a, <2>3, <2>4, ReplaceOK
<1>8. CASE HookReturn
  <2>1. /\ stack # <<>> /\ Top \in Call /\ Top.cvar \in known
        /\ Top.pos \in Nat
    BY <1>8, TopCall DEF HookReturn, TypeOK, Call
  <2>2. PICK r : r = Became("loop", Top.cvar, Top.val, Top.pos + 1)
    OBVIOUS
  <2>a. r \in Calls /\ r.cvar = Top.cvar /\ r.op # "set" /\ r.pos > 0
    BY <1>8, <2>1, <2>2, TopCall DEF HookReturn, TypeOK, Call, Calls, Became
  <2>3. Grows /\ CallOK(r)'
    BY <1>8, <2>1, <2>a DEF HookReturn, Grows, m_cvars, CallOK
  <2>4. stack' = Append(Front(stack), r)
    BY <1>8, <2>1, <2>2, CallBecomes DEF HookReturn
  <2>5. QED
    BY <2>1, <2>a, <2>3, <2>4, ReplaceOK
<1>9. CASE SaveValue
  BY <1>9, PopOK DEF SaveValue, InLoop, Grows
<1>10. CASE ConfigBegin
  <2>1. PICK f \in Files :
          stack' = <<[op |-> "config", cvar |-> 0, pos |-> 1, load |-> f]>>
    BY <1>10 DEF ConfigBegin
  <2> DEFINE r == [op |-> "config", cvar |-> 0, pos |-> 1, load |-> f]
  <2>2. r \in Calls /\ CallOK(r)'
    BY DEF Calls, ConfigCall, CallOK
  <2> HIDE DEF r
  <2>3. QED
    BY <2>1, <2>2 DEF StackOK, r
<1>11. CASE ConfigCvar
  <2> DEFINE c == plugin[Top.pos]
             r == [Top EXCEPT !.pos = @ + 1]
             next == Append(Front(stack), r)
  <2>1. /\ Top \in ConfigCall /\ Top.load \in Files /\ Top.pos \in DOMAIN plugin
        /\ stack # <<>>
    BY <1>11, TopCall DEF ConfigCvar, TypeOK, ConfigCall, CallTypes
  <2>2. c \in known /\ c \in registered /\ c \in Cvars
    BY <2>1 DEF TypeOK, CallTypes, CvarTypes
  <2>3. r \in Calls /\ CallOK(r)
    BY <1>11, <2>1 DEF ConfigCvar, ConfigCall, Calls, CallOK
  <2>4. stack' = IF c \in DOMAIN Top.load
                 THEN Append(next, SetCall(c, Top.load[c])) ELSE next
    BY <1>11 DEF ConfigCvar
  <2>5. /\ next \in Seq(Calls) /\ DOMAIN next = 1 .. Len(stack)
        /\ Len(next) = Len(stack) /\ Len(stack) \in Nat \ {0}
        /\ DOMAIN stack = 1 .. Len(stack) /\ next[Len(stack)] = r
        /\ \A i \in 1 .. (Len(stack) - 1) : next[i] = stack[i]
    <3> HIDE DEF r
    <3>1. stack \in Seq(Calls)
      BY DEF StackOK
    <3>2. Len(stack) \in Nat \ {0} /\ DOMAIN stack = 1 .. Len(stack)
      BY <2>1, TopCall DEF TypeOK
    <3>3. PICK x \in Calls : x = r
      BY <2>3
    <3>4. PICK s \in Seq(Calls) : s = stack
      BY <3>1
    <3>5. /\ Append(Front(s), x) \in Seq(Calls)
          /\ DOMAIN Append(Front(s), x) = 1 .. Len(s)
          /\ Len(Append(Front(s), x)) = Len(s)
          /\ Append(Front(s), x)[Len(s)] = x
          /\ \A i \in 1 .. (Len(s) - 1) : Append(Front(s), x)[i] = s[i]
      <4>1. s # <<>>
        BY <2>1, <3>4
      <4>2. QED
        BY <4>1, TopReplaced
    <3>6. QED
      BY <3>2, <3>3, <3>4, <3>5, Zenon
  <2>6. UNCHANGED <<known, registered>> /\ r.op = "config"
    BY <1>11, <2>1 DEF ConfigCvar, m_cvars, ConfigCall
  <2> HIDE DEF r, next
  <2>7. \A i \in 1 .. Len(stack) : CallOK(next[i])
    BY <2>5, <2>6 DEF StackOK, CallOK
  <2>8. CASE c \notin DOMAIN Top.load
    BY <2>4, <2>5, <2>6, <2>7, <2>8 DEF StackOK, CallOK
  <2>9. CASE c \in DOMAIN Top.load
    <3> DEFINE q == SetCall(c, Top.load[c])
    <3>1. q \in Calls
      BY <2>1, <2>2, <2>9, InputStrings, CallRecords DEF Files
    <3>2. CallOK(q)
      BY <2>2 DEF CallOK, SetCall
    <3> HIDE DEF q, c
    <3>3. /\ stack' \in Seq(Calls)
          /\ DOMAIN stack' = 1 .. (Len(stack) + 1)
          /\ stack'[Len(stack) + 1] = q
          /\ \A i \in 1 .. Len(stack) : stack'[i] = next[i]
      BY <2>4, <2>5, <2>9, <3>1, TopPushed DEF q
    <3>4. \A i \in DOMAIN stack' :
            i \in 1 .. Len(stack) \/ i = Len(stack) + 1
      BY <2>5, <3>3
    <3>5. \A i \in DOMAIN stack' : CallOK(stack'[i])
      BY <2>7, <3>2, <3>3, <3>4
    <3>6. QED
      BY <2>6, <3>3, <3>5 DEF StackOK, CallOK
  <2>10. QED
    BY <2>8, <2>9
<1>12. CASE ConfigEnd
  BY <1>12, PopOK DEF ConfigEnd, Grows, m_cvars
<1>13. CASE ClearAll
  BY <1>13 DEF ClearAll, StackOK
<1>14. ASSUME NEW c \in Cvars, AddExists(c)
       PROVE  StackOK'
  BY <1>14, KeepOK DEF AddExists, Grows, m_cvars
<1>15. ASSUME NEW c \in Cvars, NEW s \in Inputs, Set(c, s)
       PROVE  StackOK'
  <2>1. c \in registered /\ stack' = Append(stack, SetCall(c, s)) /\ Grows
    BY <1>15 DEF Set, CallSet, Grows, m_cvars
  <2>2. SetCall(c, s) \in Calls
    BY CallRecords, InputStrings
  <2>3. CallOK(SetCall(c, s))'
    BY <1>15, <2>1 DEF CallOK, SetCall, Set
  <2>4. QED
    BY <2>1, <2>2, <2>3, PushOK
<1>16. ASSUME NEW c \in Cvars, NEW s \in Inputs, NEW l \in Limits, NEW desc \in
          BOOLEAN, Add(c, s, l, desc)
       PROVE  StackOK'
  BY <1>16, KeepOK DEF Add, create_cvar, Grows
<1>17. ASSUME NEW c \in Cvars, NEW t \in Types, NEW p \in Ptrs, Bind(t, c, p)
       PROVE  StackOK'
  <2>1. Grows /\ c \in known /\ c \in registered /\ string[c] \in String
    BY <1>17 DEF Bind, Grows, TypeOK, CvarTypes
  <2>2. CASE InRange(c, t, string[c])
    BY <1>17, <2>1, <2>2, KeepOK DEF Bind
  <2>3. CASE ~InRange(c, t, string[c])
    <3>1. PICK s \in Fixed(c, t, string[c]) :
            stack' = Append(stack, SetCall(c, s))
      BY <1>17, <2>3 DEF Bind, CallSet
    <3>2. s \in String
      BY <2>1, <2>3, FixedInRange
    <3>3. SetCall(c, s) \in Calls
      BY <3>2, CallRecords
    <3>4. CallOK(SetCall(c, s))'
      BY <1>17, <2>1 DEF CallOK, SetCall, Bind
    <3>5. QED
      BY <2>1, <3>1, <3>3, <3>4, PushOK
  <2>4. QED
    BY <2>2, <2>3
<1>18. ASSUME NEW c \in Cvars, NEW h \in Hooks, NEW e \in BOOLEAN,
          CreateHook(h, c, e)
       PROVE  StackOK'
  BY <1>18, KeepOK DEF CreateHook, Grows, m_cvars
<1>19. ASSUME NEW h \in Hooks, NEW e \in BOOLEAN, HookState(h, e)
       PROVE  StackOK'
  BY <1>19, KeepOK DEF HookState, Grows, m_cvars
<1>20. QED
  BY <1>1, <1>2, <1>3, <1>4, <1>5, <1>6, <1>7, <1>8, <1>9, <1>10, <1>11, <1>12,
     <1>13, <1>14, <1>15, <1>16, <1>17, <1>18, <1>19 DEF Next, OnDirectSet,
     Config, Natives

(* Every step keeps the types. *)
LEMMA TypeStep ==
  ASSUME TypeOK, [Next]_vars
  PROVE  TypeOK'
<1>1. CASE Next
  BY <1>1, CvarTypesStep, BindTypesStep, HookTypesStep, PluginStep, StackStep
  DEF TypeOK, CallTypes, PluginOK, StackOK, CallOK, Calls
<1>2. CASE UNCHANGED vars
  BY <1>2 DEF TypeOK, CvarTypes, BindTypes, HookTypes, CallTypes, vars, m_cvars,
     lists
<1>3. QED
  BY <1>1, <1>2

(* Every variable has its type, and every call, hook and bind is for a     *)
(* cvar that the manager knows.                                            *)
THEOREM TypeCorrect == Spec => []TypeOK
<1>1. Init => TypeOK
  BY DEF Init, TypeOK, CvarTypes, BindTypes, HookTypes, CallTypes, String,
     Short
<1>2. TypeOK /\ [Next]_vars => TypeOK'
  BY TypeStep
<1>3. QED
  BY <1>1, <1>2, PTL DEF Spec

-----------------------------------------------------------------------------
(* The inductive invariant. *)

(* Calls of on_direct_set for c that are in on_change(). *)
Runs(c) == {i \in DOMAIN stack : stack[i].op # "set" /\ stack[i].cvar = c}

(* The engine is about to set c. *)
Setting(c) == stack # <<>> /\ Top.op = "set" /\ Top.cvar = c

(* The value that variables and hooks have or are about to get: the copy,  *)
(* which a change in progress has yet to save.                             *)
Present(c) == IF Runs(c) = {} THEN value[c] ELSE string[c]

(* Nobody changes a cvar while it changes. *)
OneRun(c) == \A i, j \in Runs(c) : i = j

StringFacts(c) ==
  /\ \A i \in Runs(c) : type[c] # "NONE" /\ stack[i].val = string[c]
  /\ Runs(c) = {} /\ ~Setting(c) => value[c] = string[c]

(* The loop over the hooks has called the k-th one, or nobody changes c. *)
Passed(c, k) ==
  \A i \in Runs(c) :
    k < stack[i].pos \/ (k = stack[i].pos /\ stack[i].op = "hook")

(* The hooks that the loop has passed know the value. *)
ToldFacts(c) ==
  \A k \in DOMAIN cvar_hook_list[c] :
    cvar_hook_list[c][k] \in DOMAIN told /\ Passed(c, k)
      => told[cvar_hook_list[c][k]] = Present(c)

(* No other cvar writes the variable p. *)
Exclusive(c, p) ==
  \A d \in Cvars \ {c} : \A j \in DOMAIN bind_list[d] : bind_list[d][j].ptr # p

(* The bound variables have the value. *)
BoundFacts(c) ==
  /\ type[c] = "NONE" => bind_list[c] = <<>>
  /\ \A i \in DOMAIN bind_list[c] :
       Exclusive(c, bind_list[c][i].ptr) =>
         cell[bind_list[c][i].ptr] = Copy(bind_list[c][i].type, Present(c))

(* The value is in range, or bind() found that it is not and has the       *)
(* engine set a value that on_direct_set() will not take for the old one.  *)
Ranged(c) ==
  \/ InRange(c, type[c], Present(c))
  \/ /\ Runs(c) = {} /\ Setting(c) /\ Top.val # value[c]
     /\ InRange(c, type[c], Top.val) \/ (value[c] = Text /\ Top.val = Short(0))

(* check_range() can only keep limits that are sound. *)
RangeFacts(c) == SoundLimits => Ranged(c)

Facts(c) ==
  OneRun(c) /\ StringFacts(c) /\ ToldFacts(c) /\ BoundFacts(c) /\ RangeFacts(c)

CvarFacts == \A c \in known \ apart : Facts(c)

(* A hook is in one list, once, and one that was told is enabled. *)
HookFacts ==
  /\ \A c, d \in Cvars :
       \A k \in DOMAIN cvar_hook_list[c], l \in DOMAIN cvar_hook_list[d] :
         cvar_hook_list[c][k] = cvar_hook_list[d][l] => c = d /\ k = l
  /\ \A h \in DOMAIN told : hook_state[h]

(* A type comes with a bind. *)
BindFacts == \A c \in Cvars : type[c] # "NONE" => bind_list[c] # <<>>

CInv == HookFacts /\ BindFacts /\ CvarFacts

-----------------------------------------------------------------------------
(* What a step does to the calls for a cvar. *)

(* The calls for c are as they were. *)
Same(c) == Runs(c)' = Runs(c) /\ \A i \in Runs(c) : stack'[i] = stack[i]

(* The call at the top returns. *)
LEMMA PopRuns ==
  ASSUME TypeOK, stack # <<>>, Pop, NEW c \in Cvars
  PROVE  /\ Runs(c)' = Runs(c) \ {Len(stack)}
         /\ \A i \in Runs(c) \ {Len(stack)} : stack'[i] = stack[i]
         /\ Len(stack) \in Runs(c) => Top.op # "set" /\ Top.cvar = c
         /\ Top.op # "set" /\ Top.cvar = c => Len(stack) \in Runs(c)
<1>1. /\ Len(stack) \in Nat \ {0} /\ Top = stack[Len(stack)]
      /\ DOMAIN stack = 1 .. Len(stack)
  BY TopCall DEF TypeOK
<1>2. /\ DOMAIN stack' = 1 .. (Len(stack) - 1)
      /\ \A i \in 1 .. (Len(stack) - 1) : stack'[i] = stack[i]
  BY FrontElements DEF TypeOK, CallTypes, Pop
<1>3. QED
  BY <1>1, <1>2 DEF Runs

(* The last element of the stack changes. *)
LEMMA LastRuns ==
  ASSUME NEW n \in Nat \ {0}, NEW r, NEW c,
         DOMAIN stack = 1 .. n, DOMAIN stack' = 1 .. n, stack'[n] = r,
         \A i \in 1 .. (n - 1) : stack'[i] = stack[i]
  PROVE  /\ Runs(c)' \ {n} = Runs(c) \ {n}
         /\ \A i \in Runs(c) \ {n} : stack'[i] = stack[i]
         /\ n \in Runs(c) <=> stack[n].op # "set" /\ stack[n].cvar = c
         /\ n \in Runs(c)' <=> r.op # "set" /\ r.cvar = c
<1>1. \A i \in 1 .. n : i # n => stack'[i] = stack[i]
  OBVIOUS
<1>2. n \in Runs(c) <=> stack[n].op # "set" /\ stack[n].cvar = c
  BY DEF Runs
<1>3. n \in Runs(c)' <=> r.op # "set" /\ r.cvar = c
  BY DEF Runs
<1>4. QED
  BY <1>1, <1>2, <1>3 DEF Runs

(* The call at the top goes on as r. *)
LEMMA ReplaceRuns ==
  ASSUME TypeOK, stack # <<>>, NEW r \in Calls,
         stack' = Append(Front(stack), r), NEW c \in Cvars
  PROVE  /\ Runs(c)' \ {Len(stack)} = Runs(c) \ {Len(stack)}
         /\ \A i \in Runs(c) \ {Len(stack)} : stack'[i] = stack[i]
         /\ Len(stack) \in Runs(c) <=> Top.op # "set" /\ Top.cvar = c
         /\ Len(stack) \in Runs(c)' <=> r.op # "set" /\ r.cvar = c
         /\ stack'[Len(stack)] = r /\ stack' # <<>> /\ Top' = r
<1>1. PICK n \in Nat \ {0} : /\ n = Len(stack) /\ Top = stack[n]
                             /\ DOMAIN stack = 1 .. n
  BY TopCall DEF TypeOK
<1>2. /\ DOMAIN stack' = 1 .. n /\ stack' # <<>>
      /\ Top' = r /\ stack'[n] = r
      /\ \A i \in 1 .. (n - 1) : stack'[i] = stack[i]
  BY <1>1, TopReplaced DEF TypeOK, CallTypes, Calls, Top
<1>3. /\ Runs(c)' \ {n} = Runs(c) \ {n}
      /\ \A i \in Runs(c) \ {n} : stack'[i] = stack[i]
      /\ n \in Runs(c) <=> stack[n].op # "set" /\ stack[n].cvar = c
      /\ n \in Runs(c)' <=> r.op # "set" /\ r.cvar = c
  BY ONLY <1>1, <1>2, LastRuns
<1>4. QED
  BY <1>1, <1>2, <1>3, Zenon

(* A call of the engine begins. *)
LEMMA PushRuns ==
  ASSUME TypeOK, NEW r \in Calls, r.op = "set", stack' = Append(stack, r),
         NEW c \in Cvars
  PROVE  Same(c) /\ stack' # <<>> /\ Top' = r
<1>1. /\ Len(stack) \in Nat /\ DOMAIN stack = 1 .. Len(stack)
      /\ DOMAIN stack' = 1 .. (Len(stack) + 1) /\ stack' # <<>>
      /\ Top' = r /\ stack'[Len(stack) + 1] = r
      /\ \A i \in 1 .. Len(stack) : stack'[i] = stack[i]
  BY TopPushed, SeqElements DEF TypeOK, CallTypes, Calls, Top
<1>2. QED
  BY <1>1 DEF Runs, Same

(* A step that leaves the stack alone. *)
LEMMA KeepRuns ==
  ASSUME UNCHANGED stack, NEW c
  PROVE  Same(c) /\ Setting(c)' = Setting(c)
BY DEF Same, Runs, Setting, Top

(* A call of config() is for no cvar. *)
LEMMA ConfigRuns ==
  ASSUME TypeOK, ConfigBegin \/ ConfigCvar \/ ConfigEnd, NEW c \in Cvars
  PROVE  Same(c) /\ ~Setting(c)
<1>1. CASE ConfigBegin
  <2>1. Runs(c) = {} /\ ~Setting(c)
    BY <1>1 DEF ConfigBegin, Runs, Setting
  <2>2. Runs(c)' = {}
    BY <1>1, CvarAssumption DEF ConfigBegin, Runs
  <2>3. QED
    BY <2>1, <2>2 DEF Same
<1>2. CASE ConfigEnd
  <2>1. stack # <<>> /\ Top.op = "config" /\ Top.cvar = 0 /\ Pop
    BY <1>2, TopCall DEF ConfigEnd, TypeOK, ConfigCall
  <2>2. c # 0
    BY CvarAssumption
  <2>3. /\ Runs(c)' = Runs(c) \ {Len(stack)} /\ Len(stack) \notin Runs(c)
        /\ \A i \in Runs(c) \ {Len(stack)} : stack'[i] = stack[i]
    BY <2>1, <2>2, PopRuns
  <2>4. QED
    BY <2>1, <2>3 DEF Same, Setting
<1>3. CASE ConfigCvar
  <2> DEFINE x == plugin[Top.pos]
  <2>1. stack # <<>> /\ Top.op = "config" /\ Top.cvar = 0 /\ Top \in ConfigCall
    BY <1>3, TopCall DEF ConfigCvar, TypeOK, ConfigCall
  <2>2. PICK r : r = [Top EXCEPT !.pos = @ + 1]
    OBVIOUS
  <2>a. r \in ConfigCall
    BY <2>1, <2>2 DEF ConfigCall
  <2>3. PICK next : next = Append(Front(stack), r)
    OBVIOUS
  <2>4. /\ Len(stack) \in Nat \ {0} /\ Top = stack[Len(stack)]
        /\ DOMAIN stack = 1 .. Len(stack)
    BY <2>1, TopCall DEF TypeOK
  <2>5. /\ next \in Seq(Calls) /\ Len(next) = Len(stack)
        /\ DOMAIN next = 1 .. Len(stack) /\ next[Len(stack)] = r
        /\ \A i \in 1 .. (Len(stack) - 1) : next[i] = stack[i]
    BY <2>1, <2>a, <2>3, TopReplaced DEF TypeOK, CallTypes, Calls
  <2>6. r.cvar = 0 /\ stack[Len(stack)].cvar = 0
    BY <2>1, <2>a, <2>4 DEF ConfigCall
  <2>7. stack' = IF x \in DOMAIN Top.load
                 THEN Append(next, SetCall(x, Top.load[x])) ELSE next
    BY <1>3, <2>2, <2>3 DEF ConfigCvar
  <2>8. \A i \in 1 .. Len(stack) :
          /\ next[i].cvar = c => stack[i] = next[i]
          /\ stack[i].cvar = c => stack[i] = next[i]
    BY <2>4, <2>5, <2>6, CvarAssumption
  <2>9. CASE x \notin DOMAIN Top.load
    <3>1. stack' = next
      BY <2>7, <2>9
    <3>2. QED
      BY <2>1, <2>4, <2>5, <2>8, <3>1 DEF Same, Runs, Setting
  <2>10. CASE x \in DOMAIN Top.load
    <3>1. PICK q : q = SetCall(x, Top.load[x])
      OBVIOUS
    <3>2. q.op = "set"
      BY <3>1 DEF SetCall
    <3>3. /\ DOMAIN stack' = 1 .. (Len(stack) + 1)
          /\ stack'[Len(stack) + 1] = q
          /\ \A i \in 1 .. Len(stack) : stack'[i] = next[i]
      BY <2>4, <2>5, <2>7, <2>10, <3>1
    <3>4. QED
      BY <2>1, <2>4, <2>8, <3>2, <3>3 DEF Same, Runs, Setting
  <2>11. QED
    BY <2>9, <2>10
<1>4. QED
  BY <1>1, <1>2, <1>3

-----------------------------------------------------------------------------
(* What is about one cvar stays when the step is about another. *)

(* A step leaves alone what Facts(d) is about; hooks may be forgotten and  *)
(* variables shared.                                                       *)
Untouched(d) ==
  /\ Same(d) /\ ~Setting(d)
  /\ string'[d] = string[d] /\ value'[d] = value[d]
  /\ type'[d] = type[d] /\ has'[d] = has[d]
  /\ cvar_hook_list'[d] = cvar_hook_list[d] /\ bind_list'[d] = bind_list[d]
  /\ \A k \in DOMAIN cvar_hook_list[d] :
       cvar_hook_list[d][k] \in DOMAIN told' =>
         /\ cvar_hook_list[d][k] \in DOMAIN told
         /\ told'[cvar_hook_list[d][k]] = told[cvar_hook_list[d][k]]
  /\ \A i \in DOMAIN bind_list[d] :
       Exclusive(d, bind_list[d][i].ptr)' =>
         /\ Exclusive(d, bind_list[d][i].ptr)
         /\ cell'[bind_list[d][i].ptr] = cell[bind_list[d][i].ptr]

(* Ranges depend on the limits of the cvar only. *)
LEMMA RangeKeeps ==
  ASSUME NEW c, has'[c] = has[c], NEW t, NEW s
  PROVE  InRange(c, t, s)' <=> InRange(c, t, s)
BY DEF InRange, BelowMin, AboveMax

(* What the step leaves alone stays true. *)
LEMMA Frame ==
  ASSUME NEW d \in Cvars, Facts(d), Untouched(d)
  PROVE  Facts(d)'
<1>1. Present(d)' = Present(d)
  BY DEF Untouched, Same, Present
<1>2. OneRun(d)'
  BY DEF Facts, OneRun, Untouched, Same
<1>3. StringFacts(d)'
  BY DEF Facts, StringFacts, Untouched, Same
<1>4. \A k : Passed(d, k)' => Passed(d, k)
  BY DEF Untouched, Same, Passed
<1>5. ToldFacts(d)'
  <2>1. cvar_hook_list'[d] = cvar_hook_list[d]
    BY DEF Untouched
  <2>2. ASSUME NEW k \in DOMAIN cvar_hook_list[d],
               cvar_hook_list[d][k] \in DOMAIN told', Passed(d, k)'
        PROVE  told'[cvar_hook_list[d][k]] = Present(d)'
    BY <1>1, <1>4, <2>2 DEF Facts, ToldFacts, Untouched
  <2>3. QED
    BY <2>1, <2>2 DEF ToldFacts
<1>6. BoundFacts(d)'
  <2>1. type'[d] = type[d] /\ bind_list'[d] = bind_list[d]
    BY DEF Untouched
  <2>2. ASSUME NEW i \in DOMAIN bind_list[d],
               Exclusive(d, bind_list[d][i].ptr)'
        PROVE  cell'[bind_list[d][i].ptr] =
                 Copy(bind_list[d][i].type, Present(d)')
    BY <1>1, <2>2 DEF Facts, BoundFacts, Untouched
  <2>3. type[d] = "NONE" => bind_list[d] = <<>>
    BY DEF Facts, BoundFacts
  <2>4. QED
    BY <2>1, <2>2, <2>3 DEF BoundFacts, Exclusive
<1>7. RangeFacts(d)'
  <2>0. SUFFICES ASSUME SoundLimits PROVE Ranged(d)'
    BY DEF RangeFacts
  <2>1. InRange(d, type[d], Present(d))
    BY <2>0 DEF Facts, RangeFacts, Ranged, Untouched
  <2>2. PICK t, s : t = type[d] /\ s = Present(d)
    OBVIOUS
  <2>3. t = type'[d] /\ s = Present(d)' /\ InRange(d, t, s)
    BY <1>1, <2>1, <2>2 DEF Untouched
  <2>4. InRange(d, t, s)'
    BY <2>3, RangeKeeps DEF Untouched
  <2>5. QED
    BY <2>3, <2>4 DEF Ranged
<1>8. QED
  BY <1>2, <1>3, <1>5, <1>6, <1>7 DEF Facts

(* A step that touches neither cvars nor their lists. *)
LEMMA Quiet ==
  ASSUME NEW d \in Cvars, Facts(d), Same(d), ~Setting(d),
         UNCHANGED <<string, value, type, has, bind_list, cvar_hook_list,
                     cell>>,
         \A h \in DOMAIN told' : h \in DOMAIN told /\ told'[h] = told[h]
  PROVE  Facts(d)'
<1>1. Untouched(d)
  BY DEF Untouched, Exclusive
<1>2. QED
  BY <1>1, Frame

(* A call for a cvar is in on_change(), for a cvar that is known. *)
LEMMA RunCall ==
  ASSUME TypeOK, NEW c \in Cvars, NEW i \in Runs(c)
  PROVE  /\ c \in known /\ stack[i] \in Call /\ stack[i].op \in {"loop", "hook"}
         /\ stack[i].pos \in Nat \ {0} /\ stack[i].val \in String
         /\ i \in DOMAIN stack
<1>1. i \in DOMAIN stack /\ stack[i].op # "set" /\ stack[i].cvar = c
  BY DEF Runs
<1>2. stack[i] \in Calls
  BY <1>1, SeqElements DEF TypeOK, CallTypes, Calls
<1>3. c # 0
  BY CvarAssumption
<1>4. stack[i] \in Call
  BY <1>1, <1>2, <1>3 DEF Calls, ConfigCall
<1>5. QED
  BY <1>1, <1>4 DEF TypeOK, CallTypes, Call

(* Busy() says that there is such a call. *)
LEMMA BusyRuns ==
  ASSUME NEW c
  PROVE  Busy(c) <=> Runs(c) # {}
BY DEF Busy, Runs

(* While plugin code runs, the engine is about to set nothing. *)
LEMMA PluginSets ==
  ASSUME InPlugin, NEW c
  PROVE  ~Setting(c)
BY DEF InPlugin, Setting

(* The top is for another cvar, before and after. *)
LEMMA SameRuns ==
  ASSUME NEW d, Runs(d)' \ {Len(stack)} = Runs(d) \ {Len(stack)},
         Len(stack) \notin Runs(d), Len(stack) \notin Runs(d)',
         \A i \in Runs(d) \ {Len(stack)} : stack'[i] = stack[i]
  PROVE  Same(d)
<1>1. \A i : i \in Runs(d)' <=> i \in Runs(d)
  OBVIOUS
<1>2. QED
  BY <1>1 DEF Same

(* The variables and types of a list of binds. *)
LEMMA BoundElement ==
  ASSUME BindTypes, NEW c \in Cvars, NEW i \in DOMAIN bind_list[c]
  PROVE  bind_list[c][i].ptr \in Ptrs /\ bind_list[c][i].type \in Types
<1>1. bind_list[c] \in Seq(Bound)
  BY DEF BindTypes
<1>2. bind_list[c][i] \in Bound
  BY <1>1, SeqElements
<1>3. QED
  BY <1>2 DEF Bound

-----------------------------------------------------------------------------
(* Every step keeps the invariant. *)

(* A hook stays in one place, and one that was told is enabled. *)
LEMMA HookStep ==
  ASSUME TypeOK, HookFacts, Next
  PROVE  HookFacts'
<1> USE DEF HookFacts, m_cvars, lists
<1>1. CASE SetUnknown
  BY <1>1 DEF SetUnknown
<1>2. CASE SetSame
  BY <1>2 DEF SetSame
<1>3. CASE SetUnbound
  BY <1>3 DEF SetUnbound, Forget
<1>4. CASE SetFixed
  BY <1>4 DEF SetFixed
<1>5. CASE SetChanged
  BY <1>5 DEF SetChanged
<1>6. CASE ExecuteForward
  BY <1>6 DEF ExecuteForward
<1>7. CASE SkipHook
  BY <1>7 DEF SkipHook
<1>8. CASE HookReturn
  BY <1>8 DEF HookReturn
<1>9. CASE SaveValue
  BY <1>9 DEF SaveValue
<1>10. CASE ConfigBegin
  BY <1>10 DEF ConfigBegin
<1>11. CASE ConfigCvar
  BY <1>11 DEF ConfigCvar
<1>12. CASE ConfigEnd
  BY <1>12 DEF ConfigEnd
<1>13. CASE ClearAll
  BY <1>13 DEF ClearAll
<1>14. ASSUME NEW c \in Cvars, AddExists(c)
       PROVE  HookFacts'
  BY <1>14 DEF AddExists
<1>15. ASSUME NEW c \in Cvars, NEW s \in Inputs, Set(c, s)
       PROVE  HookFacts'
  BY <1>15 DEF Set
<1>16. ASSUME NEW c \in Cvars, NEW s \in Inputs, NEW l \in Limits, NEW desc \in
          BOOLEAN, Add(c, s, l, desc)
       PROVE  HookFacts'
  BY <1>16 DEF Add
<1>17. ASSUME NEW c \in Cvars, NEW t \in Types, NEW p \in Ptrs, Bind(t, c, p)
       PROVE  HookFacts'
  BY <1>17 DEF Bind
<1>18. ASSUME NEW c \in Cvars, NEW h \in Hooks, NEW e \in BOOLEAN,
          CreateHook(h, c, e)
       PROVE  HookFacts'
  <2>1. /\ \A k \in DOMAIN cvar_hook_list'[c] :
             \/ cvar_hook_list'[c][k] = h /\ k = Len(cvar_hook_list[c]) + 1
             \/ /\ k \in DOMAIN cvar_hook_list[c]
                /\ cvar_hook_list'[c][k] = cvar_hook_list[c][k]
        /\ \A d \in Cvars \ {c} : cvar_hook_list'[d] = cvar_hook_list[d]
    BY <1>18 DEF CreateHook, TypeOK, HookTypes
  <2>2. \A d \in Cvars : \A k \in DOMAIN cvar_hook_list[d] :
          cvar_hook_list[d][k] # h
    BY <1>18 DEF CreateHook, TypeOK, HookTypes
  <2>3. \A d, b \in Cvars :
         \A k \in DOMAIN cvar_hook_list'[d], l \in DOMAIN cvar_hook_list'[b] :
           cvar_hook_list'[d][k] = cvar_hook_list'[b][l] => d = b /\ k = l
    BY <2>1, <2>2
  <2>4. \A k \in DOMAIN told' : hook_state'[k]
    <3>1. told' = told /\ DOMAIN told \subseteq DOMAIN hook_state
      BY <1>18 DEF CreateHook, TypeOK, HookTypes
    <3>2. \A k \in DOMAIN hook_state : k # h /\ hook_state'[k] = hook_state[k]
      BY <1>18 DEF CreateHook
    <3>3. QED
      BY <3>1, <3>2
  <2>5. QED
    BY <2>3, <2>4
<1>19. ASSUME NEW h \in Hooks, NEW e \in BOOLEAN, HookState(h, e)
       PROVE  HookFacts'
  <2>1. \A k \in DOMAIN told' : hook_state'[k]
    BY <1>19 DEF HookState, TypeOK, HookTypes
  <2>2. QED
    BY <1>19, <2>1 DEF HookState
<1> HIDE DEF HookFacts, m_cvars, lists
<1>20. QED
  BY <1>1, <1>2, <1>3, <1>4, <1>5, <1>6, <1>7, <1>8, <1>9, <1>10, <1>11, <1>12,
     <1>13, <1>14, <1>15, <1>16, <1>17, <1>18, <1>19 DEF Next, OnDirectSet,
     Config, Natives

(* A type comes with a bind. *)
LEMMA BindStep ==
  ASSUME TypeOK, BindFacts, Next
  PROVE  BindFacts'
<1> USE DEF BindFacts, m_cvars, lists
<1>1. CASE SetUnknown
  BY <1>1 DEF SetUnknown, TypeOK, CvarTypes
<1>2. CASE SetSame
  BY <1>2 DEF SetSame
<1>3. CASE SetUnbound
  BY <1>3 DEF SetUnbound
<1>4. CASE SetFixed
  BY <1>4 DEF SetFixed
<1>5. CASE SetChanged
  BY <1>5 DEF SetChanged
<1>6. CASE ExecuteForward
  BY <1>6 DEF ExecuteForward
<1>7. CASE SkipHook
  BY <1>7 DEF SkipHook
<1>8. CASE HookReturn
  BY <1>8 DEF HookReturn
<1>9. CASE SaveValue
  BY <1>9 DEF SaveValue
<1>10. CASE ConfigBegin
  BY <1>10 DEF ConfigBegin
<1>11. CASE ConfigCvar
  BY <1>11 DEF ConfigCvar
<1>12. CASE ConfigEnd
  BY <1>12 DEF ConfigEnd
<1>13. CASE ClearAll
  BY <1>13 DEF ClearAll
<1>14. ASSUME NEW c \in Cvars, AddExists(c)
       PROVE  BindFacts'
  BY <1>14 DEF AddExists, TypeOK, CvarTypes
<1>15. ASSUME NEW c \in Cvars, NEW s \in Inputs, Set(c, s)
       PROVE  BindFacts'
  BY <1>15 DEF Set
<1>16. ASSUME NEW c \in Cvars, NEW s \in Inputs, NEW l \in Limits, NEW desc \in
          BOOLEAN, Add(c, s, l, desc)
       PROVE  BindFacts'
  BY <1>16 DEF Add, TypeOK, CvarTypes
<1>17. ASSUME NEW c \in Cvars, NEW t \in Types, NEW p \in Ptrs, Bind(t, c, p)
       PROVE  BindFacts'
  <2>1. /\ bind_list'[c] # <<>>
        /\ \A d \in Cvars \ {c} : bind_list'[d] = bind_list[d]
    <3>1. PICK b \in Bound : b = [ptr |-> p, type |-> t]
      BY DEF Bound
    <3>2. Append(bind_list[c], b) # <<>>
      BY TopPushed DEF TypeOK, BindTypes
    <3>3. bind_list' = [bind_list EXCEPT ![c] = Append(bind_list[c], b)]
      BY <1>17, <3>1 DEF Bind
    <3>4. QED
      BY <3>2, <3>3 DEF TypeOK, BindTypes
  <2>2. \A d \in Cvars \ {c} : type'[d] = type[d]
    BY <1>17 DEF Bind, TypeOK, CvarTypes
  <2>3. QED
    BY <2>1, <2>2
<1>18. ASSUME NEW c \in Cvars, NEW h \in Hooks, NEW e \in BOOLEAN,
          CreateHook(h, c, e)
       PROVE  BindFacts'
  BY <1>18 DEF CreateHook
<1>19. ASSUME NEW h \in Hooks, NEW e \in BOOLEAN, HookState(h, e)
       PROVE  BindFacts'
  BY <1>19 DEF HookState
<1> HIDE DEF BindFacts, m_cvars, lists
<1>20. QED
  BY <1>1, <1>2, <1>3, <1>4, <1>5, <1>6, <1>7, <1>8, <1>9, <1>10, <1>11, <1>12,
     <1>13, <1>14, <1>15, <1>16, <1>17, <1>18, <1>19 DEF Next, OnDirectSet,
     Config, Natives

(* on_direct_set() keeps what is known of a cvar. *)
LEMMA CallFacts ==
  ASSUME TypeOK, CInv, OnDirectSet, NEW d \in Cvars, d \in known', d \notin
         apart'
  PROVE  Facts(d)'
<1>1. CASE SetUnknown
  <2>1. /\ stack # <<>> /\ Top.op = "set" /\ Top.cvar \in Cvars
        /\ Top.val \in String
    BY <1>1, TopCall DEF SetUnknown, Entering, TypeOK, Call
  <2>2. PICK c \in Cvars : c = Top.cvar
    BY <2>1
  <2>3. Same(d)
    <3>1. /\ Runs(d)' = Runs(d) \ {Len(stack)} /\ Len(stack) \notin Runs(d)
          /\ \A i \in Runs(d) \ {Len(stack)} : stack'[i] = stack[i]
      BY <1>1, <2>1, PopRuns DEF SetUnknown
    <3>2. QED
      BY <3>1 DEF Same
  <2>4. CASE d # c
    <3>1. Untouched(d) /\ d \in known \ apart
      BY <1>1, <2>2, <2>3, <2>4
      DEF SetUnknown, Entering, Nested, Untouched, Setting, Exclusive, lists,
          TypeOK, CvarTypes
    <3>2. QED
      BY <3>1, Frame DEF CInv, CvarFacts
  <2>5. CASE d = c
    <3>1. Runs(d) = {} /\ Runs(d)' = {}
      BY <1>1, <2>2, <2>3, <2>5, RunCall DEF SetUnknown, Same
    <3>2. /\ bind_list'[d] = <<>> /\ cvar_hook_list'[d] = <<>>
      BY <1>1, <2>2, <2>5 DEF SetUnknown, lists, TypeOK, BindTypes, HookTypes
    <3>3. type'[d] = "NONE" /\ value'[d] = string'[d]
      BY <1>1, <2>2, <2>5 DEF SetUnknown, Entering, TypeOK, CvarTypes
    <3>4. QED
      BY <3>1, <3>2, <3>3 DEF Facts, OneRun, StringFacts, ToldFacts, BoundFacts,
         RangeFacts, Ranged, InRange
  <2>6. QED
    BY <2>4, <2>5
<1>2. CASE SetSame
  <2>1. /\ stack # <<>> /\ Top.op = "set" /\ Top.cvar \in Cvars
        /\ Top.val \in String
    BY <1>2, TopCall DEF SetSame, Entering, TypeOK, Call
  <2>2. PICK c \in Cvars : c = Top.cvar
    BY <2>1
  <2>3. Same(d)
    <3>1. /\ Runs(d)' = Runs(d) \ {Len(stack)} /\ Len(stack) \notin Runs(d)
          /\ \A i \in Runs(d) \ {Len(stack)} : stack'[i] = stack[i]
      BY <1>2, <2>1, PopRuns DEF SetSame
    <3>2. QED
      BY <3>1 DEF Same
  <2>4. d \in known \ apart /\ Facts(d)
    BY <1>2 DEF SetSame, m_cvars, Nested, CInv, CvarFacts
  <2>5. CASE d # c
    <3>1. Untouched(d)
      BY <1>2, <2>2, <2>3, <2>5
      DEF SetSame, Entering, Untouched, Setting, Exclusive, m_cvars, lists,
          TypeOK, CvarTypes
    <3>2. QED
      BY <2>4, <3>1, Frame
  <2>6. CASE d = c
    <3>1. Runs(d) = {} /\ Runs(d)' = {}
      BY <1>2, <2>2, <2>3, <2>6, BusyRuns DEF SetSame, Nested, Same
    <3>2. /\ value'[d] = value[d] /\ value[d] = Top.val /\ string'[d] = Top.val
          /\ UNCHANGED <<m_cvars, lists, cell, told>>
      BY <1>2, <2>2, <2>6 DEF SetSame, Entering, TypeOK, CvarTypes, m_cvars
    <3>3. Present(d)' = Present(d)
      BY <3>1, <3>2 DEF Present
    <3>4. OneRun(d)' /\ StringFacts(d)'
      BY <3>1, <3>2 DEF OneRun, StringFacts
    <3>5. ToldFacts(d)' /\ BoundFacts(d)'
      BY <2>4, <3>1, <3>2, <3>3 DEF Facts, ToldFacts, BoundFacts, Exclusive,
         Passed, m_cvars, lists
    <3>6. SoundLimits => InRange(d, type[d], Present(d))
      BY <2>4, <3>2 DEF Facts, RangeFacts, Ranged
    <3>7. RangeFacts(d)'
      <4>0. SUFFICES ASSUME SoundLimits PROVE Ranged(d)'
        BY DEF RangeFacts
      <4>1. QED
        BY <3>2, <3>3, <3>6, <4>0 DEF Ranged, InRange, BelowMin, AboveMax, m_cvars
    <3>8. QED
      BY <3>4, <3>5, <3>7 DEF Facts
  <2>7. QED
    BY <2>5, <2>6
<1>3. CASE SetUnbound
  <2>1. /\ stack # <<>> /\ Top.op = "set" /\ Top.cvar \in Cvars
        /\ Top.val \in String
    BY <1>3, TopCall DEF SetUnbound, Entering, TypeOK, Call
  <2>2. PICK c \in Cvars : c = Top.cvar
    BY <2>1
  <2>3. Same(d)
    <3>1. /\ Runs(d)' = Runs(d) \ {Len(stack)} /\ Len(stack) \notin Runs(d)
          /\ \A i \in Runs(d) \ {Len(stack)} : stack'[i] = stack[i]
      BY <1>3, <2>1, PopRuns DEF SetUnbound
    <3>2. QED
      BY <3>1 DEF Same
  <2>4. d \in known \ apart /\ Facts(d)
    BY <1>3 DEF SetUnbound, Nested, CInv, CvarFacts
  <2>5. CASE d # c
    <3>1. Untouched(d)
      BY <1>3, <2>2, <2>3, <2>5
      DEF SetUnbound, Entering, Untouched, Setting, Exclusive, Forget, lists,
          TypeOK, CvarTypes
    <3>2. QED
      BY <2>4, <3>1, Frame
  <2>6. CASE d = c
    <3>1. Runs(d) = {} /\ Runs(d)' = {}
      BY <1>3, <2>2, <2>3, <2>6, BusyRuns DEF SetUnbound, Nested, Same
    <3>2. type'[d] = "NONE" /\ value'[d] = string'[d]
      BY <1>3, <2>2, <2>6 DEF SetUnbound, Entering, TypeOK, CvarTypes
    <3>3. \A k \in DOMAIN cvar_hook_list'[d] :
            cvar_hook_list'[d][k] \notin DOMAIN told'
      BY <1>3, <2>2, <2>6 DEF SetUnbound, Forget, lists
    <3>4. bind_list'[d] = <<>>
      BY <1>3, <2>2, <2>4, <2>6 DEF SetUnbound, lists, Facts, BoundFacts
    <3>5. QED
      BY <3>1, <3>2, <3>3, <3>4 DEF Facts, OneRun, StringFacts, ToldFacts,
         BoundFacts, RangeFacts, Ranged, InRange
  <2>7. QED
    BY <2>5, <2>6
<1>4. CASE SetFixed
  <2>1. /\ stack # <<>> /\ Top.op = "set" /\ Top.cvar \in Cvars
        /\ Top.val \in String
    BY <1>4, TopCall DEF SetFixed, Changing, Entering, TypeOK, Call
  <2>2. PICK c \in Cvars : c = Top.cvar
    BY <2>1
  <2>3. PICK s \in Fixed(c, type[c], Top.val) :
          stack' = Append(Front(stack), SetCall(c, s))
    BY <1>4, <2>2 DEF SetFixed
  <2>4. /\ s \in String
        /\ SoundLimits =>
             InRange(c, type[c], s) \/ (Top.val = Text /\ s = Short(0))
    BY <1>4, <2>1, <2>2, FixedInRange DEF SetFixed
  <2>5. PICK r \in Calls : r = SetCall(c, s)
    BY <2>4, CallRecords
  <2>6. r.op = "set" /\ r.cvar = c /\ r.val = s
    BY <2>5 DEF SetCall
  <2>7. Same(d) /\ stack' # <<>> /\ Top' = r
    <3>1. /\ Runs(d)' \ {Len(stack)} = Runs(d) \ {Len(stack)}
          /\ \A i \in Runs(d) \ {Len(stack)} : stack'[i] = stack[i]
          /\ Len(stack) \notin Runs(d) /\ Len(stack) \notin Runs(d)'
          /\ stack' # <<>> /\ Top' = r
      BY <2>1, <2>3, <2>5, <2>6, ReplaceRuns
    <3>2. QED
      BY <3>1, SameRuns
  <2>8. d \in known \ apart /\ Facts(d)
    BY <1>4 DEF SetFixed, m_cvars, Nested, CInv, CvarFacts
  <2>9. CASE d # c
    <3>1. Untouched(d)
      BY <1>4, <2>2, <2>7, <2>9
      DEF SetFixed, Changing, Entering, Untouched, Setting, Exclusive, m_cvars,
          lists, TypeOK, CvarTypes
    <3>2. QED
      BY <2>8, <3>1, Frame
  <2>10. CASE d = c
    <3>1. Runs(d) = {} /\ Runs(d)' = {} /\ Setting(d)'
      BY <1>4, <2>2, <2>6, <2>7, <2>10, BusyRuns
      DEF SetFixed, Nested, Same, Setting
    <3>2. UNCHANGED <<m_cvars, lists, cell, told>>
      BY <1>4 DEF SetFixed
    <3>3. Present(d)' = Present(d)
      BY <3>1, <3>2 DEF Present, m_cvars
    <3>4. OneRun(d)' /\ StringFacts(d)'
      BY <3>1 DEF OneRun, StringFacts
    <3>5. ToldFacts(d)' /\ BoundFacts(d)'
      BY <2>8, <3>1, <3>2, <3>3 DEF Facts, ToldFacts, BoundFacts, Exclusive,
         Passed, m_cvars, lists
    <3>6. RangeFacts(d)'
      <4>0. SUFFICES ASSUME SoundLimits PROVE Ranged(d)'
        BY DEF RangeFacts
      <4>1. CASE InRange(d, type[d], Present(d))
        BY <3>2, <3>3, <4>1 DEF Ranged, InRange, BelowMin, AboveMax, m_cvars
      <4>2. CASE ~InRange(d, type[d], Present(d))
        <5>1. value[d] = Text /\ Top.val = Short(0)
          BY <1>4, <2>2, <2>8, <2>10, <4>0, <4>2
          DEF SetFixed, Facts, RangeFacts, Ranged
        <5>2. InRange(d, type[d], s)
          BY <2>4, <2>10, <4>0, <5>1 DEF Short, Text
        <5>3. s # Text
          BY <1>4, <2>2, <2>10, <5>2 DEF SetFixed, InRange
        <5>4. /\ UNCHANGED <<value, type, has>>
              /\ Top'.val = s
          BY <2>6, <2>7, <3>2 DEF m_cvars
        <5>5. PICK t : t = type[d]
          OBVIOUS
        <5>6. InRange(d, t, s)'
          BY <5>2, <5>4, <5>5, RangeKeeps
        <5>7. QED
          BY <3>1, <5>1, <5>3, <5>4, <5>5, <5>6 DEF Ranged
      <4>3. QED
        BY <4>1, <4>2
    <3>7. QED
      BY <3>4, <3>5, <3>6 DEF Facts
  <2>11. QED
    BY <2>9, <2>10
<1>5. CASE SetChanged
  <2>1. /\ stack # <<>> /\ Top.op = "set" /\ Top.cvar \in Cvars
        /\ Top.val \in String
    BY <1>5, TopCall DEF SetChanged, Changing, Entering, TypeOK, Call
  <2>2. PICK c \in Cvars : c = Top.cvar
    BY <2>1
  <2>3. Top \in Call
    BY <1>5, TopCall DEF SetChanged, Changing, Entering, TypeOK
  <2>4. PICK r \in Calls : r = Became("loop", c, Top.val, 1)
    BY <2>1 DEF Calls, Call, Became
  <2>5. /\ r.op = "loop" /\ r.cvar = c /\ r.val = Top.val /\ r.pos = 1
        /\ stack' = Append(Front(stack), r)
    BY <1>5, <2>2, <2>3, <2>4, CallBecomes DEF SetChanged, Became
  <2>6. /\ Runs(d)' \ {Len(stack)} = Runs(d) \ {Len(stack)}
        /\ \A i \in Runs(d) \ {Len(stack)} : stack'[i] = stack[i]
        /\ Len(stack) \notin Runs(d)
        /\ Len(stack) \in Runs(d)' <=> d = c
        /\ stack'[Len(stack)] = r
    BY <2>1, <2>5, ReplaceRuns
  <2>7. CASE d # c
    <3>1. Untouched(d)
      <4>1. Same(d) /\ ~Setting(d)
        BY <2>2, <2>6, <2>7, SameRuns DEF Setting
      <4>2. ASSUME NEW i \in DOMAIN bind_list[d],
                   Exclusive(d, bind_list[d][i].ptr)'
            PROVE  /\ Exclusive(d, bind_list[d][i].ptr)
                   /\ cell'[bind_list[d][i].ptr] = cell[bind_list[d][i].ptr]
        <5>1. bind_list' = bind_list
          BY <1>5 DEF SetChanged, lists
        <5>2. PICK p : p = bind_list[d][i].ptr
          OBVIOUS
        <5>3. p \in Ptrs
          BY <5>2, BoundElement DEF TypeOK
        <5>4. Exclusive(d, p)
          BY <4>2, <5>1, <5>2 DEF Exclusive
        <5>5. \A j \in DOMAIN bind_list[c] : bind_list[c][j].ptr # p
          BY <2>7, <5>4 DEF Exclusive
        <5>6. cell'[p] = cell[p]
          BY <1>5, <2>2, <5>3, <5>5 DEF SetChanged, CopyBinds
        <5>7. QED
          BY <5>2, <5>4, <5>6
      <4>3. QED
        BY <1>5, <2>2, <2>7, <4>1, <4>2
        DEF SetChanged, Changing, Entering, Untouched, m_cvars, lists, TypeOK,
            CvarTypes
    <3>2. d \in known \ apart
      BY <1>5, <2>2, <2>7 DEF SetChanged, Nested, m_cvars
    <3>3. QED
      BY <3>1, <3>2, Frame DEF CInv, CvarFacts
  <2>8. CASE d = c
    <3>1. Runs(d) = {}
      BY <1>5, <2>2, <2>8, BusyRuns DEF SetChanged, Nested
    <3>2. Runs(d)' = {Len(stack)}
      BY <2>6, <2>8, <3>1
    <3>3. /\ string'[d] = Top.val /\ type'[d] = type[d] /\ has'[d] = has[d]
          /\ type[d] # "NONE" /\ InRange(d, type[d], Top.val)
          /\ bind_list' = bind_list /\ cvar_hook_list' = cvar_hook_list
          /\ cell' = CopyBinds(d, Top.val)
      BY <1>5, <2>2, <2>8 DEF SetChanged, Changing, Entering, m_cvars, lists,
         TypeOK, CvarTypes
    <3>4. Present(d)' = Top.val
      BY <3>2, <3>3 DEF Present
    <3>5. OneRun(d)' /\ StringFacts(d)'
      BY <2>5, <2>6, <3>2, <3>3 DEF OneRun, StringFacts
    <3>6. ToldFacts(d)'
      <4>1. \A k \in DOMAIN cvar_hook_list[d] : k \in Nat \ {0}
        BY SeqElements DEF TypeOK, HookTypes
      <4>2. \A k \in DOMAIN cvar_hook_list[d] : ~Passed(d, k)'
        <5>1. \A k : Passed(d, k)' => k < r.pos
          BY <2>5, <2>6, <3>2 DEF Passed
        <5>2. QED
          BY <2>5, <4>1, <5>1
      <4>3. QED
        BY <3>3, <4>2 DEF ToldFacts
    <3>7. BoundFacts(d)'
      <4>1. ASSUME NEW i \in DOMAIN bind_list[d]
            PROVE  cell'[bind_list[d][i].ptr] =
                     Copy(bind_list[d][i].type, Top.val)
        <5>1. bind_list[d][i].ptr \in Ptrs
          BY BoundElement DEF TypeOK
        <5>2. {j \in DOMAIN bind_list[d] :
                 bind_list[d][j].ptr = bind_list[d][i].ptr} = {i}
          BY DEF TypeOK, BindTypes
        <5>3. QED
          BY <3>3, <5>1, <5>2 DEF CopyBinds
      <4>2. QED
        BY <3>3, <3>4, <4>1 DEF BoundFacts
    <3>8. RangeFacts(d)'
      <4>0. SUFFICES ASSUME SoundLimits PROVE Ranged(d)'
        BY DEF RangeFacts
      <4>1. PICK t, s : t = type[d] /\ s = Top.val
        OBVIOUS
      <4>2. InRange(d, t, s)'
        BY <3>3, <4>1, RangeKeeps
      <4>3. QED
        BY <3>3, <3>4, <4>1, <4>2 DEF Ranged
    <3>9. QED
      BY <3>5, <3>6, <3>7, <3>8 DEF Facts
  <2>9. QED
    BY <2>7, <2>8
<1>6. CASE ExecuteForward
  <2>1. /\ stack # <<>> /\ Top.op = "loop" /\ Top \in Call /\ Top.cvar \in Cvars
        /\ Top.val \in String /\ Top.pos \in Nat \ {0}
    BY <1>6, TopCall DEF ExecuteForward, InLoop, TypeOK, Call
  <2>2. PICK c \in Cvars : c = Top.cvar
    BY <2>1
  <2>3. PICK r : r = Became("hook", Top.cvar, Top.val, Top.pos)
    OBVIOUS
  <2>a. r \in Calls
    BY <2>1, <2>3 DEF Calls, Call, Became
  <2>4. /\ r.op = "hook" /\ r.cvar = c /\ r.val = Top.val /\ r.pos = Top.pos
        /\ stack' = Append(Front(stack), r)
    BY <1>6, <2>1, <2>2, <2>3, CallBecomes DEF ExecuteForward, Became
  <2>5. /\ Runs(d)' \ {Len(stack)} = Runs(d) \ {Len(stack)}
        /\ \A i \in Runs(d) \ {Len(stack)} : stack'[i] = stack[i]
        /\ Len(stack) \in Runs(d) <=> d = c
        /\ Len(stack) \in Runs(d)' <=> d = c
        /\ stack'[Len(stack)] = r
    BY <2>1, <2>2, <2>a, <2>4, ReplaceRuns
  <2>6. d \in known \ apart /\ Facts(d)
    BY <1>6 DEF ExecuteForward, m_cvars, CInv, CvarFacts
  <2>7. UNCHANGED <<string, value, type, has, bind_list, hook_state,
                    cvar_hook_list, cell>>
    BY <1>6 DEF ExecuteForward, m_cvars, lists
  <2>8. CASE d # c
    <3>1. Same(d) /\ ~Setting(d)
      BY <2>1, <2>5, <2>8, SameRuns DEF Setting
    <3>2. \A k \in DOMAIN cvar_hook_list[d] : cvar_hook_list[d][k] # NextHook
      <4>1. Top.pos \in DOMAIN cvar_hook_list[c]
        BY <1>6, <2>1, <2>2, SeqElements DEF ExecuteForward, InLoop, TypeOK,
           HookTypes
      <4>2. QED
        BY <2>2, <2>8, <4>1 DEF NextHook, CInv, HookFacts
    <3>3. Untouched(d)
      BY <1>6, <2>7, <3>1, <3>2 DEF ExecuteForward, Untouched, Exclusive
    <3>4. QED
      BY <2>6, <3>3, Frame
  <2>9. CASE d = c
    <3>1. Runs(d) = {Len(stack)} /\ Runs(d)' = {Len(stack)}
      BY <2>5, <2>6, <2>9 DEF Facts, OneRun
    <3>2. Present(d)' = Present(d) /\ Present(d) = Top.val
      <4>1. Top = stack[Len(stack)]
        BY <2>1, TopCall DEF TypeOK
      <4>2. QED
        BY <2>6, <2>7, <3>1, <4>1 DEF Present, Facts, StringFacts
    <3>3. OneRun(d)' /\ StringFacts(d)'
      BY <2>4, <2>5, <2>6, <2>7, <3>1, <3>2
      DEF Facts, OneRun, StringFacts, Present
    <3>4. BoundFacts(d)'
      BY <2>6, <2>7, <3>2 DEF Facts, BoundFacts, Exclusive
    <3>5. RangeFacts(d)'
      <4>0. SUFFICES ASSUME SoundLimits PROVE Ranged(d)'
        BY DEF RangeFacts
      <4>1. PICK t, s : t = type[d] /\ s = Present(d)
        OBVIOUS
      <4>2. InRange(d, t, s)
        BY <2>6, <3>1, <4>0, <4>1 DEF Facts, RangeFacts, Ranged
      <4>3. InRange(d, t, s)'
        BY <2>7, <4>2, RangeKeeps
      <4>4. QED
        BY <2>7, <3>2, <4>1, <4>3 DEF Ranged
    <3>6. ToldFacts(d)'
      <4>1. stack[Len(stack)].pos = Top.pos /\ stack[Len(stack)].op = "loop"
        BY <2>1, TopCall DEF TypeOK
      <4>2. \A k \in DOMAIN cvar_hook_list[d] : k \in Nat \ {0}
        BY SeqElements DEF TypeOK, HookTypes
      <4>3. \A k \in DOMAIN cvar_hook_list[d] :
              k < Top.pos => Passed(d, k)
        BY <3>1, <4>1 DEF Passed
      <4>4. Top.pos \in DOMAIN cvar_hook_list[d]
        BY <1>6, <2>1, <2>2, <2>9, SeqElements DEF ExecuteForward, InLoop,
           TypeOK,
           HookTypes
      <4>5. /\ NextHook = cvar_hook_list[d][Top.pos]
            /\ \A k \in DOMAIN cvar_hook_list[d] :
                 cvar_hook_list[d][k] = NextHook => k = Top.pos
        BY <2>2, <2>9, <4>4 DEF NextHook, CInv, HookFacts
      <4>6. \A k \in DOMAIN cvar_hook_list[d] :
              Passed(d, k)' => k < Top.pos \/ k = Top.pos
        BY <2>4, <2>5, <3>1 DEF Passed
      <4>7. ASSUME NEW k \in DOMAIN cvar_hook_list[d],
                   cvar_hook_list[d][k] \in DOMAIN told', Passed(d, k)'
            PROVE  told'[cvar_hook_list[d][k]] = Present(d)
        <5>1. CASE k = Top.pos
          BY <1>6, <3>2, <4>5, <5>1 DEF ExecuteForward
        <5>2. CASE k # Top.pos
          <6>1. Passed(d, k) /\ cvar_hook_list[d][k] # NextHook
            BY <4>3, <4>5, <4>6, <4>7, <5>2
          <6>2. /\ cvar_hook_list[d][k] \in DOMAIN told
                /\ told'[cvar_hook_list[d][k]] = told[cvar_hook_list[d][k]]
            BY <1>6, <4>7, <6>1 DEF ExecuteForward
          <6>3. QED
            BY <2>6, <6>1, <6>2 DEF Facts, ToldFacts
        <5>3. QED
          BY <5>1, <5>2
      <4>8. QED
        BY <2>7, <3>2, <4>7 DEF ToldFacts
    <3>7. QED
      BY <3>3, <3>4, <3>5, <3>6 DEF Facts
  <2>10. QED
    BY <2>8, <2>9
<1>7. CASE SkipHook
  <2>1. /\ stack # <<>> /\ Top.op = "loop" /\ Top \in Call /\ Top.cvar \in Cvars
        /\ Top.val \in String /\ Top.pos \in Nat \ {0}
    BY <1>7, TopCall DEF SkipHook, InLoop, TypeOK, Call
  <2>2. PICK c \in Cvars : c = Top.cvar
    BY <2>1
  <2>3. PICK r : r = Became("loop", Top.cvar, Top.val, Top.pos + 1)
    OBVIOUS
  <2>a. r \in Calls
    BY <2>1, <2>3 DEF Calls, Call, Became
  <2>4. /\ r.op = "loop" /\ r.cvar = c /\ r.val = Top.val /\ r.pos = Top.pos + 1
        /\ stack' = Append(Front(stack), r)
    BY <1>7, <2>1, <2>2, <2>3, CallBecomes DEF SkipHook, Became
  <2>5. /\ Runs(d)' \ {Len(stack)} = Runs(d) \ {Len(stack)}
        /\ \A i \in Runs(d) \ {Len(stack)} : stack'[i] = stack[i]
        /\ Len(stack) \in Runs(d) <=> d = c
        /\ Len(stack) \in Runs(d)' <=> d = c
        /\ stack'[Len(stack)] = r
    BY <2>1, <2>2, <2>a, <2>4, ReplaceRuns
  <2>6. d \in known \ apart /\ Facts(d)
    BY <1>7 DEF SkipHook, m_cvars, CInv, CvarFacts
  <2>7. UNCHANGED <<string, value, type, has, bind_list, hook_state,
                    cvar_hook_list, cell>>
    BY <1>7 DEF SkipHook, m_cvars, lists
  <2>8. CASE d # c
    <3>1. Same(d) /\ ~Setting(d)
      BY <2>1, <2>5, <2>8, SameRuns DEF Setting
    <3>2. QED
      BY <1>7, <2>6, <2>7, <3>1, Quiet DEF SkipHook
  <2>9. CASE d = c
    <3>1. Runs(d) = {Len(stack)} /\ Runs(d)' = {Len(stack)}
      BY <2>5, <2>6, <2>9 DEF Facts, OneRun
    <3>2. Present(d)' = Present(d) /\ Present(d) = Top.val
      <4>1. Top = stack[Len(stack)]
        BY <2>1, TopCall DEF TypeOK
      <4>2. QED
        BY <2>6, <2>7, <3>1, <4>1 DEF Present, Facts, StringFacts
    <3>3. OneRun(d)' /\ StringFacts(d)'
      BY <2>4, <2>5, <2>6, <2>7, <3>1, <3>2
      DEF Facts, OneRun, StringFacts, Present
    <3>4. BoundFacts(d)'
      BY <2>6, <2>7, <3>2 DEF Facts, BoundFacts, Exclusive
    <3>5. RangeFacts(d)'
      <4>0. SUFFICES ASSUME SoundLimits PROVE Ranged(d)'
        BY DEF RangeFacts
      <4>1. PICK t, s : t = type[d] /\ s = Present(d)
        OBVIOUS
      <4>2. InRange(d, t, s)
        BY <2>6, <3>1, <4>0, <4>1 DEF Facts, RangeFacts, Ranged
      <4>3. InRange(d, t, s)'
        BY <2>7, <4>2, RangeKeeps
      <4>4. QED
        BY <2>7, <3>2, <4>1, <4>3 DEF Ranged
    <3>6. ToldFacts(d)'
      <4>1. stack[Len(stack)].pos = Top.pos /\ stack[Len(stack)].op = "loop"
        BY <2>1, TopCall DEF TypeOK
      <4>2. \A k \in DOMAIN cvar_hook_list[d] : k \in Nat \ {0}
        BY SeqElements DEF TypeOK, HookTypes
      <4>3. \A k \in DOMAIN cvar_hook_list[d] :
              k < Top.pos => Passed(d, k)
        BY <3>1, <4>1 DEF Passed
      <4>4. \A k \in DOMAIN cvar_hook_list[d] :
              Passed(d, k)' => k < Top.pos \/ k = Top.pos
        <5>1. \A k : Passed(d, k)' => k < r.pos
          BY <2>4, <2>5, <3>1 DEF Passed
        <5>2. QED
          BY <2>1, <2>4, <4>2, <5>1
      <4>5. cvar_hook_list[d][Top.pos] \notin DOMAIN told
        BY <1>7, <2>2, <2>9 DEF SkipHook, NextHook, CInv, HookFacts
      <4>6. \A k \in DOMAIN cvar_hook_list[d] :
              cvar_hook_list[d][k] \in DOMAIN told /\ Passed(d, k)' =>
                Passed(d, k)
        BY <4>3, <4>4, <4>5
      <4>7. told' = told
        BY <1>7 DEF SkipHook
      <4>8. QED
        BY <2>6, <2>7, <3>2, <4>6, <4>7 DEF Facts, ToldFacts
    <3>7. QED
      BY <3>3, <3>4, <3>5, <3>6 DEF Facts
  <2>10. QED
    BY <2>8, <2>9
<1>8. CASE HookReturn
  <2>1. /\ stack # <<>> /\ Top.op = "hook" /\ Top \in Call /\ Top.cvar \in Cvars
        /\ Top.val \in String /\ Top.pos \in Nat \ {0}
    BY <1>8, TopCall DEF HookReturn, TypeOK, Call
  <2>2. PICK c \in Cvars : c = Top.cvar
    BY <2>1
  <2>3. PICK r : r = Became("loop", Top.cvar, Top.val, Top.pos + 1)
    OBVIOUS
  <2>a. r \in Calls
    BY <2>1, <2>3 DEF Calls, Call, Became
  <2>4. /\ r.op = "loop" /\ r.cvar = c /\ r.val = Top.val /\ r.pos = Top.pos + 1
        /\ stack' = Append(Front(stack), r)
    BY <1>8, <2>1, <2>2, <2>3, CallBecomes DEF HookReturn, Became
  <2>5. /\ Runs(d)' \ {Len(stack)} = Runs(d) \ {Len(stack)}
        /\ \A i \in Runs(d) \ {Len(stack)} : stack'[i] = stack[i]
        /\ Len(stack) \in Runs(d) <=> d = c
        /\ Len(stack) \in Runs(d)' <=> d = c
        /\ stack'[Len(stack)] = r
    BY <2>1, <2>2, <2>a, <2>4, ReplaceRuns
  <2>6. d \in known \ apart /\ Facts(d)
    BY <1>8 DEF HookReturn, m_cvars, CInv, CvarFacts
  <2>7. UNCHANGED <<string, value, type, has, bind_list, hook_state,
                    cvar_hook_list, cell>>
    BY <1>8 DEF HookReturn, m_cvars, lists
  <2>8. CASE d # c
    <3>1. Same(d) /\ ~Setting(d)
      BY <2>1, <2>5, <2>8, SameRuns DEF Setting
    <3>2. QED
      BY <1>8, <2>6, <2>7, <3>1, Quiet DEF HookReturn
  <2>9. CASE d = c
    <3>1. Runs(d) = {Len(stack)} /\ Runs(d)' = {Len(stack)}
      BY <2>5, <2>6, <2>9 DEF Facts, OneRun
    <3>2. Present(d)' = Present(d) /\ Present(d) = Top.val
      <4>1. Top = stack[Len(stack)]
        BY <2>1, TopCall DEF TypeOK
      <4>2. QED
        BY <2>6, <2>7, <3>1, <4>1 DEF Present, Facts, StringFacts
    <3>3. OneRun(d)' /\ StringFacts(d)'
      BY <2>4, <2>5, <2>6, <2>7, <3>1, <3>2
      DEF Facts, OneRun, StringFacts, Present
    <3>4. BoundFacts(d)'
      BY <2>6, <2>7, <3>2 DEF Facts, BoundFacts, Exclusive
    <3>5. RangeFacts(d)'
      <4>0. SUFFICES ASSUME SoundLimits PROVE Ranged(d)'
        BY DEF RangeFacts
      <4>1. PICK t, s : t = type[d] /\ s = Present(d)
        OBVIOUS
      <4>2. InRange(d, t, s)
        BY <2>6, <3>1, <4>0, <4>1 DEF Facts, RangeFacts, Ranged
      <4>3. InRange(d, t, s)'
        BY <2>7, <4>2, RangeKeeps
      <4>4. QED
        BY <2>7, <3>2, <4>1, <4>3 DEF Ranged
    <3>6. ToldFacts(d)'
      <4>1. stack[Len(stack)].pos = Top.pos /\ stack[Len(stack)].op = "hook"
        BY <2>1, TopCall DEF TypeOK
      <4>2. \A k \in DOMAIN cvar_hook_list[d] : k \in Nat \ {0}
        BY SeqElements DEF TypeOK, HookTypes
      <4>3. \A k \in DOMAIN cvar_hook_list[d] :
              k < Top.pos => Passed(d, k)
        BY <3>1, <4>1 DEF Passed
      <4>4. \A k \in DOMAIN cvar_hook_list[d] :
              Passed(d, k)' => k < Top.pos \/ k = Top.pos
        <5>1. \A k : Passed(d, k)' => k < r.pos
          BY <2>4, <2>5, <3>1 DEF Passed
        <5>2. QED
          BY <2>1, <2>4, <4>2, <5>1
      <4>5. \A k : k = Top.pos => Passed(d, k)
        BY <3>1, <4>1 DEF Passed
      <4>6. told' = told
        BY <1>8 DEF HookReturn
      <4>7. QED
        BY <2>6, <2>7, <3>2, <4>3, <4>4, <4>5, <4>6 DEF Facts, ToldFacts
    <3>7. QED
      BY <3>3, <3>4, <3>5, <3>6 DEF Facts
  <2>10. QED
    BY <2>8, <2>9
<1>9. CASE SaveValue
  <2>1. /\ stack # <<>> /\ Top.op = "loop" /\ Top \in Call /\ Top.cvar \in Cvars
        /\ Top.val \in String /\ Top.pos \in Nat \ {0}
    BY <1>9, TopCall DEF SaveValue, InLoop, TypeOK, Call
  <2>2. PICK c \in Cvars : c = Top.cvar
    BY <2>1
  <2>3. /\ Runs(d)' = Runs(d) \ {Len(stack)}
        /\ \A i \in Runs(d) \ {Len(stack)} : stack'[i] = stack[i]
        /\ Len(stack) \in Runs(d) <=> d = c
    BY <1>9, <2>1, <2>2, PopRuns DEF SaveValue
  <2>4. d \in known \ apart /\ Facts(d)
    BY <1>9 DEF SaveValue, CInv, CvarFacts
  <2>5. UNCHANGED <<string, type, has, bind_list, hook_state, cvar_hook_list,
                    cell, told>>
    BY <1>9 DEF SaveValue, lists
  <2>6. CASE d # c
    <3>1. Untouched(d)
      BY <1>9, <2>1, <2>2, <2>3, <2>5, <2>6
      DEF SaveValue, Untouched, Same, Setting, Exclusive, TypeOK, CvarTypes
    <3>2. QED
      BY <2>4, <3>1, Frame
  <2>7. CASE d = c
    <3>1. Runs(d) = {Len(stack)} /\ Runs(d)' = {}
      BY <2>3, <2>4, <2>7 DEF Facts, OneRun
    <3>2. Top = stack[Len(stack)]
      BY <2>1, TopCall DEF TypeOK
    <3>3. value'[d] = Top.val /\ string[d] = Top.val
      BY <1>9, <2>2, <2>4, <2>7, <3>1, <3>2 DEF SaveValue, Facts, StringFacts,
         TypeOK, CvarTypes
    <3>4. Present(d)' = Present(d)
      BY <3>1, <3>3 DEF Present
    <3>5. OneRun(d)' /\ StringFacts(d)'
      BY <2>5, <3>1, <3>3 DEF OneRun, StringFacts
    <3>6. BoundFacts(d)'
      BY <2>4, <2>5, <3>4 DEF Facts, BoundFacts, Exclusive
    <3>7. RangeFacts(d)'
      <4>0. SUFFICES ASSUME SoundLimits PROVE Ranged(d)'
        BY DEF RangeFacts
      <4>1. PICK t, s : t = type[d] /\ s = Present(d)
        OBVIOUS
      <4>2. InRange(d, t, s)
        BY <2>4, <3>1, <4>0, <4>1 DEF Facts, RangeFacts, Ranged
      <4>3. InRange(d, t, s)'
        BY <2>5, <4>2, RangeKeeps
      <4>4. QED
        BY <2>5, <3>4, <4>1, <4>3 DEF Ranged
    <3>8. ToldFacts(d)'
      <4>1. \A k \in DOMAIN cvar_hook_list[d] : k < Top.pos
        <5>1. Len(cvar_hook_list[d]) < Top.pos
          BY <1>9, <2>1, <2>2, <2>7, SeqElements DEF SaveValue, InLoop, TypeOK,
             HookTypes
        <5>2. QED
          BY <2>1, <5>1, SeqElements DEF TypeOK, HookTypes
      <4>2. \A k \in DOMAIN cvar_hook_list[d] : Passed(d, k)
        BY <3>1, <3>2, <4>1 DEF Passed
      <4>3. QED
        BY <2>4, <2>5, <3>4, <4>2 DEF Facts, ToldFacts
    <3>9. QED
      BY <3>5, <3>6, <3>7, <3>8 DEF Facts
  <2>8. QED
    BY <2>6, <2>7
<1>10. QED
  BY <1>1, <1>2, <1>3, <1>4, <1>5, <1>6, <1>7, <1>8, <1>9 DEF OnDirectSet

(* config() only makes the engine set cvars. *)
LEMMA ConfigFacts ==
  ASSUME TypeOK, CInv, Config, NEW d \in Cvars, d \in known', d \notin apart'
  PROVE  Facts(d)'
<1>1. CASE ConfigBegin
  <2>1. d \in known \ apart /\ Facts(d) /\ Same(d) /\ ~Setting(d)
    BY <1>1, ConfigRuns DEF ConfigBegin, m_cvars, CInv, CvarFacts
  <2>2. QED
    BY <1>1, <2>1, Quiet DEF ConfigBegin, m_cvars, lists
<1>2. CASE ConfigCvar
  <2>1. d \in known \ apart /\ Facts(d) /\ Same(d) /\ ~Setting(d)
    BY <1>2, ConfigRuns DEF ConfigCvar, m_cvars, CInv, CvarFacts
  <2>2. QED
    BY <1>2, <2>1, Quiet DEF ConfigCvar, m_cvars, lists
<1>3. CASE ConfigEnd
  <2>1. d \in known \ apart /\ Facts(d) /\ Same(d) /\ ~Setting(d)
    BY <1>3, ConfigRuns DEF ConfigEnd, m_cvars, CInv, CvarFacts
  <2>2. QED
    BY <1>3, <2>1, Quiet DEF ConfigEnd, m_cvars, lists
<1>4. QED
  BY <1>1, <1>2, <1>3 DEF Config

(* The natives keep what is known of a cvar. *)
LEMMA NativeFacts ==
  ASSUME TypeOK, CInv, NEW v \in Cvars, Natives(v), NEW d \in Cvars, d \in
         known', d \notin apart'
  PROVE  Facts(d)'
<1>1. ASSUME NEW c \in Cvars, AddExists(c)
      PROVE  Facts(d)'
  <2>1. Same(d) /\ ~Setting(d)
    BY <1>1, KeepRuns, PluginSets DEF AddExists
  <2>2. CASE d # c
    <3>1. d \in known \ apart /\ Untouched(d)
      BY <1>1, <2>1, <2>2
      DEF AddExists, Untouched, Exclusive, lists, TypeOK, CvarTypes
    <3>2. QED
      BY <3>1, Frame DEF CInv, CvarFacts
  <2>3. CASE d = c
    <3>1. Runs(d)' = {}
      BY <1>1, <2>1, <2>3, RunCall DEF AddExists, Same
    <3>2. /\ bind_list'[d] = <<>> /\ cvar_hook_list'[d] = <<>>
      BY <1>1, <2>3 DEF AddExists, lists, TypeOK, BindTypes, HookTypes
    <3>3. type'[d] = "NONE" /\ value'[d] = string'[d]
      BY <1>1, <2>3 DEF AddExists, TypeOK, CvarTypes
    <3>4. QED
      BY <3>1, <3>2, <3>3 DEF Facts, OneRun, StringFacts, ToldFacts, BoundFacts,
         RangeFacts, Ranged, InRange
  <2>4. QED
    BY <2>2, <2>3
<1>2. ASSUME NEW c \in Cvars, NEW s \in Inputs, Set(c, s)
      PROVE  Facts(d)'
  <2>1. /\ stack' = Append(stack, SetCall(c, s)) /\ InPlugin
        /\ UNCHANGED <<string, m_cvars, lists, cell, told, apart>>
    BY <1>2 DEF Set, CallSet
  <2>2. PICK r \in Calls : r = SetCall(c, s)
    BY CallRecords, InputStrings
  <2>3. Same(d)
    BY <2>1, <2>2, PushRuns DEF SetCall
  <2>4. ~Setting(d) /\ Facts(d)
    BY <2>1, PluginSets DEF CInv, CvarFacts, m_cvars
  <2>5. QED
    BY <2>1, <2>3, <2>4, Quiet DEF m_cvars, lists
<1>3. ASSUME NEW c \in Cvars, NEW s \in Inputs, NEW l \in Limits, NEW desc \in
         BOOLEAN, Add(c, s, l, desc)
      PROVE  Facts(d)'
  <2>1. Same(d) /\ ~Setting(d)
    BY <1>3, KeepRuns, PluginSets DEF Add
  <2>2. CASE d # c
    <3>1. string'[d] = string[d]
      BY <1>3, <2>2 DEF Add, create_cvar, TypeOK, CvarTypes
    <3>2. d \in known \ apart /\ Untouched(d)
      BY <1>3, <2>1, <2>2, <3>1 DEF Add, Untouched, Exclusive, TypeOK, CvarTypes
    <3>3. QED
      BY <3>2, Frame DEF CInv, CvarFacts
  <2>3. CASE d = c
    <3>1. d \notin apart /\ bind_list[d] = <<>> /\ string'[d] = s
      BY <1>3, <2>3 DEF Add
    <3>2. /\ type'[d] = "NONE" /\ value'[d] = s
          /\ UNCHANGED <<bind_list, cvar_hook_list, told>>
      BY <1>3, <2>3 DEF Add, TypeOK, CvarTypes
    <3>3. Runs(d) = {}
      <4>1. CASE d \notin known
        BY <4>1, RunCall
      <4>2. CASE d \in known
        <5>1. type[d] = "NONE"
          BY <3>1 DEF CInv, BindFacts
        <5>2. QED
          BY <3>1, <4>2, <5>1 DEF CInv, CvarFacts, Facts, StringFacts
      <4>3. QED
        BY <4>1, <4>2
    <3>4. Runs(d)' = {}
      BY <2>1, <3>3 DEF Same
    <3>5. ToldFacts(d)'
      <4>1. CASE d \notin known
        BY <3>2, <4>1 DEF ToldFacts, TypeOK, HookTypes
      <4>2. CASE d \in known
        <5>1. string'[d] = string[d]
          BY <1>3, <2>3, <4>2 DEF Add, create_cvar, TypeOK, CvarTypes
        <5>2. Facts(d)
          BY <3>1, <4>2 DEF CInv, CvarFacts
        <5>3. Present(d)' = Present(d)
          BY <2>1, <3>1, <3>2, <3>3, <3>4, <5>1, <5>2 DEF Present, Facts,
             StringFacts
        <5>4. \A k : Passed(d, k)
          BY <3>3 DEF Passed
        <5>5. QED
          BY <3>2, <5>2, <5>3, <5>4 DEF Facts, ToldFacts
      <4>3. QED
        BY <4>1, <4>2
    <3>6. QED
      BY <3>1, <3>2, <3>4, <3>5 DEF Facts, OneRun, StringFacts, BoundFacts,
         RangeFacts, Ranged, InRange
  <2>4. QED
    BY <2>2, <2>3
<1>4. ASSUME NEW c \in Cvars, NEW t \in Types, NEW p \in Ptrs, Bind(t, c, p)
      PROVE  Facts(d)'
  <2>1. ~Setting(d) /\ d \in known \ apart /\ Facts(d) /\ string[c] \in String
    BY <1>4, PluginSets DEF Bind, CInv, CvarFacts, TypeOK, CvarTypes
  <2>2. PICK b \in Bound : b = [ptr |-> p, type |-> t]
    BY DEF Bound
  <2>3. b.ptr = p /\ b.type = t
    BY <2>2
  <2>4. PICK q \in Seq(Bound) : q = Append(bind_list[c], b)
    <3>1. bind_list[c] \in Seq(Bound)
      BY DEF TypeOK, BindTypes
    <3>2. QED
      BY <3>1, TopPushed
  <2>5. /\ DOMAIN bind_list[c] = 1 .. Len(bind_list[c])
        /\ Len(bind_list[c]) \in Nat /\ q # <<>>
        /\ DOMAIN q = 1 .. (Len(bind_list[c]) + 1)
        /\ q[Len(bind_list[c]) + 1] = b
        /\ \A i \in 1 .. Len(bind_list[c]) : q[i] = bind_list[c][i]
    BY <2>4, TopPushed, SeqElements DEF TypeOK, BindTypes
  <2>6. bind_list' = [bind_list EXCEPT ![c] = q]
    BY <1>4, <2>2, <2>4 DEF Bind
  <2>7. /\ \A i \in DOMAIN bind_list[c] :
             i \in DOMAIN q /\ q[i] = bind_list[c][i]
        /\ \A i \in DOMAIN q :
             \/ i \in DOMAIN bind_list[c] /\ q[i] = bind_list[c][i]
             \/ q[i] = b
        /\ \E i \in DOMAIN q : q[i] = b
    BY <2>5
  <2>8. /\ cell' = [cell EXCEPT ![p] = Copy(t, string[c])]
        /\ type' = [type EXCEPT ![c] = t] /\ type[c] \in {"NONE", t}
        /\ UNCHANGED <<string, value, has, cvar_hook_list, told>>
    BY <1>4 DEF Bind
  <2>9. /\ bind_list'[c] = q
        /\ \A x \in Cvars \ {c} : bind_list'[x] = bind_list[x]
    BY <2>6 DEF TypeOK, BindTypes
  <2>10. Same(d)
    <3>1. CASE UNCHANGED stack
      BY <3>1, KeepRuns
    <3>2. ASSUME NEW s \in Fixed(c, t, string[c]), ~InRange(c, t, string[c]),
                 stack' = Append(stack, SetCall(c, s))
          PROVE  Same(d)
      <4>1. s \in String
        BY <2>1, <3>2, FixedInRange
      <4>2. PICK r \in Calls : r = SetCall(c, s)
        BY <4>1, CallRecords
      <4>3. QED
        BY <3>2, <4>2, PushRuns DEF SetCall
    <3>3. QED
      BY <1>4, <3>1, <3>2 DEF Bind, CallSet
  <2>11. Present(d)' = Present(d)
    BY <2>8, <2>10 DEF Present, Same
  <2>12. OneRun(d)'
    BY <2>1, <2>10 DEF Facts, OneRun, Same
  <2>13. Present(d) = string[d]
    BY <2>1 DEF Facts, StringFacts, Present
  <2>14. ToldFacts(d)'
    <3>1. \A k : Passed(d, k)' => Passed(d, k)
      BY <2>10 DEF Passed, Same
    <3>2. QED
      BY <2>1, <2>8, <2>11, <3>1 DEF Facts, ToldFacts
  <2>15. type'[d] = IF d = c THEN t ELSE type[d]
    BY <2>8 DEF TypeOK, CvarTypes
  <2>16. t # "NONE"
    BY CvarAssumption
  <2>17. StringFacts(d)'
    BY <2>1, <2>8, <2>10, <2>15, <2>16 DEF Facts, StringFacts, Same
  <2>18. CASE d # c
    <3>1. ASSUME NEW i \in DOMAIN bind_list[d],
                 Exclusive(d, bind_list[d][i].ptr)'
          PROVE  cell'[bind_list[d][i].ptr] =
                   Copy(bind_list[d][i].type, Present(d))
      <4>1. PICK x \in Ptrs : x = bind_list[d][i].ptr
        BY BoundElement DEF TypeOK
      <4>2. \A y \in Cvars \ {d} : \A j \in DOMAIN bind_list'[y] :
              bind_list'[y][j].ptr # x
        BY <2>9, <2>18, <3>1, <4>1 DEF Exclusive
      <4>3. x # p
        BY <2>3, <2>7, <2>9, <2>18, <4>2
      <4>4. \A y \in Cvars \ {d} : \A j \in DOMAIN bind_list[y] :
              bind_list[y][j].ptr # x
        BY <2>7, <2>9, <2>18, <4>2
      <4>5. cell'[x] = cell[x]
        BY <2>8, <4>3 DEF TypeOK, BindTypes
      <4>6. Exclusive(d, bind_list[d][i].ptr)
        BY <4>1, <4>4 DEF Exclusive
      <4>7. QED
        BY <2>1, <4>1, <4>5, <4>6 DEF Facts, BoundFacts
    <3>2. BoundFacts(d)'
      BY <2>1, <2>9, <2>11, <2>15, <2>18, <3>1 DEF Facts, BoundFacts, Exclusive
    <3>3. RangeFacts(d)'
      <4>0. SUFFICES ASSUME SoundLimits PROVE Ranged(d)'
        BY DEF RangeFacts
      <4>1. PICK x, s : x = type[d] /\ s = Present(d)
        OBVIOUS
      <4>2. InRange(d, x, s)
        BY <2>1, <4>0, <4>1 DEF Facts, RangeFacts, Ranged
      <4>3. InRange(d, x, s)'
        BY <2>8, <4>2, RangeKeeps
      <4>4. QED
        BY <2>11, <2>15, <2>18, <4>1, <4>3 DEF Ranged
    <3>4. QED
      BY <2>12, <2>14, <2>17, <3>2, <3>3 DEF Facts
  <2>19. CASE d = c
    <3>1. ASSUME NEW i \in DOMAIN q, Exclusive(d, q[i].ptr)'
          PROVE  cell'[q[i].ptr] = Copy(q[i].type, Present(d))
      <4>1. CASE q[i] = b
        BY <2>3, <2>8, <2>13, <2>19, <4>1 DEF TypeOK, BindTypes
      <4>2. CASE i \in DOMAIN bind_list[c] /\ q[i] = bind_list[c][i]
        <5>1. PICK x \in Ptrs : x = bind_list[c][i].ptr
          BY <4>2, BoundElement DEF TypeOK
        <5>2. x # p
          BY <1>4, <4>2, <5>1 DEF Bind
        <5>3. Exclusive(d, x)
          BY <2>9, <2>19, <3>1, <4>2, <5>1 DEF Exclusive
        <5>4. cell'[x] = cell[x]
          BY <2>8, <5>2 DEF TypeOK, BindTypes
        <5>5. QED
          BY <2>1, <2>19, <4>2, <5>1, <5>3, <5>4 DEF Facts, BoundFacts
      <4>3. QED
        BY <2>7, <4>1, <4>2
    <3>2. BoundFacts(d)'
      BY <2>9, <2>11, <2>15, <2>16, <2>19, <3>1 DEF BoundFacts, Exclusive
    <3>3. RangeFacts(d)'
      <4>0. SUFFICES ASSUME SoundLimits PROVE Ranged(d)'
        BY DEF RangeFacts
      <4>1. PICK s0 \in String : s0 = string[c]
        BY <2>1
      <4>2. CASE InRange(c, t, s0)
        <5>1. InRange(c, t, s0)'
          BY <2>8, <4>2, RangeKeeps
        <5>2. QED
          BY <2>11, <2>13, <2>15, <2>19, <4>1, <5>1 DEF Ranged
      <4>3. CASE ~InRange(c, t, s0)
        <5>1. Runs(d) = {}
          <6>1. InRange(d, type[d], Present(d))
            BY <2>1, <4>0 DEF Facts, RangeFacts, Ranged
          <6>2. type[c] = "NONE"
            BY <2>8, <2>13, <2>19, <4>1, <4>3, <6>1
          <6>3. QED
            BY <2>1, <2>19, <6>2 DEF Facts, StringFacts
        <5>2. PICK s \in Fixed(c, t, s0) : stack' = Append(stack, SetCall(c, s))
          BY <1>4, <4>1, <4>3 DEF Bind, CallSet
        <5>3. /\ s \in String /\ s # s0
              /\ InRange(c, t, s) \/ (s0 = Text /\ s = Short(0))
          BY <4>0, <4>3, FixedInRange
        <5>4. PICK r \in Calls : r = SetCall(c, s)
          BY <5>3, CallRecords
        <5>5. r.op = "set" /\ r.cvar = c /\ r.val = s
          BY <5>4 DEF SetCall
        <5>6. stack' # <<>> /\ Top' = r
          BY <5>2, <5>4, <5>5, PushRuns
        <5>7. Runs(d)' = {} /\ Setting(d)' /\ Top'.val = s
          BY <2>10, <2>19, <5>1, <5>5, <5>6 DEF Same, Setting
        <5>8. value'[d] = s0 /\ type'[d] = t
          BY <2>8, <2>13, <2>15, <2>19, <4>1, <5>1 DEF Present
        <5>9. InRange(c, t, s)' \/ (s0 = Text /\ s = Short(0))
          BY <2>8, <5>3, RangeKeeps
        <5>10. QED
          BY <2>19, <5>3, <5>7, <5>8, <5>9 DEF Ranged
      <4>4. QED
        BY <4>2, <4>3
    <3>4. QED
      BY <2>12, <2>14, <2>17, <3>2, <3>3 DEF Facts
  <2>20. QED
    BY <2>18, <2>19
<1>5. ASSUME NEW c \in Cvars, NEW h \in Hooks, NEW e \in BOOLEAN, CreateHook(h,
         c, e)
      PROVE  Facts(d)'
  <2>1. Same(d) /\ ~Setting(d) /\ d \in known \ apart /\ Facts(d)
    BY <1>5, KeepRuns, PluginSets DEF CreateHook, m_cvars, CInv, CvarFacts
  <2>2. CASE d # c
    <3>1. Untouched(d)
      BY <1>5, <2>1, <2>2
      DEF CreateHook, Untouched, Exclusive, m_cvars, TypeOK, HookTypes
    <3>2. QED
      BY <2>1, <3>1, Frame
  <2>3. CASE d = c
    <3>1. UNCHANGED <<string, value, type, has, bind_list, cell, told>>
      BY <1>5 DEF CreateHook, m_cvars
    <3>2. Present(d)' = Present(d)
      BY <2>1, <3>1 DEF Present, Same
    <3>3. OneRun(d)' /\ StringFacts(d)'
      BY <2>1, <3>1 DEF Facts, OneRun, StringFacts, Same
    <3>4. BoundFacts(d)'
      BY <2>1, <3>1, <3>2 DEF Facts, BoundFacts, Exclusive
    <3>5. RangeFacts(d)'
      <4>0. SUFFICES ASSUME SoundLimits PROVE Ranged(d)'
        BY DEF RangeFacts
      <4>1. PICK t, s : t = type[d] /\ s = Present(d)
        OBVIOUS
      <4>2. InRange(d, t, s)
        BY <2>1, <4>0, <4>1 DEF Facts, RangeFacts, Ranged
      <4>3. InRange(d, t, s)'
        BY <3>1, <4>2, RangeKeeps
      <4>4. QED
        BY <3>1, <3>2, <4>1, <4>3 DEF Ranged
    <3>6. ToldFacts(d)'
      <4>1. \A k \in DOMAIN cvar_hook_list'[d] :
              \/ cvar_hook_list'[d][k] = h
              \/ /\ k \in DOMAIN cvar_hook_list[d]
                 /\ cvar_hook_list'[d][k] = cvar_hook_list[d][k]
        BY <1>5, <2>3 DEF CreateHook, TypeOK, HookTypes
      <4>2. h \notin DOMAIN told
        BY <1>5 DEF CreateHook, TypeOK, HookTypes
      <4>3. \A k : Passed(d, k)' => Passed(d, k)
        BY <2>1 DEF Passed, Same
      <4>4. QED
        BY <2>1, <3>1, <3>2, <4>1, <4>2, <4>3 DEF Facts, ToldFacts
    <3>7. QED
      BY <3>3, <3>4, <3>5, <3>6 DEF Facts
  <2>4. QED
    BY <2>2, <2>3
<1>6. QED
  BY <1>1, <1>2, <1>3, <1>4, <1>5 DEF Natives

(* rf_cvar_hook_state keeps what is known of a cvar. *)
LEMMA StateFacts ==
  ASSUME TypeOK, CInv, NEW k \in Hooks, NEW b \in BOOLEAN, HookState(k, b), NEW
         d \in Cvars, d \in known', d \notin apart'
  PROVE  Facts(d)'
<1>1. ASSUME NEW h \in Hooks, NEW e \in BOOLEAN, HookState(h, e)
      PROVE  Facts(d)'
  <2>1. Same(d) /\ ~Setting(d) /\ Facts(d)
    BY <1>1, KeepRuns, PluginSets DEF HookState, CInv, CvarFacts, m_cvars
  <2>2. QED
    BY <1>1, <2>1, Quiet DEF HookState, m_cvars
<1>2. QED
  BY <1>1

(* Every step keeps the invariant. *)
LEMMA InvStep ==
  ASSUME TypeOK, TypeOK', CInv, [Next]_vars
  PROVE  CInv'
<1>1. CASE Next
  <2>1. HookFacts' /\ BindFacts'
    BY <1>1, HookStep, BindStep DEF CInv
  <2>2. ASSUME NEW d \in known' \ apart'
        PROVE  Facts(d)'
    <3>1. d \in Cvars
      BY DEF TypeOK, CvarTypes
    <3>2. CASE OnDirectSet
      BY <3>1, <3>2, CallFacts
    <3>3. CASE Config
      BY <3>1, <3>3, ConfigFacts
    <3>4. CASE ClearAll
      BY <3>4 DEF ClearAll
    <3>5. ASSUME NEW x \in Cvars, Natives(x)
          PROVE  Facts(d)'
      BY <3>1, <3>5, NativeFacts
    <3>6. ASSUME NEW k \in Hooks, NEW b \in BOOLEAN, HookState(k, b)
          PROVE  Facts(d)'
      BY <3>1, <3>6, StateFacts
    <3>7. QED
      BY <1>1, <3>2, <3>3, <3>4, <3>5, <3>6 DEF Next
  <2>3. QED
    BY <2>1, <2>2 DEF CInv, CvarFacts
<1>2. CASE UNCHANGED vars
  BY <1>2 DEF CInv, HookFacts, BindFacts, CvarFacts, Facts, OneRun, StringFacts,
     ToldFacts, BoundFacts, RangeFacts, Ranged, Runs, Setting, Present, Passed,
     Exclusive, InRange, BelowMin, AboveMax, Top, vars, m_cvars, lists
<1>3. QED
  BY <1>1, <1>2

-----------------------------------------------------------------------------
(* Outside of what add() and nested calls are known to disturb, a cvar is  *)
(* changed by one call at a time, and the copy, the bound variables, the   *)
(* hooks passed and the range agree on its value throughout the change.    *)
THEOREM Inductive == Spec => [](TypeOK /\ CInv)
<1>1. Init => TypeOK /\ CInv
  <2>1. Init => TypeOK
    BY DEF Init, TypeOK, CvarTypes, BindTypes, HookTypes, CallTypes, String,
       Short
  <2>2. Init => CInv
    BY DEF Init, CInv, HookFacts, BindFacts, CvarFacts
  <2>3. QED
    BY <2>1, <2>2
<1>2. TypeOK /\ CInv /\ [Next]_vars => (TypeOK /\ CInv)'
  BY TypeStep, InvStep
<1>3. QED
  BY <1>1, <1>2, PTL DEF Spec

(* No call in progress: the copy is the value. *)
LEMMA RestingValue ==
  ASSUME TypeOK, CInv, stack = <<>>, NEW c \in known \ apart
  PROVE  Facts(c) /\ Runs(c) = {} /\ ~Setting(c) /\ value[c] = string[c]
BY DEF CInv, CvarFacts, Facts, StringFacts, Runs, Setting

(* Plugin code runs: variables and ranges are those of the engine's string. *)
LEMMA PluginValue ==
  ASSUME TypeOK, CInv, InPlugin, NEW c \in known \ apart
  PROVE  /\ Facts(c) /\ Present(c) = string[c]
         /\ SoundLimits => InRange(c, type[c], string[c])
<1>1. Facts(c) /\ ~Setting(c)
  BY PluginSets DEF CInv, CvarFacts
<1>2. Present(c) = string[c]
  BY <1>1 DEF Facts, StringFacts, Present
<1>3. QED
  BY <1>1, <1>2 DEF Facts, RangeFacts, Ranged

(* Whenever plugin code runs, within hooks too, a bound variable has the   *)
(* value of its cvar (l.366, l.386), unless the cvar is in apart: add()    *)
(* was called on it again, or it was set from within its own hook.         *)
THEOREM BindsAreCurrent == Spec => []BindCurrent
<1>1. TypeOK /\ CInv => BindCurrent
  <2>1. SUFFICES ASSUME TypeOK, CInv, InPlugin, NEW c \in known \ apart,
                        type[c] # "NONE", NEW i \in DOMAIN bind_list[c],
                        Exclusive(c, bind_list[c][i].ptr)
                 PROVE  cell[bind_list[c][i].ptr] =
                          Copy(bind_list[c][i].type, string[c])
    BY DEF BindCurrent, Exclusive
  <2>2. QED
    BY <2>1, PluginValue DEF Facts, BoundFacts
<1>2. QED
  BY <1>1, Inductive, PTL

(* When the limits are whole and in order, which rf_create_cvar does not   *)
(* check, a bound numeric cvar that is not in apart is a number within     *)
(* them whenever plugin code runs: check_range() has replaced what was not *)
(* (l.89).                                                                 *)
THEOREM RangeIsKept == Spec => []RangeKept
<1>1. TypeOK /\ CInv => RangeKept
  <2>1. SUFFICES ASSUME SoundLimits, TypeOK, CInv, InPlugin,
                        NEW c \in known \ apart, type[c] \in {"NUM", "FLT"}
                 PROVE  /\ string[c] # Text
                        /\ "min" \in has[c] =>
                             NumberOf(type[c], string[c]) >= min_val
                        /\ "max" \in has[c] =>
                             NumberOf(type[c], string[c]) <= max_val
    BY DEF RangeKept
  <2>2. string[c] \in String
    BY <2>1 DEF TypeOK, CvarTypes
  <2>3. NumberOf(type[c], string[c]) \in Int
    BY <2>2, TruncWhole DEF NumberOf, String
  <2>4. InRange(c, type[c], string[c])
    BY <2>1, PluginValue
  <2>5. QED
    BY <2>1, <2>3, <2>4, CvarAssumption DEF InRange, BelowMin, AboveMax
<1>2. QED
  BY <1>1, Inductive, PTL

(* Once a change is over, the hooks of a cvar that is not in apart that    *)
(* were told of a value were told the present one (l.392).                 *)
THEOREM HooksAreCurrent == Spec => []HookCurrent
<1>1. TypeOK /\ CInv => HookCurrent
  <2>1. SUFFICES ASSUME TypeOK, CInv, stack = <<>>, NEW c \in known \ apart,
                        NEW k \in DOMAIN cvar_hook_list[c],
                        cvar_hook_list[c][k] \in DOMAIN told
                 PROVE  told[cvar_hook_list[c][k]] = string[c]
    BY DEF HookCurrent, ToSet
  <2>2. Present(c) = string[c] /\ Passed(c, k) /\ Facts(c)
    BY <2>1, RestingValue DEF Present, Passed
  <2>3. QED
    BY <2>1, <2>2 DEF Facts, ToldFacts
<1>2. QED
  BY <1>1, Inductive, PTL

=============================================================================
