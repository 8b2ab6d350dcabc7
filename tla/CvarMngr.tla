------------------------------ MODULE CvarMngr ------------------------------
(***************************************************************************)
(* The cvar manager of refsapi_cvar_mngr.h.                                *)
(*                                                                         *)
(* The engine keeps the string of a cvar.  The manager keeps beside it an  *)
(* m_cvar_t with a copy of the string, a type and limits, the plugin       *)
(* variables bound to it, and the hooks to call when it changes.  All runs *)
(* on the game thread, but a hook is plugin code, which may set cvars,     *)
(* this one included, bind, hook and create: the calls of on_direct_set    *)
(* nest, and stack holds the ones that have begun.                         *)
(*                                                                         *)
(* A string is a record: a number in halves, as a plugin writes it         *)
(* ("short") or as %f prints it ("float"), or a text that is no number.    *)
(* The name of a cvar, its cvar_t and its m_cvar_t are one index.          *)
(***************************************************************************)
EXTENDS Integers, Sequences, SequencesExt, FiniteSets

CONSTANTS
  Cvars,           \* indices of cvars, in the order of their names
  Numbers,         \* numbers that plugins and the console write, in halves
  Floats,          \* those that plugins set as floats, printed with %f
  min_val, max_val,\* limits that plugins give, in halves
  FloatForms,      \* how the engine prints a float that is a whole number
  Limits,          \* which of them a cvar gets: subsets of {"min", "max"}
  Types,           \* types that plugins bind with
  Ptrs,            \* plugin variables
  Hooks,           \* forwards
  MaxDepth         \* bound: nested calls

ASSUME CvarAssumption ==
  /\ Cvars \subseteq Nat \ {0} /\ IsFiniteSet(Cvars)
  /\ Numbers \subseteq Int /\ Floats \subseteq Int
  /\ min_val \in Int /\ max_val \in Int
  /\ FloatForms \subseteq {"short", "float"}
  /\ Limits \subseteq SUBSET {"min", "max"}
  /\ Types \subseteq {"NUM", "FLT", "STR", "FLG"}
  /\ MaxDepth \in Nat

String == [kind : {"short", "float", "text"}, num : Int]
Short(n) == [kind |-> "short", num |-> n]
Text     == [kind |-> "text", num |-> 0]
Float(n) == [kind |-> "float", num |-> n]
Inputs   == {Short(n) : n \in Numbers} \cup {Float(n) : n \in Floats} \cup {Text}

VARIABLES
  registered, string,        \* engine: cvars that exist, and their strings
  known,                     \* cvar_list and p_cvar
  value, type, has,          \* fields of m_cvar_t; has: the limits in force
  bind_list,                 \* pointers with their types
  hook_state,                \* forward -> enabled
  cvar_hook_list,            \* forwards of a cvar
  plugin,                    \* cvars with a description, for config()
  stack,                     \* calls in progress
  cell,                      \* contents of the plugin variables
  told,                      \* history: what a hook was told last
  apart                      \* history: cvars whose copy of the string was
                             \* overwritten by add() or by a nested call, and
                             \* that no other call has changed since

m_cvars == <<known, value, type, has>>
lists   == <<bind_list, hook_state, cvar_hook_list, plugin>>
vars    == <<registered, string, m_cvars, lists, stack, cell, told, apart>>

Init ==
  /\ registered \in SUBSET Cvars
  /\ string = [c \in Cvars |-> Short(0)]
  /\ known = {} /\ value = [c \in Cvars |-> Short(0)]
  /\ type = [c \in Cvars |-> "NONE"] /\ has = [c \in Cvars |-> {}]
  /\ bind_list = [c \in Cvars |-> <<>>]
  /\ hook_state = <<>> /\ cvar_hook_list = [c \in Cvars |-> <<>>]
  /\ plugin = <<>> /\ stack = <<>>
  /\ cell = [p \in Ptrs |-> Short(0)]
  /\ told = <<>> /\ apart = {}

-----------------------------------------------------------------------------
(* Numbers and strings. *)

(* Towards zero, as (int)result. *)
Trunc(n) == IF n >= 0 THEN n - (n % 2) ELSE -((-n) - ((-n) % 2))

NumberOf(t, s) == IF t = "NUM" THEN Trunc(s.num) ELSE s.num

BelowMin(c, t, s) == "min" \in has[c] /\ NumberOf(t, s) < min_val
AboveMax(c, t, s) == "max" \in has[c] /\ NumberOf(t, s) > max_val

(* Mutant: the upper limit is not checked. *)
InRangeBelowOnly(c, t, s) ==
  t \in {"NUM", "FLT"} => s # Text /\ ~BelowMin(c, t, s)

(* check_range() finds nothing to fix. *)
InRange(c, t, s) ==
  t \in {"NUM", "FLT"} =>
    s # Text /\ ~BelowMin(c, t, s) /\ ~AboveMax(c, t, s)

(* The string that check_range() sets instead: "0", or a limit in one of   *)
(* the forms in which the engine may print a float.                        *)
Fixed(c, t, s) ==
  IF s = Text THEN {Short(0)}
  ELSE LET limit == IF BelowMin(c, t, s) THEN min_val ELSE max_val
       IN {[kind |-> form, num |-> limit] : form \in FloatForms}

(* copy_bind: what a variable of a type receives. *)
Copy(t, s) ==
  CASE t = "NUM" -> Short(Trunc(s.num))
    [] t = "FLT" -> Short(s.num)
    [] t = "STR" -> s
    [] t = "FLG" -> IF s = Text THEN Short(2) ELSE Short(0)

-----------------------------------------------------------------------------
(* Calls. *)

Top == Last(stack)
Pop == stack' = Front(stack)
InPlugin == stack # <<>> => Top.op = "hook"
SetCall(c, s) == [op |-> "set", cvar |-> c, val |-> s, pos |-> 0]

(* A native or the console sets a cvar: the call is on its way. *)
CallSet(c, s) ==
  /\ Len(stack) < MaxDepth
  /\ stack' = Append(stack, SetCall(c, s))

(* Calls of on_direct_set for c that have begun. *)
Busy(c) == \E i \in DOMAIN stack : stack[i].op # "set" /\ stack[i].cvar = c

(* Mutant: only the first variable of the list is written. *)
CopyBindsFirst(c, s) ==
  IF bind_list[c] = <<>> THEN cell
  ELSE [cell EXCEPT ![bind_list[c][1].ptr] = Copy(bind_list[c][1].type, s)]

CopyBinds(c, s) ==
  [p \in Ptrs |->
     LET mine == {i \in DOMAIN bind_list[c] : bind_list[c][i].ptr = p} IN
     IF mine = {} THEN cell[p]
     ELSE Copy(bind_list[c][CHOOSE i \in mine : TRUE].type, s)]

Forget(c) ==
  [h \in DOMAIN told \ {cvar_hook_list[c][i] : i \in DOMAIN cvar_hook_list[c]}
     |-> told[h]]

(* RF_Cvar_DirectSet_RH: the engine has set the string (callNext); a cvar  *)
(* seen for the first time is only noted.                                  *)
Entering ==
  /\ stack # <<>> /\ Top.op = "set"
  /\ string' = [string EXCEPT ![Top.cvar] = Top.val]

Nested == IF Busy(Top.cvar) THEN apart \cup {Top.cvar} ELSE apart

SetUnknown ==
  /\ Entering /\ Top.cvar \notin known
  /\ known' = known \cup {Top.cvar}
  /\ value' = [value EXCEPT ![Top.cvar] = Top.val]
  /\ type' = [type EXCEPT ![Top.cvar] = "NONE"]
  /\ has' = [has EXCEPT ![Top.cvar] = {}]
  /\ Pop
  /\ apart' = Nested
  /\ UNCHANGED <<registered, lists, cell, told>>

(* "Value not changed?" *)
SetSame ==
  /\ Entering /\ Top.cvar \in known
  /\ value[Top.cvar] = Top.val
  /\ Pop
  /\ apart' = Nested
  /\ UNCHANGED <<registered, m_cvars, lists, cell, told>>

(* "Bind non-exists?": no variable is written and no hook called. *)
SetUnbound ==
  /\ Entering /\ Top.cvar \in known
  /\ value[Top.cvar] # Top.val /\ type[Top.cvar] = "NONE"
  /\ value' = [value EXCEPT ![Top.cvar] = Top.val]
  /\ told' = Forget(Top.cvar)
  /\ Pop
  /\ apart' = Nested
  /\ UNCHANGED <<registered, known, type, has, lists, cell>>

Changing ==
  /\ Entering /\ Top.cvar \in known
  /\ value[Top.cvar] # Top.val /\ type[Top.cvar] # "NONE"

(* check_range() sets another value; this call has nothing left to do. *)
SetFixed ==
  /\ Changing /\ ~InRange(Top.cvar, type[Top.cvar], Top.val)
  /\ \E s \in Fixed(Top.cvar, type[Top.cvar], Top.val) :
       stack' = Append(Front(stack), SetCall(Top.cvar, s))
  /\ apart' = Nested
  /\ UNCHANGED <<registered, m_cvars, lists, cell, told>>

(* The call at the top, in the loop over the hooks. *)
LoopAt(k) == [op |-> "loop", cvar |-> Top.cvar, val |-> Top.val, pos |-> k]

(* on_change(): the bound variables, then the loop over the hooks. *)
SetChanged ==
  /\ Changing /\ InRange(Top.cvar, type[Top.cvar], Top.val)
  /\ cell' = CopyBinds(Top.cvar, Top.val)
  /\ stack' = Append(Front(stack), LoopAt(1))
  /\ apart' = Nested \ {c \in {Top.cvar} : ~Busy(c)}
  /\ UNCHANGED <<registered, m_cvars, lists, told>>

InLoop(done) ==
  /\ stack # <<>> /\ Top.op = "loop"
  /\ done = (Top.pos > Len(cvar_hook_list[Top.cvar]))

NextHook == cvar_hook_list[Top.cvar][Top.pos]

ExecuteForward ==
  /\ InLoop(FALSE) /\ hook_state[NextHook]
  /\ told' = [h \in DOMAIN told \cup {NextHook} |->
                IF h = NextHook THEN Top.val ELSE told[h]]
  /\ stack' = Append(Front(stack), [Top EXCEPT !.op = "hook"])
  /\ UNCHANGED <<registered, string, m_cvars, lists, cell, apart>>

SkipHook ==
  /\ InLoop(FALSE) /\ ~hook_state[NextHook]
  /\ stack' = Append(Front(stack), LoopAt(Top.pos + 1))
  /\ UNCHANGED <<registered, string, m_cvars, lists, cell, told, apart>>

(* Mutant: the loop passes over the next hook. *)
HookReturnTwo ==
  /\ stack # <<>> /\ Top.op = "hook"
  /\ stack' = Append(Front(stack), LoopAt(Top.pos + 2))
  /\ UNCHANGED <<registered, string, m_cvars, lists, cell, told, apart>>

HookReturn ==
  /\ stack # <<>> /\ Top.op = "hook"
  /\ stack' = Append(Front(stack), LoopAt(Top.pos + 1))
  /\ UNCHANGED <<registered, string, m_cvars, lists, cell, told, apart>>

(* "Save new value", after the hooks. *)
SaveValue ==
  /\ InLoop(TRUE)
  /\ value' = [value EXCEPT ![Top.cvar] = Top.val]
  /\ Pop
  /\ UNCHANGED <<registered, string, known, type, has, lists, cell, told,
                 apart>>

OnDirectSet ==
  \/ SetUnknown \/ SetSame \/ SetUnbound \/ SetFixed \/ SetChanged
  \/ ExecuteForward \/ SkipHook \/ HookReturn \/ SaveValue

-----------------------------------------------------------------------------
(* Natives. *)

(* rf_set_cvar and rf_set_pcvar of any type, and the console. *)
Set(c, s) ==
  /\ InPlugin /\ c \in registered
  /\ CallSet(c, s)
  /\ UNCHANGED <<registered, string, m_cvars, lists, cell, told, apart>>

(* The engine's cvar, which keeps its string when it exists. *)
create_cvar(c, s) ==
  /\ registered' = registered \cup {c}
  /\ string' = IF c \in registered THEN string ELSE [string EXCEPT ![c] = s]

(* rf_create_cvar: add() of a cvar that the engine has keeps the engine's  *)
(* string, but takes the default for its own copy and forgets the type.    *)
Add(c, s, l, desc) ==
  /\ InPlugin
  /\ create_cvar(c, s)
  /\ known' = known \cup {c}
  /\ value' = [value EXCEPT ![c] = s]
  /\ type' = [type EXCEPT ![c] = "NONE"]
  /\ has' = [has EXCEPT ![c] = l]
  /\ plugin' = IF desc /\ ~Contains(plugin, c) THEN Append(plugin, c) ELSE plugin
  /\ apart' = IF string'[c] # s \/ bind_list[c] # <<>>
              THEN apart \cup {c} ELSE apart
  /\ UNCHANGED <<bind_list, hook_state, cvar_hook_list, stack, cell, told>>

(* rf_get_cvar_ptr, and every other first use of a cvar of the engine. *)
AddExists(c) ==
  /\ InPlugin /\ c \in registered \ known
  /\ known' = known \cup {c}
  /\ value' = [value EXCEPT ![c] = string[c]]
  /\ type' = [type EXCEPT ![c] = "NONE"]
  /\ has' = [has EXCEPT ![c] = {}]
  /\ UNCHANGED <<registered, string, lists, stack, cell, told, apart>>

(* rf_bind_pcvar; the value is brought into its range afterwards. *)
Bind(t, c, p) ==
  /\ InPlugin /\ c \in known
  /\ type[c] \in {"NONE", t}
  /\ \A i \in DOMAIN bind_list[c] : bind_list[c][i].ptr # p
  /\ bind_list' = [bind_list EXCEPT ![c] = Append(@, [ptr |-> p, type |-> t])]
  /\ cell' = [cell EXCEPT ![p] = Copy(t, string[c])]
  /\ type' = [type EXCEPT ![c] = t]
  /\ IF InRange(c, t, string[c])
     THEN UNCHANGED stack
     ELSE \E s \in Fixed(c, t, string[c]) : CallSet(c, s)
  /\ UNCHANGED <<registered, string, known, value, has, hook_state,
                 cvar_hook_list, plugin, told, apart>>

(* rf_hook_cvar_change *)
CreateHook(h, c, is_enable) ==
  /\ InPlugin /\ c \in known
  /\ h \notin DOMAIN hook_state
  /\ hook_state' = [k \in DOMAIN hook_state \cup {h} |->
                      IF k = h THEN is_enable ELSE hook_state[k]]
  /\ cvar_hook_list' = [cvar_hook_list EXCEPT ![c] = Append(@, h)]
  /\ UNCHANGED <<registered, string, m_cvars, bind_list, plugin, stack,
                 cell, told, apart>>

(* rf_cvar_hook_state *)
HookState(h, is_enable) ==
  /\ InPlugin /\ h \in DOMAIN hook_state
  /\ hook_state' = [hook_state EXCEPT ![h] = is_enable]
  /\ told' = IF is_enable THEN told
             ELSE [k \in DOMAIN told \ {h} |-> told[k]]
  /\ UNCHANGED <<registered, string, m_cvars, bind_list, cvar_hook_list,
                 plugin, stack, cell, apart>>

-----------------------------------------------------------------------------
(* rf_config: sets what the plugin's file names, in the order of the list. *)
(* The file may hold anything; writing it anew changes no cvar.            *)

Files == UNION {[S -> Inputs] : S \in SUBSET Cvars}

(* A plugin may also call it from within a hook, which is left out: the    *)
(* walks over the list would nest, and the inner sort relink its nodes.    *)
ConfigBegin ==
  /\ stack = <<>> /\ plugin # <<>>
  /\ \E order \in [DOMAIN plugin -> ToSet(plugin)] :
       /\ \A i, j \in DOMAIN order : i < j => order[i] < order[j]
       /\ plugin' = order
  /\ \E load_cvars \in Files :
       stack' = <<[op |-> "config", cvar |-> 0, pos |-> 1, load |-> load_cvars]>>
  /\ UNCHANGED <<registered, string, m_cvars, bind_list, hook_state,
                 cvar_hook_list, cell, told, apart>>

(* One cvar of the list, which the hooks may still lengthen. *)
ConfigCvar ==
  /\ stack # <<>> /\ Top.op = "config" /\ Top.pos <= Len(plugin)
  /\ LET c == plugin[Top.pos]
         next == Append(Front(stack), [Top EXCEPT !.pos = @ + 1])
     IN stack' = IF c \in DOMAIN Top.load
                 THEN Append(next, SetCall(c, Top.load[c])) ELSE next
  /\ UNCHANGED <<registered, string, m_cvars, lists, cell, told, apart>>

ConfigEnd ==
  /\ stack # <<>> /\ Top.op = "config" /\ Top.pos > Len(plugin)
  /\ Pop
  /\ UNCHANGED <<registered, string, m_cvars, lists, cell, told, apart>>

Config == ConfigBegin \/ ConfigCvar \/ ConfigEnd

(* Mutant: the binds of the last map are kept. *)
ClearAllButBinds ==
  /\ stack = <<>>
  /\ known' = {} /\ hook_state' = <<>>
  /\ cvar_hook_list' = [c \in Cvars |-> <<>>]
  /\ plugin' = <<>> /\ told' = <<>> /\ apart' = {}
  /\ cell' = [p \in Ptrs |-> Short(0)]
  /\ value' = [c \in Cvars |-> Short(0)]
  /\ type' = [c \in Cvars |-> "NONE"] /\ has' = [c \in Cvars |-> {}]
  /\ UNCHANGED <<registered, string, bind_list, stack>>

(* The map ends: clear_all() deletes every m_cvar_t.  The plugins and      *)
(* their variables are gone, the engine keeps its cvars.                   *)
ClearAll ==
  /\ stack = <<>>
  /\ known' = {} /\ hook_state' = <<>>
  /\ bind_list' = [c \in Cvars |-> <<>>]
  /\ cvar_hook_list' = [c \in Cvars |-> <<>>]
  /\ plugin' = <<>> /\ told' = <<>> /\ apart' = {}
  /\ cell' = [p \in Ptrs |-> Short(0)]
  /\ value' = [c \in Cvars |-> Short(0)]
  /\ type' = [c \in Cvars |-> "NONE"] /\ has' = [c \in Cvars |-> {}]
  /\ UNCHANGED <<registered, string, stack>>

-----------------------------------------------------------------------------
Natives(c) ==
  \/ AddExists(c)
  \/ \E s \in Inputs : Set(c, s)
  \/ \E s \in Inputs, l \in Limits, desc \in BOOLEAN : Add(c, s, l, desc)
  \/ \E t \in Types, p \in Ptrs : Bind(t, c, p)
  \/ \E h \in Hooks, e \in BOOLEAN : CreateHook(h, c, e)

Next ==
  \/ OnDirectSet \/ Config \/ ClearAll
  \/ \E c \in Cvars : Natives(c)
  \/ \E h \in Hooks, e \in BOOLEAN : HookState(h, e)

Spec == Init /\ [][Next]_vars

-----------------------------------------------------------------------------
Call ==
  [op : {"set", "loop", "hook"}, cvar : Cvars, val : String, pos : Nat]
Bound == [ptr : Ptrs, type : Types]
ConfigCall == [op : {"config"}, cvar : {0}, pos : Nat \ {0}, load : Files]

CvarTypes ==
  /\ known \subseteq registered /\ registered \subseteq Cvars
  /\ apart \subseteq Cvars
  /\ string \in [Cvars -> String] /\ value \in [Cvars -> String]
  /\ type \in [Cvars -> {"NONE"} \cup Types]
  /\ has \in [Cvars -> SUBSET {"min", "max"}]

BindTypes ==
  /\ bind_list \in [Cvars -> Seq(Bound)]
  /\ cell \in [Ptrs -> String]
  /\ \A c \in Cvars :
       /\ bind_list[c] # <<>> => c \in known
       /\ \A i, j \in DOMAIN bind_list[c] :
            bind_list[c][i].ptr = bind_list[c][j].ptr => i = j

HookTypes ==
  /\ DOMAIN hook_state \subseteq Hooks /\ DOMAIN told \subseteq DOMAIN hook_state
  /\ hook_state \in [DOMAIN hook_state -> BOOLEAN]
  /\ told \in [DOMAIN told -> String]
  /\ cvar_hook_list \in [Cvars -> Seq(Hooks)]
  /\ \A c \in Cvars :
       /\ cvar_hook_list[c] # <<>> => c \in known
       /\ \A i \in DOMAIN cvar_hook_list[c] :
            cvar_hook_list[c][i] \in DOMAIN hook_state

CallTypes ==
  /\ plugin \in Seq(Cvars)
  /\ \A i \in DOMAIN plugin : plugin[i] \in known
  /\ stack \in Seq(Call \cup ConfigCall)
  /\ \A i \in DOMAIN stack :
       /\ stack[i].op = "set" => stack[i].cvar \in registered
       /\ stack[i].op \in {"loop", "hook"} =>
            stack[i].cvar \in known /\ stack[i].pos > 0

(* Every variable has its type, every m_cvar_t has its cvar_t, every call  *)
(* and every forward is for a cvar that the manager knows, and a list of   *)
(* binds names no variable twice.                                          *)
TypeOK == CvarTypes /\ BindTypes /\ HookTypes /\ CallTypes

(* The limits are whole numbers and in order, so that check_range() can    *)
(* meet them.  rf_create_cvar (natives_refsapi.cpp l.272) does not check   *)
(* this; with other limits the value it sets is out of range again: it     *)
(* sets the cvar without end, or stops at a wrong value that the manager's *)
(* copy happens to hold.                                                   *)
SoundLimits ==
  min_val <= max_val /\ min_val % 2 = 0 /\ max_val % 2 = 0

(* The next three properties are about the cvars that are not in apart.    *)
(* Left out, because the code does break them there, are a cvar on which   *)
(* add() was called once more (l.438) and one that was set from within its *)
(* own hook (l.327 then saves the older value), until the next change that *)
(* is not made from within a hook of the cvar.                             *)

(* bind() and on_change() (l.366, l.386): whenever plugin code runs, every *)
(* variable bound to a cvar of some type that is not in apart has the      *)
(* cvar's present value, unless it is bound to another cvar as well.       *)
BindCurrent ==
  InPlugin =>
    \A c \in known \ apart : type[c] # "NONE" =>
      \A i \in DOMAIN bind_list[c] :
        LET b == bind_list[c][i] IN
        (\A d \in Cvars \ {c} : \A j \in DOMAIN bind_list[d] :
            bind_list[d][j].ptr # b.ptr)
        => cell[b.ptr] = Copy(b.type, string[c])

(* check_range() (l.89): when its limits are sound, a bound numeric cvar   *)
(* that is not in apart is a number within them whenever plugin code runs. *)
RangeKept ==
  SoundLimits /\ InPlugin =>
    \A c \in known \ apart : type[c] \in {"NUM", "FLT"} =>
      /\ string[c] # Text
      /\ "min" \in has[c] => NumberOf(type[c], string[c]) >= min_val
      /\ "max" \in has[c] => NumberOf(type[c], string[c]) <= max_val

(* on_change() (l.392): once a change is over, a hook of a cvar that is    *)
(* not in apart, that was told of a value, and was neither disabled nor    *)
(* left out because its cvar lost its binds since, was told the present    *)
(* one.                                                                    *)
HookCurrent ==
  stack = <<>> =>
    \A c \in known \ apart :
      \A h \in ToSet(cvar_hook_list[c]) \cap DOMAIN told : told[h] = string[c]

=============================================================================
