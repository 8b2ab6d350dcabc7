\* One cvar with both limits: the numbers written are between the limits and
\* not whole, and above them.  Two variables and two hooks, so that lists have a
\* first and a last element; a hook that sets its own cvar is depth 2.
SPECIFICATION Spec
CONSTANTS
  Cvars = {1}
  Numbers = {3}
  Floats = {6}
  min_val = 2
  max_val = 4
  FloatForms = {"float"}
  Limits = {{"min", "max"}}
  Types = {"NUM", "STR"}
  Ptrs = {p1, p2}
  Hooks = {h1, h2}
  MaxDepth = 2
SYMMETRY Symmetry
INVARIANTS
  TypeOK
  BindCurrent
  RangeKept
  HookCurrent
