--------------------------- MODULE Entities_proofs ---------------------------
(***************************************************************************)
(* Proofs about the index of entities, for every set of entities, players, *)
(* classes and weapons.                                                    *)
(*                                                                         *)
(* The loops over the vectors are recursive functions over 0 .. n.  Such a *)
(* function exists (Rounds), and its values have what every round keeps    *)
(* (UpTo): so an invariant of a loop is shown round by round, as that of   *)
(* an action.                                                              *)
(***************************************************************************)
EXTENDS Entities, SequenceTheorems, WellFoundedInduction, TLAPS

-----------------------------------------------------------------------------
(* The inductive invariant. *)

Keys == Classes \cup {PlayerStart}

EngineTypes ==
  /\ state \in [Entities -> {"free", "live", "leaving", "killme"}]
  /\ class \in [Entities -> Classes \cup {NoClass}]
  /\ phase \in {"loading", "active", "ended"}

(* A list of a class holds entities that are noted with this class, once,  *)
(* and only the lists of A may be empty.                                   *)
Index(trie, names, A) ==
  /\ DOMAIN trie \subseteq Keys /\ trie \in [DOMAIN trie -> Seq(Entities)]
  /\ DOMAIN names \subseteq Entities /\ names \in [DOMAIN names -> Classes]
  /\ \A key \in DOMAIN trie :
       /\ trie[key] = <<>> => key \in A
       /\ IsInjective(trie[key])
       /\ \A e \in Entities : Contains(trie[key], e) =>
            e \in DOMAIN names /\ names[e] = key

(* The noted entities of V are in the list of their class. *)
Listed(trie, names, V) ==
  \A e \in V : e \in DOMAIN names => Contains(ListOf(trie, names[e]), e)

Valid == {e \in Entities : is_valid_entity(e)}

(* A noted entity exists and has a name. *)
NameFacts ==
  \A e \in DOMAIN classnames : state[e] # "free" /\ class[e] # NoClass

ItemState ==
  [list : [Players -> Seq(Entities)], inv : [Players -> SUBSET Entities],
   owner : [Entities -> Players \cup {NoOwner}],
   state : [Entities -> {"free", "live", "leaving", "killme"}]]

(* The list of a player: an item of the list that is not about to leave is *)
(* in the inventory.                                                       *)
ListFacts(s, p) ==
  /\ IsInjective(s.list[p])
  /\ \A e \in Entities : Contains(s.list[p], e) =>
       /\ s.state[e] # "free" /\ s.owner[e] = p
       /\ s.state[e] = "live" => e \in s.inv[p]

(* The inventory of a player: noted entities, which no other player has. *)
InventoryFacts(s, p, noted) ==
  \A e \in s.inv[p] :
    /\ e \in noted /\ s.state[e] # "free"
    /\ s.state[e] \in {"live", "leaving"} => Contains(s.list[p], e)
    /\ \A q \in Players : e \in s.inv[q] => q = p

(* No noted entity is free, and the valid ones are in V. *)
StateFacts(s, noted, V) ==
  \A e \in Entities : /\ e \in noted => s.state[e] # "free"
                      /\ s.state[e] \in {"live", "leaving"} => e \in V

Items(s, noted, V) ==
  /\ s \in ItemState /\ StateFacts(s, noted, V)
  /\ \A p \in Players : ListFacts(s, p) /\ InventoryFacts(s, p, noted)

(* Between two maps the lists are empty; the game's items go one by one. *)
ItemFacts ==
  /\ Now \in ItemState
  /\ phase = "active" => Items(Now, DOMAIN classnames, Valid)
  /\ phase # "active" => \A p \in Players :
       /\ player_entities[p] = <<>>
       /\ \A e \in inventory[p] : phase = "ended" /\ state[e] # "free"

(* The list of weapons, but for the entities that became weapons or ceased *)
(* to be weapons.                                                          *)
WeaponFacts ==
  /\ wp_entities \in Seq(Entities)
  /\ \A e \in Entities \ misfiled : Contains(wp_entities, e) =>
       /\ e \in DOMAIN classnames /\ class[e] \in Weapons
       /\ \A i, j \in DOMAIN wp_entities :
            wp_entities[i] = e /\ wp_entities[j] = e => i = j
  /\ \A e \in DOMAIN classnames \ misfiled :
       is_valid_entity(e) /\ class[e] \in Weapons => Contains(wp_entities, e)

EInv ==
  /\ EngineTypes /\ NameFacts /\ ItemFacts /\ WeaponFacts
  /\ Index(entities, classnames, asked)
  /\ Listed(entities, classnames, Valid)

-----------------------------------------------------------------------------
(* Loops. *)

(* A set of numbers has a least one. *)
LEMMA LeastNumber ==
  ASSUME NEW T, T \subseteq Nat, T # {}
  PROVE  \E m \in T : \A n \in T : m <= n
<1>1. PICK m \in T : \A n \in T : ~(<<n, m>> \in OpToRel(<, Nat))
  BY WFMin, NatLessThanWellFounded
<1>2. ASSUME NEW n \in T PROVE m <= n
  <2>1. m \in Nat /\ n \in Nat
    OBVIOUS
  <2>2. ~(n < m)
    BY <1>1, <2>1 DEF OpToRel
  <2>3. QED
    BY <2>1, <2>2
<1>3. QED
  BY <1>2

(* What holds at the start of a loop and is kept by each round holds after *)
(* each of them.                                                           *)
LEMMA UpTo ==
  ASSUME NEW n \in Nat, NEW S, 0 \in S,
         \A i \in 1 .. n : i - 1 \in S => i \in S
  PROVE  \A i \in 0 .. n : i \in S
<1> DEFINE T == {i \in 0 .. n : i \notin S}
<1>1. SUFFICES ASSUME T # {} PROVE FALSE
  OBVIOUS
<1>2. PICK m \in T : \A i \in T : m <= i
  <2>1. T \subseteq Nat
    OBVIOUS
  <2> HIDE DEF T
  <2>2. QED
    BY <1>1, <2>1, LeastNumber
<1>3. m \in 1 .. n /\ m - 1 \in 0 .. n
  BY <1>2
<1>4. m - 1 \notin T
  BY <1>2, <1>3
<1>5. QED
  BY <1>2, <1>3, <1>4

(* f[i] is the state of a loop after round i, which makes G[i][x] of x. *)
Run(f, n, start, G) ==
  /\ f = [i \in 0 .. n |-> f[i]] /\ f[0] = start
  /\ \A i \in 1 .. n : f[i] = G[i][f[i - 1]]

(* Every loop has its rounds. *)
LEMMA Rounds ==
  ASSUME NEW n \in Nat, NEW start, NEW G
  PROVE  \E f : Run(f, n, start, G)
<1> DEFINE Made(f, k) == /\ f[0] = start
                         /\ \A i \in 1 .. k : f[i] = G[i][f[i - 1]]
           S == {k \in 0 .. n : \E f : Made(f, k)}
<1>1. 0 \in S
  <2>1. Made([i \in {0} |-> start], 0)
    OBVIOUS
  <2> HIDE DEF Made
  <2>2. QED
    BY <2>1
<1>2. ASSUME NEW k \in 1 .. n, k - 1 \in S PROVE k \in S
  <2>1. PICK f : Made(f, k - 1)
    BY <1>2
  <2> DEFINE g == [i \in 0 .. k |-> IF i = k THEN G[k][f[k - 1]] ELSE f[i]]
  <2>2. g[0] = start
    BY <2>1
  <2>3. ASSUME NEW i \in 1 .. k PROVE g[i] = G[i][g[i - 1]]
    <3>1. g[i - 1] = f[i - 1]
      OBVIOUS
    <3>2. CASE i = k
      BY <3>1, <3>2
    <3>3. CASE i # k
      <4>1. i \in 1 .. (k - 1) /\ g[i] = f[i]
        BY <3>3
      <4>2. QED
        BY <2>1, <3>1, <4>1
    <3>4. QED
      BY <3>2, <3>3
  <2>4. Made(g, k)
    BY <2>2, <2>3
  <2> HIDE DEF Made, g
  <2>5. QED
    BY <2>4
<1>3. n \in S
  <2>1. \A i \in 1 .. n : i - 1 \in S => i \in S
    BY <1>2
  <2> HIDE DEF S
  <2>2. QED
    BY <1>1, <2>1, UpTo
<1>4. PICK f : Made(f, n)
  BY <1>3
<1> DEFINE g == [i \in 0 .. n |-> f[i]]
<1>5. g = [i \in 0 .. n |-> g[i]] /\ Made(g, n)
  <2>1. \A i \in 0 .. n : g[i] = f[i]
    OBVIOUS
  <2>2. g = [i \in 0 .. n |-> g[i]]
    OBVIOUS
  <2> HIDE DEF g
  <2>3. QED
    BY <1>4, <2>1, <2>2
<1>6. Run(g, n, start, G)
  <2> HIDE DEF g
  <2>1. QED
    BY <1>5 DEF Run
<1>7. QED
  BY <1>6

-----------------------------------------------------------------------------
(* Vectors. *)

(* x is in v at one place at most. *)
Once(v, x) == \A i, j \in DOMAIN v : v[i] = x /\ v[j] = x => i = j

(* The rounds of Keep. *)
LEMMA KeepRounds ==
  ASSUME NEW v \in Seq(Entities), NEW S
  PROVE  \E f : /\ f[0] = <<>> /\ Keep(v, S) = f[Len(v)]
                /\ \A i \in 1 .. Len(v) :
                     f[i] = IF v[i] \in S THEN Append(f[i - 1], v[i])
                                          ELSE f[i - 1]
<1> DEFINE n == Len(v)
           X == Seq(Entities)
           step(x, i) == IF v[i] \in S THEN Append(x, v[i]) ELSE x
           G == [i \in 1 .. n |-> [x \in X |-> step(x, i)]]
           Made(f) == f = [i \in 0 .. n |-> IF i = 0 THEN <<>>
                                            ELSE step(f[i - 1], i)]
<1>1. n \in Nat
  OBVIOUS
<1>2. ASSUME NEW x \in X, NEW i \in 1 .. n
      PROVE  step(x, i) \in X /\ G[i][x] = step(x, i)
  OBVIOUS
<1>3. PICK f : Run(f, n, <<>>, G)
  <2> HIDE DEF G, n
  <2>1. QED
    BY <1>1, Rounds
<1>4. \A i \in 0 .. n : f[i] \in X
  <2> DEFINE T == {i \in 0 .. n : f[i] \in X}
  <2>1. 0 \in T
    BY <1>1, <1>3 DEF Run
  <2>2. ASSUME NEW i \in 1 .. n, i - 1 \in T PROVE i \in T
    <3>1. f[i] = G[i][f[i - 1]] /\ f[i - 1] \in X
      BY <1>1, <1>3, <2>2 DEF Run
    <3> HIDE DEF G, step, X, n
    <3>2. f[i] \in X
      BY <1>2, <3>1
    <3>3. QED
      BY <1>1, <3>2
  <2> HIDE DEF T
  <2>3. \A i \in 0 .. n : i \in T
    BY <1>1, <2>1, <2>2, UpTo
  <2>4. QED
    BY <2>3 DEF T
<1>5. Made(f)
  <2>1. ASSUME NEW i \in 1 .. n PROVE G[i][f[i - 1]] = step(f[i - 1], i)
    <3>1. i - 1 \in 0 .. n
      BY <1>1
    <3> HIDE DEF G, step, X, n
    <3>2. QED
      BY <1>2, <1>4, <3>1
  <2> HIDE DEF G, step, X, n
  <2>2. QED
    BY <1>1, <1>3, <2>1 DEF Run
<1> DEFINE F == CHOOSE g : Made(g)
<1>6. Made(F)
  <2> HIDE DEF Made
  <2>1. QED
    BY <1>5
<1>7. Keep(v, S) = F[n]
  BY DEF Keep
<1>8. F[0] = <<>> /\ \A i \in 1 .. n : F[i] = step(F[i - 1], i)
  <2> HIDE DEF F, step, n
  <2>1. QED
    BY <1>1, <1>6
<1>9. QED
  <2> HIDE DEF F
  <2>1. QED
    BY <1>7, <1>8

(* The elements of r are those of v up to place k that are in S: h says    *)
(* where each of them comes from.                                          *)
Origin(h, r, v, S, k) ==
  /\ h \in [1 .. Len(r) -> 1 .. k] /\ IsInjective(h)
  /\ \A j \in 1 .. Len(r) : r[j] = v[h[j]] /\ v[h[j]] \in S
  /\ \A i \in 1 .. k : v[i] \in S => \E j \in 1 .. Len(r) : h[j] = i

(* r is v up to place k without what is not in S. *)
Filtered(r, v, S, k) ==
  /\ r \in Seq(Entities) /\ Len(r) <= k
  /\ \E h : Origin(h, r, v, S, k)

(* One more element is appended, or left out. *)
LEMMA FilterStep ==
  ASSUME NEW v \in Seq(Entities), NEW S, NEW k \in 1 .. Len(v), NEW r,
         Filtered(r, v, S, k - 1)
  PROVE  Filtered(IF v[k] \in S THEN Append(r, v[k]) ELSE r, v, S, k)
<1>1. r \in Seq(Entities) /\ Len(r) \in Nat /\ Len(r) <= k - 1
  BY DEF Filtered
<1>0. PICK h : Origin(h, r, v, S, k - 1)
  BY DEF Filtered
<1>2. /\ h \in [1 .. Len(r) -> 1 .. (k - 1)] /\ IsInjective(h)
      /\ DOMAIN h = 1 .. Len(r)
      /\ \A j \in 1 .. Len(r) : r[j] = v[h[j]] /\ v[h[j]] \in S
      /\ \A i \in 1 .. (k - 1) : v[i] \in S =>
           \E j \in 1 .. Len(r) : h[j] = i
  BY <1>0 DEF Origin
<1>3. CASE v[k] \notin S
  <2>1. h \in [1 .. Len(r) -> 1 .. k]
    BY <1>1, <1>2
  <2>2. \A i \in 1 .. k : v[i] \in S => \E j \in 1 .. Len(r) : h[j] = i
    BY <1>2, <1>3
  <2>3. Origin(h, r, v, S, k)
    BY <1>2, <2>1, <2>2 DEF Origin
  <2>4. QED
    BY <1>1, <1>3, <2>3 DEF Filtered
<1>4. CASE v[k] \in S
  <2> DEFINE w == Append(r, v[k])
             m == Len(r) + 1
             g == [j \in 1 .. m |-> IF j = m THEN k ELSE h[j]]
  <2>1. /\ w \in Seq(Entities) /\ Len(w) = m /\ w[m] = v[k]
        /\ \A j \in 1 .. Len(r) : w[j] = r[j]
    BY <1>1
  <2> HIDE DEF w
  <2>2. /\ g \in [1 .. m -> 1 .. k] /\ DOMAIN g = 1 .. m /\ g[m] = k
        /\ \A j \in 1 .. Len(r) : g[j] = h[j] /\ g[j] < k
    <3>1. \A j \in 1 .. Len(r) : h[j] \in 1 .. (k - 1)
      BY <1>2
    <3>2. \A j \in 1 .. m : j \in 1 .. Len(r) \/ j = m
      BY <1>1
    <3>3. \A j \in 1 .. m : (IF j = m THEN k ELSE h[j]) \in 1 .. k
      BY <1>1, <3>1, <3>2
    <3>4. g \in [1 .. m -> 1 .. k] /\ DOMAIN g = 1 .. m
      BY <3>3
    <3>5. QED
      BY <1>1, <3>1, <3>4
  <2> HIDE DEF g
  <2>3. IsInjective(g)
    <3>1. ASSUME NEW a \in 1 .. m, NEW b \in 1 .. m, g[a] = g[b]
          PROVE  a = b
      <4>1. CASE a \in 1 .. Len(r) /\ b \in 1 .. Len(r)
        <5>1. h[a] = h[b]
          BY <2>2, <3>1, <4>1
        <5>2. QED
          BY ONLY <1>2, <4>1, <5>1 DEF IsInjective
      <4>2. CASE a = m \/ b = m
        BY <1>1, <2>2, <3>1, <4>2
      <4>3. QED
        BY <1>1, <4>1, <4>2
    <3>2. QED
      BY <2>2, <3>1 DEF IsInjective
  <2>4. ASSUME NEW j \in 1 .. m PROVE w[j] = v[g[j]] /\ v[g[j]] \in S
    BY <1>1, <1>2, <1>4, <2>1, <2>2
  <2>5. ASSUME NEW i \in 1 .. k, v[i] \in S PROVE \E j \in 1 .. m : g[j] = i
    <3>1. CASE i = k
      BY <1>1, <2>2, <3>1
    <3>2. CASE i # k
      <4>1. PICK j \in 1 .. Len(r) : h[j] = i
        BY <1>2, <2>5, <3>2
      <4>2. j \in 1 .. m /\ g[j] = i
        BY <1>1, <2>2, <4>1
      <4>3. QED
        BY <4>2
    <3>3. QED
      BY <3>1, <3>2
  <2>6. m <= k
    BY <1>1
  <2>7. Filtered(w, v, S, k)
    <3> HIDE DEF m
    <3>1. Origin(g, w, v, S, k)
      BY <2>1, <2>2, <2>3, <2>4, <2>5 DEF Origin
    <3>2. QED
      BY <2>1, <2>6, <3>1 DEF Filtered
  <2>8. QED
    BY <1>4, <2>7 DEF w
<1>5. QED
  BY <1>3, <1>4

(* Nothing is left of an empty vector. *)
LEMMA FilterStart ==
  ASSUME NEW v, NEW S
  PROVE  Filtered(<<>>, v, S, 0)
<1> DEFINE h == [j \in 1 .. 0 |-> 1]
<1>1. h \in [1 .. 0 -> 1 .. 0] /\ IsInjective(h)
  BY DEF IsInjective
<1>2. Len(<<>>) = 0 /\ <<>> \in Seq(Entities)
  OBVIOUS
<1> HIDE DEF h
<1>3. Origin(h, <<>>, v, S, 0)
  BY <1>1, <1>2 DEF Origin
<1>4. QED
  BY <1>2, <1>3 DEF Filtered

(* Keep filters. *)
LEMMA KeepFilters ==
  ASSUME NEW v \in Seq(Entities), NEW S
  PROVE  Filtered(Keep(v, S), v, S, Len(v))
<1>1. PICK f : /\ f[0] = <<>> /\ Keep(v, S) = f[Len(v)]
               /\ \A i \in 1 .. Len(v) :
                    f[i] = IF v[i] \in S THEN Append(f[i - 1], v[i])
                                         ELSE f[i - 1]
  BY KeepRounds
<1> DEFINE n == Len(v)
           T == {i \in 0 .. n : Filtered(f[i], v, S, i)}
<1>2. n \in Nat
  OBVIOUS
<1>3. 0 \in T
  BY <1>1, <1>2, FilterStart
<1>4. ASSUME NEW i \in 1 .. n, i - 1 \in T PROVE i \in T
  <2>1. Filtered(f[i - 1], v, S, i - 1)
    BY <1>4
  <2>2. Filtered(f[i], v, S, i)
    BY <1>1, <2>1, FilterStep
  <2>3. QED
    BY <1>2, <2>2
<1>5. \A i \in 0 .. n : i \in T
  <2> HIDE DEF T, n
  <2>1. QED
    BY <1>2, <1>3, <1>4, UpTo
<1>6. QED
  BY <1>1, <1>2, <1>5

(* What a filtered vector contains, and how often. *)
LEMMA FilteredElements ==
  ASSUME NEW v \in Seq(Entities), NEW S, NEW r, Filtered(r, v, S, Len(v))
  PROVE  /\ r \in Seq(Entities) /\ Len(r) <= Len(v)
         /\ \A x \in Entities : Contains(r, x) <=> Contains(v, x) /\ x \in S
         /\ \A x \in Entities : Once(v, x) => Once(r, x)
<1>1. r \in Seq(Entities) /\ Len(r) \in Nat /\ Len(r) <= Len(v)
  BY DEF Filtered
<1>0. PICK h : Origin(h, r, v, S, Len(v))
  BY DEF Filtered
<1>2. /\ h \in [1 .. Len(r) -> 1 .. Len(v)] /\ IsInjective(h)
      /\ \A j \in 1 .. Len(r) : r[j] = v[h[j]] /\ v[h[j]] \in S
      /\ \A i \in 1 .. Len(v) : v[i] \in S => \E j \in 1 .. Len(r) : h[j] = i
  BY <1>0 DEF Origin
<1>3. ASSUME NEW x \in Entities
      PROVE  Contains(r, x) <=> Contains(v, x) /\ x \in S
  <2>1. ASSUME Contains(r, x) PROVE Contains(v, x) /\ x \in S
    BY <1>2, <2>1 DEF Contains
  <2>2. ASSUME Contains(v, x), x \in S PROVE Contains(r, x)
    BY <1>2, <2>2 DEF Contains
  <2>3. QED
    BY <2>1, <2>2
<1>4. ASSUME NEW x \in Entities, Once(v, x) PROVE Once(r, x)
  <2>1. DOMAIN r = 1 .. Len(r) /\ DOMAIN v = 1 .. Len(v)
    BY <1>1
  <2>2. ASSUME NEW i \in DOMAIN r, NEW j \in DOMAIN r, r[i] = x, r[j] = x
        PROVE  i = j
    <3>1. h[i] \in DOMAIN v /\ h[j] \in DOMAIN v /\ v[h[i]] = x /\ v[h[j]] = x
      BY <1>2, <2>1, <2>2
    <3>2. h[i] = h[j]
      BY <1>4, <3>1 DEF Once
    <3>3. QED
      BY <1>2, <2>1, <2>2, <3>2 DEF IsInjective
  <2>3. QED
    BY <2>2 DEF Once
<1>5. QED
  BY <1>1, <1>3, <1>4

(* The elements of a vector that remove_if leaves. *)
LEMMA KeepElements ==
  ASSUME NEW v \in Seq(Entities), NEW S
  PROVE  /\ Keep(v, S) \in Seq(Entities) /\ Len(Keep(v, S)) <= Len(v)
         /\ \A x \in Entities :
              Contains(Keep(v, S), x) <=> Contains(v, x) /\ x \in S
         /\ \A x \in Entities : Once(v, x) => Once(Keep(v, S), x)
BY KeepFilters, FilteredElements

(* A vector without repetitions. *)
LEMMA InjectiveOnce ==
  ASSUME NEW v \in Seq(Entities)
  PROVE  IsInjective(v) <=> \A x \in Entities : Once(v, x)
<1>1. \A i \in DOMAIN v : v[i] \in Entities
  OBVIOUS
<1>2. QED
  BY <1>1 DEF IsInjective, Once

(* The elements of a vector after push_back(). *)
LEMMA AppendElements ==
  ASSUME NEW v \in Seq(Entities), NEW e \in Entities
  PROVE  LET w == Append(v, e) IN
         /\ w \in Seq(Entities) /\ w # <<>> /\ Len(w) >= Len(v)
         /\ \A x \in Entities : Contains(w, x) <=> Contains(v, x) \/ x = e
         /\ \A x \in Entities :
              Once(v, x) /\ (x = e => ~Contains(v, e)) => Once(w, x)
<1> DEFINE w == Append(v, e)
           m == Len(v) + 1
<1>1. /\ w \in Seq(Entities) /\ Len(w) = m /\ w[m] = e /\ Len(v) \in Nat
      /\ DOMAIN w = 1 .. m /\ DOMAIN v = 1 .. Len(v)
      /\ \A i \in 1 .. Len(v) : w[i] = v[i]
  OBVIOUS
<1> HIDE DEF w
<1>2. w # <<>>
  <2>1. Len(<<>>) = 0
    OBVIOUS
  <2>2. Len(w) # 0
    BY <1>1
  <2>3. QED
    BY <2>1, <2>2
<1>3. ASSUME NEW x \in Entities
      PROVE  Contains(w, x) <=> Contains(v, x) \/ x = e
  <2>1. \A i \in 1 .. m : i \in 1 .. Len(v) \/ i = m
    BY <1>1
  <2>2. \A i \in 1 .. Len(v) : i \in 1 .. m
    BY <1>1
  <2>3. m \in 1 .. m
    BY <1>1
  <2> HIDE DEF m
  <2>4. QED
    BY <1>1, <2>1, <2>2, <2>3 DEF Contains
<1>4. ASSUME NEW x \in Entities, Once(v, x), x = e => ~Contains(v, e)
      PROVE  Once(w, x)
  <2>1. ASSUME NEW i \in DOMAIN w, NEW j \in DOMAIN w, w[i] = x, w[j] = x
        PROVE  i = j
    <3>1. CASE i = m \/ j = m
      BY <1>1, <1>4, <2>1, <3>1 DEF Contains
    <3>2. CASE i # m /\ j # m
      BY <1>1, <1>4, <2>1, <3>2 DEF Once
    <3>3. QED
      BY <3>1, <3>2
  <2>2. QED
    BY <2>1 DEF Once
<1>5. QED
  BY <1>1, <1>2, <1>3, <1>4 DEF w

(* Two vectors behind each other. *)
LEMMA ConcatElements ==
  ASSUME NEW u \in Seq(Entities), NEW v \in Seq(Entities), NEW w, w = u \o v
  PROVE  /\ w \in Seq(Entities) /\ Len(w) = Len(u) + Len(v)
         /\ \A i \in 1 .. Len(w) :
              w[i] = IF i <= Len(u) THEN u[i] ELSE v[i - Len(u)]
<1>1. /\ u \o v \in Seq(Entities) /\ Len(u \o v) = Len(u) + Len(v)
      /\ \A i \in 1 .. Len(u) + Len(v) :
           (u \o v)[i] = IF i <= Len(u) THEN u[i] ELSE v[i - Len(u)]
  BY ConcatProperties, Zenon
<1>2. QED
  BY <1>1, Zenon

(* The elements of a vector after find() and erase(). *)
LEMMA RemoveElements ==
  ASSUME NEW v \in Seq(Entities), NEW e \in Entities
  PROVE  LET w == vector_remove(v, e) IN
         /\ w \in Seq(Entities) /\ Len(w) <= Len(v) /\ Len(w) >= Len(v) - 1
         /\ \A x \in Entities : Contains(w, x) => Contains(v, x)
         /\ \A x \in Entities \ {e} : Contains(v, x) => Contains(w, x)
         /\ \A x \in Entities : Once(v, x) => Once(w, x)
         /\ Once(v, e) => ~Contains(w, e)
<1> DEFINE w == vector_remove(v, e)
           n == Len(v)
<1>0. n \in Nat /\ DOMAIN v = 1 .. n
  OBVIOUS
<1>1. CASE ~\E i \in 1 .. n : v[i] = e
  <2>1. w = v
    BY <1>1 DEF vector_remove, RemoveFirst
  <2>2. QED
    BY <1>0, <1>1, <2>1 DEF Contains
<1>2. CASE \E i \in 1 .. n : v[i] = e
  <2> DEFINE I == {i \in 1 .. n : v[i] = e}
  <2>1. PICK m \in I : m = Min(I)
    <3>1. I \subseteq Nat /\ I # {}
      BY <1>2
    <3> HIDE DEF I
    <3>2. \E k \in I : \A i \in I : k <= i
      BY <3>1, LeastNumber
    <3>3. QED
      BY <3>2 DEF Min
  <2>2. w = RemoveAt(v, m)
    BY <1>2, <2>1 DEF vector_remove, RemoveFirst, SelectInSeq
  <2>3. m \in 1 .. n /\ v[m] = e
    BY <2>1
  <2>4. /\ w \in Seq(Entities) /\ Len(w) = n - 1 /\ DOMAIN w = 1 .. (n - 1)
        /\ \A j \in 1 .. (n - 1) : w[j] = IF j < m THEN v[j] ELSE v[j + 1]
    <3> DEFINE a == SubSeq(v, 1, m - 1)
               b == SubSeq(v, m + 1, n)
    <3>1. /\ a \in Seq(Entities) /\ Len(a) = m - 1
          /\ \A j \in 1 .. (m - 1) : a[j] = v[j]
      BY <1>0, <2>3
    <3>2. /\ b \in Seq(Entities) /\ Len(b) = n - m
          /\ \A j \in 1 .. (n - m) : b[j] = v[m + j]
      <4>1. PICK k \in Int : k = m + 1
        BY <1>0, <2>3
      <4>2. n \in Int /\ \A i \in k .. n : v[i] \in Entities
        BY <1>0, <2>3, <4>1
      <4> HIDE DEF n
      <4>3. /\ SubSeq(v, k, n) \in Seq(Entities)
            /\ Len(SubSeq(v, k, n)) = IF k <= n THEN n - k + 1 ELSE 0
            /\ \A i \in 1 .. n - k + 1 : SubSeq(v, k, n)[i] = v[k + i - 1]
        BY <4>1, <4>2, SubSeqProperties
      <4>4. b = SubSeq(v, k, n)
        BY <4>1
      <4> HIDE DEF b
      <4>5. QED
        BY <1>0, <2>3, <4>1, <4>3, <4>4
    <3>3. w = a \o b
      BY <2>2 DEF RemoveAt
    <3> HIDE DEF a, b, w
    <3>4. a \in Seq(Entities) /\ b \in Seq(Entities)
      BY <3>1, <3>2
    <3>5. /\ w \in Seq(Entities) /\ Len(w) = Len(a) + Len(b)
          /\ \A j \in 1 .. Len(w) :
               w[j] = IF j <= Len(a) THEN a[j] ELSE b[j - Len(a)]
      BY ONLY <3>3, <3>4, ConcatElements
    <3>6. Len(w) = n - 1
      BY <1>0, <2>3, <3>1, <3>2, <3>5
    <3>7. ASSUME NEW j \in 1 .. (n - 1)
          PROVE  w[j] = IF j < m THEN v[j] ELSE v[j + 1]
      <4>1. CASE j < m
        BY <1>0, <2>3, <3>1, <3>5, <3>6, <4>1
      <4>2. CASE ~(j < m)
        <5>1. w[j] = b[j - (m - 1)]
          BY <1>0, <2>3, <3>1, <3>5, <3>6, <4>2
        <5>2. j - (m - 1) \in 1 .. (n - m)
          BY <1>0, <2>3, <4>2
        <5>3. b[j - (m - 1)] = v[m + (j - (m - 1))]
          BY <3>2, <5>2
        <5>4. m + (j - (m - 1)) = j + 1
          BY <1>0, <2>3
        <5>5. QED
          BY <4>2, <5>1, <5>3, <5>4
      <4>3. QED
        BY <4>1, <4>2
    <3>8. QED
      BY <3>5, <3>6, <3>7
  <2> HIDE DEF w, I, n
  <2> DEFINE h(j) == IF j < m THEN j ELSE j + 1
  <2>5. ASSUME NEW j \in DOMAIN w
        PROVE  h(j) \in 1 .. n /\ h(j) # m /\ w[j] = v[h(j)]
    BY <1>0, <2>3, <2>4
  <2>6. ASSUME NEW i \in 1 .. n, i # m PROVE \E j \in DOMAIN w : h(j) = i
    <3>1. CASE i < m
      <4>1. i \in DOMAIN w /\ h(i) = i
        BY <1>0, <2>3, <2>4, <3>1
      <4>2. QED
        BY <4>1
    <3>2. CASE i > m
      <4>1. i - 1 \in DOMAIN w /\ h(i - 1) = i
        BY <1>0, <2>3, <2>4, <3>2
      <4>2. QED
        BY <4>1
    <3>3. QED
      BY <1>0, <2>3, <2>6, <3>1, <3>2
  <2>7. ASSUME NEW i \in DOMAIN w, NEW j \in DOMAIN w, h(i) = h(j)
        PROVE  i = j
    BY <1>0, <2>3, <2>4, <2>7
  <2> HIDE DEF h
  <2>8. Len(w) <= Len(v) /\ Len(w) >= Len(v) - 1 /\ DOMAIN w = 1 .. Len(w)
    BY <1>0, <2>4 DEF n
  <2>9. ASSUME NEW x \in Entities, Contains(w, x) PROVE Contains(v, x)
    BY <2>5, <2>8, <2>9 DEF Contains, n
  <2>10. ASSUME NEW x \in Entities \ {e}, Contains(v, x) PROVE Contains(w, x)
    <3>1. PICK i \in 1 .. n : v[i] = x
      BY <2>10 DEF Contains, n
    <3>2. i # m
      BY <2>3, <3>1
    <3>3. PICK j \in DOMAIN w : h(j) = i
      BY <2>6, <3>2
    <3>4. QED
      BY <2>5, <2>8, <3>1, <3>3 DEF Contains
  <2>11. ASSUME NEW x \in Entities, Once(v, x) PROVE Once(w, x)
    BY <1>0, <2>5, <2>7, <2>11 DEF Once
  <2>12. ASSUME Once(v, e), Contains(w, e) PROVE FALSE
    BY <1>0, <2>3, <2>5, <2>8, <2>12 DEF Once, Contains
  <2>13. QED
    BY <2>4, <2>8, <2>9, <2>10, <2>11, <2>12 DEF w
<1>3. QED
  BY <1>1, <1>2

(* The memory behind a vector that was shortened, or reallocated, while a  *)
(* loop walks over it.                                                     *)
LEMMA MemoryElements ==
  ASSUME NEW old \in Seq(Entities), NEW v \in Seq(Entities)
  PROVE  LET w == Memory(old, v) IN
         /\ w \in Seq(Entities) /\ Len(w) >= Len(old)
         /\ \A i \in 1 .. Len(w) : Contains(v, w[i]) \/ Contains(old, w[i])
<1> DEFINE w == Memory(old, v)
           n == Len(old)
           k == Len(v)
           b == SubSeq(old, k + 1, n)
<1>1. n \in Nat /\ k \in Nat
  OBVIOUS
<1>2. /\ b \in Seq(Entities) /\ Len(b) = IF k <= n THEN n - k ELSE 0
      /\ \A j \in 1 .. Len(b) : j + k \in 1 .. n /\ b[j] = old[j + k]
  <2>1. CASE k <= n
    <3>1. b \in Seq(Entities) /\ Len(b) = n - k
      BY <1>1, <2>1
    <3>2. \A j \in 1 .. (n - k) : b[j] = old[j + k] /\ j + k \in 1 .. n
      BY <1>1, <2>1
    <3> HIDE DEF b
    <3>3. QED
      BY <2>1, <3>1, <3>2
  <2>2. CASE ~(k <= n)
    BY <1>1, <2>2
  <2>3. QED
    BY <2>1, <2>2
<1>3. w = v \o b
  BY DEF Memory
<1> HIDE DEF w, b
<1>4. /\ w \in Seq(Entities) /\ Len(w) = k + Len(b)
      /\ \A j \in 1 .. Len(w) : w[j] = IF j <= k THEN v[j] ELSE b[j - k]
  <2>1. b \in Seq(Entities)
    BY <1>2
  <2>2. /\ w \in Seq(Entities) /\ Len(w) = Len(v) + Len(b)
        /\ \A j \in 1 .. Len(w) :
             w[j] = IF j <= Len(v) THEN v[j] ELSE b[j - Len(v)]
    BY ONLY v \in Seq(Entities), <1>3, <2>1, ConcatElements
  <2>3. QED
    BY <2>2
<1>5. Len(w) >= n
  BY <1>1, <1>2, <1>4
<1>6. ASSUME NEW i \in 1 .. Len(w)
      PROVE  Contains(v, w[i]) \/ Contains(old, w[i])
  <2>1. CASE i <= k
    BY <1>1, <1>2, <1>4, <2>1 DEF Contains
  <2>2. CASE ~(i <= k)
    <3>1. i - k \in 1 .. Len(b) /\ w[i] = b[i - k]
      BY <1>1, <1>2, <1>4, <2>2
    <3>2. (i - k) + k \in 1 .. n /\ w[i] = old[(i - k) + k]
      BY <1>2, <3>1
    <3> HIDE DEF k
    <3>3. QED
      BY <3>2 DEF Contains
  <2>3. QED
    BY <2>1, <2>2
<1>7. QED
  BY <1>4, <1>5, <1>6 DEF w

-----------------------------------------------------------------------------
(* The maps of lists and of names. *)

(* A map with one more value. *)
LEMMA WithValues ==
  ASSUME NEW f, NEW x, NEW y
  PROVE  /\ DOMAIN With(f, x, y) = DOMAIN f \cup {x}
         /\ With(f, x, y)[x] = y
         /\ \A z \in DOMAIN f \ {x} : With(f, x, y)[z] = f[z]
BY DEF With

(* A map without a value. *)
LEMMA WithoutValues ==
  ASSUME NEW f, NEW x
  PROVE  /\ DOMAIN Without(f, x) = DOMAIN f \ {x}
         /\ \A z \in DOMAIN f \ {x} : Without(f, x)[z] = f[z]
BY DEF Without, Restrict

(* The maps that With and Without make are functions. *)
LEMMA MapTypes ==
  ASSUME NEW f, NEW x, NEW y, NEW S
  PROVE  /\ (\A z \in DOMAIN f \cup {x} : With(f, x, y)[z] \in S) =>
              With(f, x, y) \in [DOMAIN With(f, x, y) -> S]
         /\ (\A z \in DOMAIN f \ {x} : Without(f, x)[z] \in S) =>
              Without(f, x) \in [DOMAIN Without(f, x) -> S]
BY DEF With, Without, Restrict

(* The list of a key, which may be missing. *)
LEMMA ListOfIndex ==
  ASSUME NEW t, NEW n, NEW A, Index(t, n, A), NEW key
  PROVE  /\ ListOf(t, key) \in Seq(Entities) /\ IsInjective(ListOf(t, key))
         /\ \A x \in Entities : Contains(ListOf(t, key), x) =>
              x \in DOMAIN n /\ n[x] = key
<1>1. CASE key \in DOMAIN t
  BY <1>1 DEF Index, ListOf
<1>2. CASE key \notin DOMAIN t
  <2>1. ListOf(t, key) = <<>>
    BY <1>2 DEF ListOf
  <2>2. <<>> \in Seq(Entities) /\ Len(<<>>) = 0 /\ DOMAIN <<>> = {}
    OBVIOUS
  <2>3. IsInjective(<<>>) /\ \A x : ~Contains(<<>>, x)
    BY <2>2 DEF IsInjective, Contains
  <2>4. QED
    BY <2>1, <2>2, <2>3
<1>3. QED
  BY <1>1, <1>2

(* trie_add() of an entity that is not noted, with its name. *)
LEMMA AddIndex ==
  ASSUME NEW t, NEW n, NEW A, NEW V \in SUBSET Entities, Index(t, n, A),
         Listed(t, n, V), NEW e \in Entities, e \notin DOMAIN n,
         NEW key \in Classes
  PROVE  /\ Index(trie_add(t, key, e), With(n, e, key), A)
         /\ Listed(trie_add(t, key, e), With(n, e, key), V)
<1> DEFINE v == ListOf(t, key)
           u == Append(v, e)
           s == With(t, key, u)
           m == With(n, e, key)
<1>1. /\ v \in Seq(Entities) /\ IsInjective(v)
      /\ \A x \in Entities : Contains(v, x) => x \in DOMAIN n /\ n[x] = key
  BY ListOfIndex
<1>2. /\ u \in Seq(Entities) /\ u # <<>>
      /\ \A x \in Entities : Contains(u, x) <=> Contains(v, x) \/ x = e
      /\ \A x \in Entities :
           Once(v, x) /\ (x = e => ~Contains(v, e)) => Once(u, x)
  <2> HIDE DEF v
  <2>1. QED
    BY <1>1, AppendElements
<1>3. IsInjective(u)
  <2> HIDE DEF u, v
  <2>1. \A x \in Entities : Once(u, x)
    BY <1>1, <1>2, InjectiveOnce
  <2>2. QED
    BY <1>2, <2>1, InjectiveOnce
<1>4. trie_add(t, key, e) = s
  BY DEF trie_add
<1>5. /\ DOMAIN s = DOMAIN t \cup {key} /\ s[key] = u
      /\ \A k \in DOMAIN t \ {key} : s[k] = t[k]
  <2> HIDE DEF u
  <2>1. QED
    BY DEF With
<1>6. /\ DOMAIN m = DOMAIN n \cup {e} /\ m[e] = key
      /\ \A x \in DOMAIN n \ {e} : m[x] = n[x]
  BY DEF With
<1>7. DOMAIN s \subseteq Keys /\ \A k \in DOMAIN s : s[k] \in Seq(Entities)
  <2> HIDE DEF u, s
  <2>1. QED
    BY <1>2, <1>5 DEF Index, Keys
<1>8. s \in [DOMAIN s -> Seq(Entities)]
  <2> HIDE DEF u
  <2>1. \A z \in DOMAIN t \cup {key} : s[z] \in Seq(Entities)
    BY <1>5, <1>7
  <2>2. QED
    BY <2>1, MapTypes
<1>9. DOMAIN m \subseteq Entities /\ m \in [DOMAIN m -> Classes]
  <2>1. \A z \in DOMAIN n \cup {e} : m[z] \in Classes
    <3> HIDE DEF m
    <3>1. QED
      BY <1>6 DEF Index
  <2>2. m \in [DOMAIN m -> Classes]
    BY <2>1, MapTypes
  <2> HIDE DEF m
  <2>3. QED
    BY <1>6, <2>2 DEF Index
<1> HIDE DEF u, v, s, m
<1>10. ASSUME NEW k \in DOMAIN s
       PROVE  /\ s[k] = <<>> => k \in A
              /\ IsInjective(s[k])
              /\ \A x \in Entities : Contains(s[k], x) =>
                   x \in DOMAIN m /\ m[x] = k
  <2>1. CASE k = key
    BY <1>1, <1>2, <1>3, <1>5, <1>6, <2>1
  <2>2. CASE k # key
    <3>1. k \in DOMAIN t /\ s[k] = t[k]
      BY <1>5, <2>2
    <3>2. QED
      BY <1>6, <3>1 DEF Index
  <2>3. QED
    BY <2>1, <2>2
<1>11. Index(s, m, A)
  BY <1>7, <1>8, <1>9, <1>10 DEF Index
<1>12. ASSUME NEW x \in V, x \in DOMAIN m PROVE Contains(ListOf(s, m[x]), x)
  <2>1. ListOf(s, key) = u
    BY <1>5 DEF ListOf
  <2>2. CASE x = e
    BY <1>2, <1>6, <2>1, <2>2
  <2>3. CASE x # e
    <3>1. x \in DOMAIN n /\ m[x] = n[x] /\ Contains(ListOf(t, n[x]), x)
      BY <1>6, <1>12, <2>3 DEF Listed
    <3>2. CASE n[x] = key
      BY <1>2, <2>1, <3>1, <3>2 DEF v
    <3>3. CASE n[x] # key
      <4>1. ListOf(s, n[x]) = ListOf(t, n[x])
        BY <1>5, <3>3 DEF ListOf
      <4>2. QED
        BY <3>1, <4>1
    <3>4. QED
      BY <3>2, <3>3
  <2>4. QED
    BY <2>2, <2>3
<1>13. Listed(s, m, V)
  BY <1>12 DEF Listed
<1>14. QED
  BY <1>4, <1>11, <1>13 DEF m

(* trie_remove() of an entity from the list it is in, with its name. *)
LEMMA RemoveIndex ==
  ASSUME NEW t, NEW n, NEW A, NEW V \in SUBSET Entities, Index(t, n, A),
         Listed(t, n, V), NEW e \in Entities, NEW key,
         e \in DOMAIN n => n[e] = key
  PROVE  /\ Index(trie_remove(t, key, e), Without(n, e), A)
         /\ Listed(trie_remove(t, key, e), Without(n, e), V)
<1> DEFINE m == Without(n, e)
           s == trie_remove(t, key, e)
<1>1. DOMAIN m = DOMAIN n \ {e} /\ \A x \in DOMAIN m : m[x] = n[x]
  BY WithoutValues
<1>2. DOMAIN m \subseteq Entities /\ m \in [DOMAIN m -> Classes]
  <2>1. \A z \in DOMAIN n \ {e} : m[z] \in Classes
    <3> HIDE DEF m
    <3>1. QED
      BY <1>1 DEF Index
  <2>2. m \in [DOMAIN m -> Classes]
    BY <2>1, MapTypes
  <2> HIDE DEF m
  <2>3. QED
    BY <1>1, <2>2 DEF Index
<1> HIDE DEF m
<1>3. ASSUME NEW k \in DOMAIN t, k # key, NEW x \in Entities,
             Contains(t[k], x)
      PROVE  x \in DOMAIN m /\ m[x] = k
  BY <1>1, <1>3 DEF Index
<1>4. CASE key \notin DOMAIN t
  <2>1. s = t
    BY <1>4 DEF trie_remove
  <2>2. Index(t, m, A)
    BY <1>2, <1>3, <1>4 DEF Index
  <2>3. Listed(t, m, V)
    BY <1>1 DEF Listed
  <2>4. QED
    BY <2>1, <2>2, <2>3 DEF m
<1>5. CASE key \in DOMAIN t
  <2> DEFINE v == vector_remove(t[key], e)
  <2>1. /\ t[key] \in Seq(Entities) /\ IsInjective(t[key])
        /\ \A x \in Entities : Contains(t[key], x) =>
             x \in DOMAIN n /\ n[x] = key
    BY <1>5 DEF Index
  <2>2. \A x \in Entities : Once(t[key], x)
    BY <2>1, InjectiveOnce
  <2>3. /\ v \in Seq(Entities)
        /\ \A x \in Entities : Contains(v, x) => Contains(t[key], x)
        /\ \A x \in Entities \ {e} : Contains(t[key], x) => Contains(v, x)
        /\ \A x \in Entities : Once(t[key], x) => Once(v, x)
        /\ ~Contains(v, e)
    BY <2>1, <2>2, RemoveElements
  <2> HIDE DEF v
  <2>4. IsInjective(v)
    BY <2>2, <2>3, InjectiveOnce
  <2>5. \A x \in Entities : Contains(v, x) => x \in DOMAIN m /\ m[x] = key
    BY <1>1, <2>1, <2>3
  <2>6. CASE v = <<>>
    <3>1. s = Without(t, key)
      BY <1>5, <2>6 DEF trie_remove, v
    <3>2. DOMAIN s = DOMAIN t \ {key} /\ \A k \in DOMAIN s : s[k] = t[k]
      BY <3>1 DEF Without, Restrict
    <3>3. s \in [DOMAIN s -> Seq(Entities)]
      <4>1. \A z \in DOMAIN t \ {key} : Without(t, key)[z] \in Seq(Entities)
        BY <3>1, <3>2 DEF Index
      <4>2. QED
        BY <3>1, <4>1 DEF Without, Restrict
    <3> HIDE DEF s
    <3>4. Index(s, m, A)
      BY <1>2, <1>3, <3>2, <3>3 DEF Index
    <3>5. ASSUME NEW x \in V, x \in DOMAIN m
          PROVE  Contains(ListOf(s, m[x]), x)
      <4>1. Contains(ListOf(t, n[x]), x) /\ m[x] = n[x] /\ x # e
        BY <1>1, <3>5 DEF Listed
      <4>2. n[x] # key
        <5>1. ~Contains(v, x)
          BY <2>6 DEF Contains
        <5>2. QED
          BY <1>5, <2>3, <4>1, <5>1 DEF ListOf
      <4>3. ListOf(s, n[x]) = ListOf(t, n[x])
        BY <3>2, <4>2 DEF ListOf
      <4>4. QED
        BY <4>1, <4>3
    <3>6. QED
      BY <3>4, <3>5 DEF m, s, Listed
  <2>7. CASE v # <<>>
    <3>1. s = With(t, key, v)
      BY <1>5, <2>7 DEF trie_remove, v
    <3>2. /\ DOMAIN s = DOMAIN t /\ s[key] = v
          /\ \A k \in DOMAIN t \ {key} : s[k] = t[k]
      BY <1>5, <3>1 DEF With
    <3>3. s \in [DOMAIN s -> Seq(Entities)]
      <4>1. \A z \in DOMAIN t \cup {key} : With(t, key, v)[z] \in Seq(Entities)
        BY <2>3, <3>1, <3>2 DEF Index
      <4>2. QED
        BY <3>1, <4>1 DEF With
    <3> HIDE DEF s
    <3>4. ASSUME NEW k \in DOMAIN s
          PROVE  /\ s[k] = <<>> => k \in A
                 /\ IsInjective(s[k])
                 /\ \A x \in Entities : Contains(s[k], x) =>
                      x \in DOMAIN m /\ m[x] = k
      <4>1. CASE k = key
        BY <2>4, <2>5, <2>7, <3>2, <4>1
      <4>2. CASE k # key
        BY <1>3, <3>2, <4>2 DEF Index
      <4>3. QED
        BY <4>1, <4>2
    <3>5. Index(s, m, A)
      BY <1>2, <3>2, <3>3, <3>4 DEF Index
    <3>6. ASSUME NEW x \in V, x \in DOMAIN m
          PROVE  Contains(ListOf(s, m[x]), x)
      <4>1. Contains(ListOf(t, n[x]), x) /\ m[x] = n[x] /\ x # e
        BY <1>1, <3>6 DEF Listed
      <4>2. CASE n[x] = key
        BY <1>5, <2>3, <3>2, <4>1, <4>2 DEF ListOf
      <4>3. CASE n[x] # key
        <5>1. ListOf(s, n[x]) = ListOf(t, n[x])
          BY <3>2, <4>3 DEF ListOf
        <5>2. QED
          BY <4>1, <5>1
      <4>4. QED
        BY <4>2, <4>3
    <3>7. QED
      BY <3>5, <3>6 DEF m, s, Listed
  <2>8. QED
    BY <2>6, <2>7
<1>6. QED
  BY <1>4, <1>5

(* trie_transfer() of an entity from the list it is in. *)
LEMMA TransferIndex ==
  ASSUME NEW t, NEW n, NEW A, NEW V \in SUBSET Entities, Index(t, n, A),
         Listed(t, n, V), NEW e \in Entities, NEW from,
         e \in DOMAIN n => n[e] = from, NEW key \in Classes
  PROVE  /\ Index(trie_transfer(t, from, key, e), With(n, e, key), A)
         /\ Listed(trie_transfer(t, from, key, e), With(n, e, key), V)
<1> DEFINE s == trie_remove(t, from, e)
           m == Without(n, e)
<1>1. Index(s, m, A) /\ Listed(s, m, V)
  BY RemoveIndex
<1>2. e \notin DOMAIN m
  BY WithoutValues
<1>3. With(m, e, key) = With(n, e, key)
  BY DEF With, Without, Restrict
<1>4. trie_transfer(t, from, key, e) = trie_add(s, key, e)
  BY DEF trie_transfer
<1> HIDE DEF s, m
<1>5. QED
  BY <1>1, <1>2, <1>3, <1>4, AddIndex

(* The lists of a map with one more. *)
LEMMA ListOfWith ==
  ASSUME NEW f, NEW x, NEW y
  PROVE  /\ ListOf(With(f, x, y), x) = y
         /\ \A k : k # x => ListOf(With(f, x, y), k) = ListOf(f, k)
BY DEF With, ListOf

(* The lists of a map without one of them. *)
LEMMA ListOfWithout ==
  ASSUME NEW f, NEW x
  PROVE  /\ ListOf(Without(f, x), x) = <<>>
         /\ \A k : k # x => ListOf(Without(f, x), k) = ListOf(f, k)
BY DEF Without, Restrict, ListOf

(* A list loses at most one entity when an entity goes from one list to    *)
(* another.                                                                *)
LEMMA TransferLength ==
  ASSUME NEW t, NEW n, NEW A, Index(t, n, A), NEW e \in Entities, NEW from,
         NEW to, NEW key
  PROVE  LET s == trie_transfer(t, from, to, e) IN
         /\ Len(ListOf(s, key)) \in Nat /\ Len(ListOf(t, key)) \in Nat
         /\ Len(ListOf(s, key)) >= Len(ListOf(t, key)) - 1
<1> DEFINE r == trie_remove(t, from, e)
           s == trie_transfer(t, from, to, e)
<1>1. ListOf(t, key) \in Seq(Entities) /\ ListOf(t, from) \in Seq(Entities)
      /\ ListOf(t, to) \in Seq(Entities)
  BY ListOfIndex
<1>2. Len(<<>>) = 0 /\ <<>> \in Seq(Entities)
  OBVIOUS
<1>3. ASSUME NEW k, ListOf(t, k) \in Seq(Entities)
      PROVE  /\ ListOf(r, k) \in Seq(Entities)
             /\ Len(ListOf(r, k)) >= Len(ListOf(t, k)) - 1
  <2>1. CASE from \notin DOMAIN t \/ k # from
    <3>1. ListOf(r, k) = ListOf(t, k)
      <4>1. \/ r = t \/ r = Without(t, from)
            \/ \E w : r = With(t, from, w)
        BY DEF trie_remove
      <4>2. CASE from \notin DOMAIN t
        BY <4>2 DEF trie_remove
      <4>3. CASE k # from
        BY <4>1, <4>3, ListOfWith, ListOfWithout
      <4>4. QED
        BY <2>1, <4>2, <4>3
    <3>2. Len(ListOf(t, k)) \in Nat
      BY <1>3
    <3>3. QED
      BY <1>3, <3>1, <3>2
  <2>2. CASE from \in DOMAIN t /\ k = from
    <3>1. PICK w : w = vector_remove(t[from], e)
      OBVIOUS
    <3>2. ListOf(t, k) = t[from]
      BY <2>2 DEF ListOf
    <3>3. w \in Seq(Entities) /\ Len(w) >= Len(t[from]) - 1
      BY <1>3, <3>1, <3>2, RemoveElements
    <3>4. ListOf(r, k) = w
      <4>1. r = IF w = <<>> THEN Without(t, from) ELSE With(t, from, w)
        BY <2>2, <3>1 DEF trie_remove
      <4>2. QED
        BY <2>2, <4>1, ListOfWith, ListOfWithout
    <3>5. QED
      BY <3>2, <3>3, <3>4
  <2>3. QED
    BY <2>1, <2>2
<1>4. ListOf(r, key) \in Seq(Entities) /\ ListOf(r, to) \in Seq(Entities)
      /\ Len(ListOf(r, key)) >= Len(ListOf(t, key)) - 1
  BY <1>1, <1>3
<1>5. PICK y : y = Append(ListOf(r, to), e) /\ s = With(r, to, y)
  BY DEF trie_transfer, trie_add
<1> HIDE DEF r, s
<1>6. CASE key = to
  <2>1. ListOf(s, key) = Append(ListOf(r, key), e)
    <3>1. ListOf(With(r, to, y), to) = y
      BY ONLY ListOfWith
    <3>2. QED
      BY <1>5, <1>6, <3>1
  <2>2. Len(ListOf(s, key)) >= Len(ListOf(r, key)) /\ Len(ListOf(s, key)) \in Nat
    BY <1>4, <2>1, AppendElements
  <2>3. Len(ListOf(r, key)) \in Nat /\ Len(ListOf(t, key)) \in Nat
    BY <1>1, <1>4
  <2>4. QED
    BY <1>4, <2>2, <2>3 DEF s
<1>7. CASE key # to
  <2>1. ListOf(s, key) = ListOf(r, key)
    BY <1>5, <1>7, ListOfWith
  <2>2. Len(ListOf(r, key)) \in Nat /\ Len(ListOf(t, key)) \in Nat
    BY <1>1, <1>4
  <2>3. QED
    BY <1>4, <2>1, <2>2 DEF s
<1>8. QED
  BY <1>6, <1>7

-----------------------------------------------------------------------------
(* Items. *)

(* The fields of a state of the items. *)
LEMMA StateFields ==
  ASSUME NEW s \in ItemState
  PROVE  /\ s.list \in [Players -> Seq(Entities)]
         /\ s.inv \in [Players -> SUBSET Entities]
         /\ s.owner \in [Entities -> Players \cup {NoOwner}]
         /\ s.state \in [Entities -> {"free", "live", "leaving", "killme"}]
BY DEF ItemState

(* What AddPlayerItem changes. *)
LEMMA AddedFields ==
  ASSUME NEW s \in ItemState, NEW p \in Players, NEW e \in Entities
  PROVE  LET r == Added(s, p, e) IN
         /\ r \in ItemState
         /\ r.list = [s.list EXCEPT ![p] = Append(s.list[p], e)]
         /\ r.inv = [s.inv EXCEPT ![p] = s.inv[p] \cup {e}]
         /\ r.owner = [s.owner EXCEPT ![e] = p]
         /\ r.state = s.state
BY StateFields DEF Added, ItemState

(* What Kill changes. *)
LEMMA KilledFields ==
  ASSUME NEW s \in ItemState, NEW e \in Entities
  PROVE  LET r == Killed(s, e) IN
         /\ r \in ItemState
         /\ r.list = s.list /\ r.inv = s.inv /\ r.owner = s.owner
         /\ r.state = [s.state EXCEPT ![e] =
                         IF s.state[e] = "live" THEN "leaving" ELSE s.state[e]]
BY StateFields DEF Killed, ItemState

(* What RemovePlayerItem changes. *)
LEMMA RemovedFields ==
  ASSUME NEW s \in ItemState, NEW p \in Players, NEW e \in Entities
  PROVE  LET r == Removed(s, p, e)
             q == s.owner[e]
         IN
         /\ r \in ItemState
         /\ q \in Players =>
              r.list = [s.list EXCEPT ![q] = vector_remove(s.list[q], e)]
         /\ q \notin Players => r.list = s.list
         /\ r.inv = [s.inv EXCEPT ![p] = s.inv[p] \ {e}]
         /\ r.owner = s.owner /\ r.state = s.state
<1>1. \A q \in Players : vector_remove(s.list[q], e) \in Seq(Entities)
  BY StateFields, RemoveElements
<1>2. QED
  BY <1>1, StateFields DEF Removed, ItemState

(* What RemoveAllItems changes. *)
LEMMA AllRemovedFields ==
  ASSUME NEW s \in ItemState, NEW p \in Players
  PROVE  LET r == AllRemoved(s, p) IN
         /\ r \in ItemState
         /\ r.list = s.list /\ r.owner = s.owner
         /\ r.inv = [s.inv EXCEPT ![p] = {}]
         /\ \A e \in Entities : r.state[e] =
              IF e \in s.inv[p] /\ s.state[e] = "live" THEN "leaving"
              ELSE s.state[e]
<1> DEFINE st == [e \in Entities |-> IF e \in s.inv[p]
                                     THEN Killed(s, e).state[e]
                                     ELSE s.state[e]]
<1>1. ASSUME NEW e \in Entities
      PROVE  st[e] = IF e \in s.inv[p] /\ s.state[e] = "live" THEN "leaving"
                     ELSE s.state[e]
  <2>1. Killed(s, e).state[e] =
          IF s.state[e] = "live" THEN "leaving" ELSE s.state[e]
    <3>1. Killed(s, e).state = [s.state EXCEPT ![e] =
            IF s.state[e] = "live" THEN "leaving" ELSE s.state[e]]
      BY KilledFields
    <3>2. e \in DOMAIN s.state
      BY StateFields
    <3>3. QED
      BY <3>1, <3>2
  <2>2. QED
    BY <2>1
<1>2. st \in [Entities -> {"free", "live", "leaving", "killme"}]
  BY <1>1, StateFields
<1>3. AllRemoved(s, p) = [list |-> s.list, inv |-> [s.inv EXCEPT ![p] = {}],
                          owner |-> s.owner, state |-> st]
  BY DEF AllRemoved
<1> HIDE DEF st
<1>4. QED
  BY <1>1, <1>2, <1>3, StateFields DEF ItemState

(* The player takes an item that nobody has. *)
LEMMA ItemsAdded ==
  ASSUME NEW s, NEW N, NEW V, Items(s, N, V), NEW p \in Players, NEW e \in Entities,
         e \in N, s.state[e] # "free",
         \A q \in Players : e \notin s.inv[q] /\ ~Contains(s.list[q], e)
  PROVE  Items(Added(s, p, e), N, V)
<1> DEFINE r == Added(s, p, e)
           v == s.list[p]
           w == Append(v, e)
<1>1. s \in ItemState
  BY DEF Items
<1>2. /\ r \in ItemState
      /\ r.list = [s.list EXCEPT ![p] = w]
      /\ r.inv = [s.inv EXCEPT ![p] = s.inv[p] \cup {e}]
      /\ r.owner = [s.owner EXCEPT ![e] = p]
      /\ r.state = s.state
  BY <1>1, AddedFields
<1>3. v \in Seq(Entities) /\ IsInjective(v)
  BY <1>1, StateFields DEF Items, ListFacts
<1>4. /\ w \in Seq(Entities)
      /\ \A x \in Entities : Contains(w, x) <=> Contains(v, x) \/ x = e
      /\ \A x \in Entities :
           Once(v, x) /\ (x = e => ~Contains(v, e)) => Once(w, x)
  <2> HIDE DEF v
  <2>1. QED
    BY <1>3, AppendElements
<1> HIDE DEF r, w
<1>5. IsInjective(w)
  <2>1. \A x \in Entities : Once(w, x)
    BY <1>3, <1>4, InjectiveOnce
  <2>2. QED
    BY <1>4, <2>1, InjectiveOnce
<1>6. /\ r.list[p] = w /\ \A q \in Players \ {p} : r.list[q] = s.list[q]
      /\ r.inv[p] = s.inv[p] \cup {e}
      /\ \A q \in Players \ {p} : r.inv[q] = s.inv[q]
      /\ r.owner[e] = p /\ \A x \in Entities \ {e} : r.owner[x] = s.owner[x]
  BY <1>1, <1>2, StateFields
<1>7. ASSUME NEW q \in Players PROVE ListFacts(r, q)
  <2>1. ListFacts(s, q)
    BY DEF Items
  <2>2. CASE q = p
    BY <1>2, <1>4, <1>5, <1>6, <2>1, <2>2 DEF ListFacts
  <2>3. CASE q # p
    <3>1. r.list[q] = s.list[q] /\ r.inv[q] = s.inv[q]
      BY <1>6, <2>3
    <3>2. \A x \in Entities : Contains(s.list[q], x) => x # e
      OBVIOUS
    <3>3. QED
      BY <1>2, <1>6, <2>1, <3>1, <3>2 DEF ListFacts
  <2>4. QED
    BY <2>2, <2>3
<1>8. ASSUME NEW q \in Players PROVE InventoryFacts(r, q, N)
  <2>1. ASSUME NEW x \in r.inv[q]
        PROVE  /\ x \in N /\ r.state[x] # "free"
               /\ r.state[x] \in {"live", "leaving"} => Contains(r.list[q], x)
               /\ \A o \in Players : x \in r.inv[o] => o = q
    <3>1. x \in Entities
      BY <1>2, StateFields
    <3>2. CASE x = e
      BY <1>2, <1>4, <1>6, <2>1, <3>2
    <3>3. CASE x # e
      <4>1. \A o \in Players : x \in r.inv[o] <=> x \in s.inv[o]
        BY <1>6, <3>3
      <4>2. /\ x \in N /\ s.state[x] # "free"
            /\ s.state[x] \in {"live", "leaving"} => Contains(s.list[q], x)
            /\ \A o \in Players : x \in s.inv[o] => o = q
        BY <2>1, <4>1 DEF Items, InventoryFacts
      <4>3. Contains(s.list[q], x) => Contains(r.list[q], x)
        BY <1>4, <1>6, <3>1
      <4>4. QED
        BY <1>2, <4>1, <4>2, <4>3
    <3>4. QED
      BY <3>2, <3>3
  <2>2. QED
    BY <2>1 DEF InventoryFacts
<1>9. StateFacts(r, N, V)
  BY <1>2 DEF Items, StateFacts
<1>10. QED
  BY <1>2, <1>7, <1>8, <1>9 DEF Items, r

(* An entity is taken out of the list of its owner. *)
LEMMA TakenOut ==
  ASSUME NEW s \in ItemState, NEW e \in Entities, NEW l,
         \A q \in Players : /\ IsInjective(s.list[q])
                            /\ Contains(s.list[q], e) => s.owner[e] = q,
         s.owner[e] \in Players =>
           l = [s.list EXCEPT ![s.owner[e]] =
                  vector_remove(s.list[s.owner[e]], e)],
         s.owner[e] \notin Players => l = s.list
  PROVE  \A q \in Players :
           /\ l[q] \in Seq(Entities) /\ IsInjective(l[q])
           /\ \A x \in Entities :
                Contains(l[q], x) <=> Contains(s.list[q], x) /\ x # e
<1> SUFFICES ASSUME NEW q \in Players
             PROVE  /\ l[q] \in Seq(Entities) /\ IsInjective(l[q])
                    /\ \A x \in Entities :
                         Contains(l[q], x) <=> Contains(s.list[q], x) /\ x # e
  OBVIOUS
<1>1. s.list[q] \in Seq(Entities) /\ s.list \in [Players -> Seq(Entities)]
  BY StateFields
<1>2. CASE q = s.owner[e]
  <2> DEFINE u == s.list[q]
             y == vector_remove(u, e)
  <2>1. l[q] = y
    BY <1>1, <1>2
  <2>2. \A x \in Entities : Once(u, x)
    BY <1>1, InjectiveOnce
  <2>3. /\ y \in Seq(Entities)
        /\ \A x \in Entities : Contains(y, x) => Contains(u, x)
        /\ \A x \in Entities \ {e} : Contains(u, x) => Contains(y, x)
        /\ \A x \in Entities : Once(u, x) => Once(y, x)
        /\ Once(u, e) => ~Contains(y, e)
    <3> HIDE DEF u
    <3>1. u \in Seq(Entities)
      BY <1>1 DEF u
    <3>2. QED
      BY <3>1, RemoveElements
  <2> HIDE DEF u, y
  <2>4. IsInjective(y)
    BY <2>2, <2>3, InjectiveOnce
  <2>5. \A x \in Entities : Contains(y, x) <=> Contains(u, x) /\ x # e
    BY <2>2, <2>3
  <2>6. QED
    BY <2>1, <2>3, <2>4, <2>5 DEF u
<1>3. CASE q # s.owner[e]
  <2>1. l[q] = s.list[q]
    BY <1>1, <1>3
  <2>2. QED
    BY <1>1, <1>3, <2>1
<1>4. QED
  BY <1>2, <1>3

(* The player gives an item away: nobody has it then. *)
LEMMA ItemsRemoved ==
  ASSUME NEW s, NEW N, NEW V, Items(s, N, V), NEW p \in Players, NEW e \in s.inv[p]
  PROVE  LET r == Removed(s, p, e) IN
         /\ Items(r, N, V) /\ r.state = s.state
         /\ \A q \in Players : e \notin r.inv[q] /\ ~Contains(r.list[q], e)
<1> DEFINE r == Removed(s, p, e)
           o == s.owner[e]
           w == vector_remove(s.list[o], e)
<1>1. s \in ItemState /\ e \in Entities
  BY StateFields DEF Items
<1>2. /\ r \in ItemState
      /\ o \in Players => r.list = [s.list EXCEPT ![o] = w]
      /\ o \notin Players => r.list = s.list
      /\ r.inv = [s.inv EXCEPT ![p] = s.inv[p] \ {e}]
      /\ r.owner = s.owner /\ r.state = s.state
  BY <1>1, RemovedFields
<1> HIDE DEF r
<1>3. /\ r.inv[p] = s.inv[p] \ {e}
      /\ \A q \in Players \ {p} : r.inv[q] = s.inv[q] /\ e \notin s.inv[q]
  BY <1>1, <1>2, StateFields DEF Items, InventoryFacts
<1>4. \A q \in Players :
        /\ r.list[q] \in Seq(Entities) /\ IsInjective(r.list[q])
        /\ \A x \in Entities :
             Contains(r.list[q], x) <=> Contains(s.list[q], x) /\ x # e
  <2>1. \A q \in Players :
          IsInjective(s.list[q]) /\ (Contains(s.list[q], e) => o = q)
    BY <1>1 DEF Items, ListFacts
  <2> HIDE DEF w
  <2>2. QED
    BY <1>1, <1>2, <2>1, TakenOut DEF w
<1>5. ASSUME NEW q \in Players PROVE ListFacts(r, q)
  <2>1. ASSUME NEW x \in Entities, Contains(r.list[q], x)
        PROVE  /\ r.state[x] # "free" /\ r.owner[x] = q
               /\ r.state[x] = "live" => x \in r.inv[q]
    <3>1. Contains(s.list[q], x) /\ x # e
      BY <1>4, <2>1
    <3>2. /\ s.state[x] # "free" /\ s.owner[x] = q
          /\ s.state[x] = "live" => x \in s.inv[q]
      BY <3>1 DEF Items, ListFacts
    <3>3. QED
      BY <1>2, <1>3, <3>1, <3>2
  <2>2. QED
    BY <1>4, <2>1 DEF ListFacts
<1>6. ASSUME NEW q \in Players PROVE InventoryFacts(r, q, N)
  <2>1. ASSUME NEW x \in r.inv[q]
        PROVE  /\ x \in N /\ r.state[x] # "free"
               /\ r.state[x] \in {"live", "leaving"} => Contains(r.list[q], x)
               /\ \A a \in Players : x \in r.inv[a] => a = q
    <3>1. x \in s.inv[q] /\ x # e /\ x \in Entities
      BY <1>2, <1>3, StateFields
    <3>2. \A a \in Players : x \in r.inv[a] => x \in s.inv[a]
      BY <1>3
    <3>3. /\ x \in N /\ s.state[x] # "free"
          /\ s.state[x] \in {"live", "leaving"} => Contains(s.list[q], x)
          /\ \A a \in Players : x \in s.inv[a] => a = q
      BY <3>1 DEF Items, InventoryFacts
    <3>4. QED
      BY <1>2, <1>4, <3>1, <3>2, <3>3
  <2>2. QED
    BY <2>1 DEF InventoryFacts
<1>7. \A q \in Players : e \notin r.inv[q] /\ ~Contains(r.list[q], e)
  BY <1>1, <1>3, <1>4
<1>8. StateFacts(r, N, V)
  BY <1>2 DEF Items, StateFacts
<1>9. QED
  BY <1>2, <1>5, <1>6, <1>7, <1>8 DEF Items, r

(* An item that is killed stays where it is for a moment. *)
LEMMA ItemsKilled ==
  ASSUME NEW s, NEW N, NEW V, Items(s, N, V), NEW e \in Entities
  PROVE  Items(Killed(s, e), N, V)
<1> DEFINE r == Killed(s, e)
<1>1. s \in ItemState
  BY DEF Items
<1>2. /\ r \in ItemState
      /\ r.list = s.list /\ r.inv = s.inv /\ r.owner = s.owner
      /\ r.state = [s.state EXCEPT ![e] =
                      IF s.state[e] = "live" THEN "leaving" ELSE s.state[e]]
  BY <1>1, KilledFields
<1> HIDE DEF r
<1>3. ASSUME NEW x \in Entities
      PROVE  /\ r.state[x] = "free" <=> s.state[x] = "free"
             /\ r.state[x] = "live" => s.state[x] = "live"
             /\ r.state[x] \in {"live", "leaving"} =>
                  s.state[x] \in {"live", "leaving"}
  BY <1>1, <1>2, StateFields
<1>4. ASSUME NEW q \in Players PROVE ListFacts(r, q)
  BY <1>2, <1>3 DEF Items, ListFacts
<1>5. ASSUME NEW q \in Players PROVE InventoryFacts(r, q, N)
  <2>1. s.inv[q] \subseteq Entities
    BY <1>1, StateFields
  <2>2. QED
    BY <1>2, <1>3, <2>1 DEF Items, InventoryFacts
<1>6. StateFacts(r, N, V)
  BY <1>3 DEF Items, StateFacts
<1>7. QED
  BY <1>2, <1>4, <1>5, <1>6 DEF Items, r

(* RemoveAllItems leaves the list of the player alone. *)
LEMMA ItemsAllRemoved ==
  ASSUME NEW s, NEW N, NEW V, Items(s, N, V), NEW p \in Players
  PROVE  Items(AllRemoved(s, p), N, V)
<1> DEFINE r == AllRemoved(s, p)
<1>1. s \in ItemState
  BY DEF Items
<1>2. /\ r \in ItemState
      /\ r.list = s.list /\ r.owner = s.owner
      /\ r.inv = [s.inv EXCEPT ![p] = {}]
      /\ \A e \in Entities : r.state[e] =
           IF e \in s.inv[p] /\ s.state[e] = "live" THEN "leaving"
           ELSE s.state[e]
  BY <1>1, AllRemovedFields
<1> HIDE DEF r
<1>3. r.inv[p] = {} /\ \A q \in Players \ {p} : r.inv[q] = s.inv[q]
  BY <1>1, <1>2, StateFields
<1>4. ASSUME NEW q \in Players PROVE ListFacts(r, q)
  <2>1. ListFacts(s, q)
    BY DEF Items
  <2>2. CASE q = p
    BY <1>2, <2>1, <2>2 DEF ListFacts
  <2>3. CASE q # p
    BY <1>2, <1>3, <2>1, <2>3 DEF ListFacts
  <2>4. QED
    BY <2>2, <2>3
<1>5. ASSUME NEW q \in Players PROVE InventoryFacts(r, q, N)
  <2>1. CASE q = p
    BY <1>3, <2>1 DEF InventoryFacts
  <2>2. CASE q # p
    <3>1. r.inv[q] = s.inv[q] /\ s.inv[q] \subseteq Entities
      BY <1>1, <1>3, <2>2, StateFields
    <3>2. \A x \in s.inv[q] : x \notin s.inv[p]
      BY <2>2 DEF Items, InventoryFacts
    <3>3. \A x \in s.inv[q] : r.state[x] = s.state[x]
      BY <1>2, <3>1, <3>2
    <3>4. \A x : \A a \in Players : x \in r.inv[a] => x \in s.inv[a]
      BY <1>3
    <3>5. InventoryFacts(s, q, N)
      BY DEF Items
    <3>6. QED
      BY <1>2, <3>1, <3>3, <3>4, <3>5 DEF InventoryFacts
  <2>3. QED
    BY <2>1, <2>2
<1>6. StateFacts(r, N, V)
  BY <1>2 DEF Items, StateFacts
<1>7. QED
  BY <1>2, <1>4, <1>5, <1>6 DEF Items, r

(* One round of the loop over the items that are handed over. *)
LEMMA TransferRound ==
  ASSUME NEW s, NEW N, NEW V, Items(s, N, V), NEW from \in Players, NEW to \in Players,
         NEW e \in Entities, NEW skip, NEW kill, NEW refuse
  PROVE  Items(TransferItem(s, from, to, e, skip, kill, refuse), N, V)
<1> DEFINE removed == Removed(s, from, e)
<1>1. CASE s.state[e] = "free" \/ s.owner[e] # from \/ e \in skip
           \/ e \notin s.inv[from]
  BY <1>1 DEF TransferItem
<1>2. CASE ~(s.state[e] = "free" \/ s.owner[e] # from \/ e \in skip
             \/ e \notin s.inv[from])
  <2>1. e \in s.inv[from] /\ s.state[e] # "free" /\ e \in N
    BY <1>2 DEF Items, InventoryFacts
  <2>2. /\ Items(removed, N, V) /\ removed.state = s.state
        /\ \A q \in Players :
             e \notin removed.inv[q] /\ ~Contains(removed.list[q], e)
    BY <2>1, ItemsRemoved
  <2>3. TransferItem(s, from, to, e, skip, kill, refuse) =
          IF e \in kill THEN Killed(removed, e)
          ELSE IF e \in refuse THEN removed ELSE Added(removed, to, e)
    BY <1>2 DEF TransferItem
  <2> HIDE DEF removed
  <2>4. Items(Killed(removed, e), N, V)
    BY <2>2, ItemsKilled
  <2>5. Items(Added(removed, to, e), N, V)
    BY <2>1, <2>2, ItemsAdded
  <2>6. QED
    BY <2>2, <2>3, <2>4, <2>5
<1>3. QED
  BY <1>1, <1>2

(* One round of the loop over the items that are replaced. *)
LEMMA ReplaceRound ==
  ASSUME NEW x, NEW N, NEW V, Items(x.now, N, V), NEW n \in Nat, x.mem \in Seq(Entities),
         Len(x.mem) >= n, NEW i \in 1 .. n, NEW p \in Players, NEW skip
  PROVE  LET y == ReplaceItem(x, i, p, skip) IN
         /\ y = x \/ y = [now |-> y.now, mem |-> y.mem]
         /\ Items(y.now, N, V) /\ y.mem \in Seq(Entities) /\ Len(y.mem) >= n
<1> DEFINE e == x.mem[i]
           s == x.now
           removed == Removed(s, p, e)
           killed == Killed(removed, e)
           skipped == s.state[e] = "free" \/ s.owner[e] # p \/ e \in skip
                      \/ e \notin s.inv[p]
<1>1. CASE skipped
  BY <1>1 DEF ReplaceItem
<1>2. CASE ~skipped
  <2>1. e \in s.inv[p] /\ e \in Entities
    BY <1>2
  <2>2. ReplaceItem(x, i, p, skip) =
          [now |-> killed, mem |-> Memory(x.mem, killed.list[p])]
    BY <1>2 DEF ReplaceItem
  <2> HIDE DEF e, skipped
  <2>3. Items(removed, N, V)
    BY <2>1, ItemsRemoved
  <2> HIDE DEF removed
  <2>4. Items(killed, N, V)
    BY <2>1, <2>3, ItemsKilled
  <2>5. killed.list[p] \in Seq(Entities)
    BY <2>4, StateFields DEF Items
  <2> DEFINE v == killed.list[p]
             w == Memory(x.mem, v)
  <2>6. w \in Seq(Entities) /\ Len(w) >= Len(x.mem)
    <3> HIDE DEF v
    <3>1. v \in Seq(Entities)
      BY <2>5 DEF v
    <3>2. QED
      BY <3>1, MemoryElements
  <2>7. Len(w) >= n
    <3>1. Len(w) \in Nat /\ Len(x.mem) \in Nat
      BY <2>6
    <3> HIDE DEF w
    <3>2. QED
      BY <2>6, <3>1
  <2> HIDE DEF w, killed
  <2>8. QED
    BY <2>2, <2>4, <2>6, <2>7 DEF w, v
<1>3. QED
  BY <1>1, <1>2

(* The loop over the items that are handed over. *)
LEMMA TransferLoop ==
  ASSUME NEW s, NEW N, NEW V, Items(s, N, V), NEW from \in Players, NEW to \in Players,
         NEW skip, NEW kill, NEW refuse
  PROVE  Items(TransferItems(s, from, to, skip, kill, refuse), N, V)
<1> DEFINE n == Len(s.list[from])
           X == {x \in ItemState : Items(x, N, V)}
           start == s
           step(x, i) == TransferItem(x, from, to, s.list[from][i], skip, kill, refuse)
           G == [i \in 1 .. n |-> [x \in X |-> step(x, i)]]
           Made(f) == f = [i \in 0 .. n |-> IF i = 0 THEN start
                                            ELSE step(f[i - 1], i)]
<1>1. n \in Nat
  <2>1. s.list[from] \in Seq(Entities)
    BY StateFields DEF Items
  <2>2. QED
    BY <2>1
<1>2. start \in X
  BY DEF Items
<1>3. ASSUME NEW x \in X, NEW i \in 1 .. n
      PROVE  step(x, i) \in X
  <2>1. s.list[from] \in Seq(Entities)
    BY StateFields DEF Items
  <2>2. s.list[from][i] \in Entities
    BY <2>1
  <2>3. Items(step(x, i), N, V)
    BY <2>2, TransferRound
  <2>4. QED
    BY <2>3 DEF Items
<1>4. TransferItems(s, from, to, skip, kill, refuse) = (CHOOSE f : Made(f))[n]
  BY DEF TransferItems
<1> HIDE DEF start, step, X, n
<1>5. PICK f : Run(f, n, start, G)
  <2> HIDE DEF G
  <2>1. QED
    BY <1>1, Rounds
<1>6. \A i \in 0 .. n : f[i] \in X
  <2> DEFINE T == {i \in 0 .. n : f[i] \in X}
  <2>1. 0 \in T
    BY <1>1, <1>2, <1>5 DEF Run
  <2>2. ASSUME NEW i \in 1 .. n, i - 1 \in T PROVE i \in T
    <3>1. f[i] = G[i][f[i - 1]] /\ f[i - 1] \in X
      BY <1>1, <1>5, <2>2 DEF Run
    <3>2. f[i] \in X
      BY <1>3, <3>1
    <3>3. QED
      BY <1>1, <3>2
  <2> HIDE DEF T
  <2>3. \A i \in 0 .. n : i \in T
    BY <1>1, <2>1, <2>2, UpTo
  <2>4. QED
    BY <2>3 DEF T
<1>7. Made(f)
  <2>1. ASSUME NEW i \in 1 .. n PROVE G[i][f[i - 1]] = step(f[i - 1], i)
    BY <1>1, <1>6
  <2> HIDE DEF G
  <2>2. ASSUME NEW i \in 0 .. n
        PROVE  f[i] = IF i = 0 THEN start ELSE step(f[i - 1], i)
    <3>1. f[0] = start /\ \A k \in 1 .. n : f[k] = G[k][f[k - 1]]
      BY <1>5 DEF Run
    <3>2. CASE i = 0
      BY ONLY <3>1, <3>2
    <3>3. CASE i # 0
      <4>1. i \in 1 .. n
        BY <1>1, <3>3
      <4>2. f[i] = step(f[i - 1], i)
        BY ONLY <2>1, <3>1, <4>1
      <4>3. QED
        BY ONLY <3>3, <4>2
    <3>4. QED
      BY ONLY <3>2, <3>3
  <2>3. f = [i \in 0 .. n |-> f[i]]
    BY <1>5 DEF Run
  <2> HIDE DEF step
  <2>4. QED
    BY ONLY <2>2, <2>3
<1> DEFINE F == CHOOSE g : Made(g)
<1>8. Made(F)
  <2> HIDE DEF Made
  <2>1. QED
    BY <1>7
<1> HIDE DEF F
<1>9. F[0] = start /\ \A i \in 1 .. n : F[i] = step(F[i - 1], i)
  BY <1>1, <1>8
<1>10. F[n] \in X
  <2> DEFINE T == {i \in 0 .. n : F[i] \in X}
  <2>1. 0 \in T
    BY <1>1, <1>2, <1>9
  <2>2. ASSUME NEW i \in 1 .. n, i - 1 \in T PROVE i \in T
    BY <1>1, <1>3, <1>9, <2>2
  <2> HIDE DEF T
  <2>3. \A i \in 0 .. n : i \in T
    BY <1>1, <2>1, <2>2, UpTo
  <2>4. QED
    BY <1>1, <2>3 DEF T
<1>11. QED
  BY <1>4, <1>10 DEF F, X

(* The loop over the items that are replaced. *)
LEMMA ReplaceLoop ==
  ASSUME NEW N, NEW V, Items(Now, N, V), NEW p \in Players, NEW skip
  PROVE  Items(ReplaceItems(p, skip), N, V)
<1> DEFINE n == Len(player_entities[p])
           X == {x \in [now : ItemState, mem : Seq(Entities)] :
                   Items(x.now, N, V) /\ Len(x.mem) >= n}
           start == [now |-> Now, mem |-> player_entities[p]]
           step(x, i) == ReplaceItem(x, i, p, skip)
           G == [i \in 1 .. n |-> [x \in X |-> step(x, i)]]
           Made(f) == f = [i \in 0 .. n |-> IF i = 0 THEN start
                                            ELSE step(f[i - 1], i)]
<1>1. n \in Nat
  <2>1. player_entities[p] \in Seq(Entities)
    BY StateFields DEF Items, Now
  <2>2. QED
    BY <2>1
<1>2. start \in X
  <2>1. player_entities[p] \in Seq(Entities)
    BY StateFields DEF Items, Now
  <2>2. Now \in ItemState
    BY DEF Items
  <2>3. QED
    BY <1>1, <2>1, <2>2
<1>3. ASSUME NEW x \in X, NEW i \in 1 .. n
      PROVE  step(x, i) \in X
  <2> DEFINE y == step(x, i)
  <2>1. /\ y = x \/ y = [now |-> y.now, mem |-> y.mem]
        /\ Items(y.now, N, V) /\ y.mem \in Seq(Entities) /\ Len(y.mem) >= n
    <3> HIDE DEF n
    <3>1. QED
      BY <1>1, ReplaceRound
  <2> HIDE DEF y
  <2>2. QED
    BY <2>1 DEF Items, y
<1>4. ReplaceItems(p, skip) = (CHOOSE f : Made(f))[n].now
  BY DEF ReplaceItems
<1> HIDE DEF start, step, X, n
<1>5. PICK f : Run(f, n, start, G)
  <2> HIDE DEF G
  <2>1. QED
    BY <1>1, Rounds
<1>6. \A i \in 0 .. n : f[i] \in X
  <2> DEFINE T == {i \in 0 .. n : f[i] \in X}
  <2>1. 0 \in T
    BY <1>1, <1>2, <1>5 DEF Run
  <2>2. ASSUME NEW i \in 1 .. n, i - 1 \in T PROVE i \in T
    <3>1. f[i] = G[i][f[i - 1]] /\ f[i - 1] \in X
      BY <1>1, <1>5, <2>2 DEF Run
    <3>2. f[i] \in X
      BY <1>3, <3>1
    <3>3. QED
      BY <1>1, <3>2
  <2> HIDE DEF T
  <2>3. \A i \in 0 .. n : i \in T
    BY <1>1, <2>1, <2>2, UpTo
  <2>4. QED
    BY <2>3 DEF T
<1>7. Made(f)
  <2>1. ASSUME NEW i \in 1 .. n PROVE G[i][f[i - 1]] = step(f[i - 1], i)
    BY <1>1, <1>6
  <2> HIDE DEF G
  <2>2. ASSUME NEW i \in 0 .. n
        PROVE  f[i] = IF i = 0 THEN start ELSE step(f[i - 1], i)
    <3>1. f[0] = start /\ \A k \in 1 .. n : f[k] = G[k][f[k - 1]]
      BY <1>5 DEF Run
    <3>2. CASE i = 0
      BY ONLY <3>1, <3>2
    <3>3. CASE i # 0
      <4>1. i \in 1 .. n
        BY <1>1, <3>3
      <4>2. f[i] = step(f[i - 1], i)
        BY ONLY <2>1, <3>1, <4>1
      <4>3. QED
        BY ONLY <3>3, <4>2
    <3>4. QED
      BY ONLY <3>2, <3>3
  <2>3. f = [i \in 0 .. n |-> f[i]]
    BY <1>5 DEF Run
  <2> HIDE DEF step
  <2>4. QED
    BY ONLY <2>2, <2>3
<1> DEFINE F == CHOOSE g : Made(g)
<1>8. Made(F)
  <2> HIDE DEF Made
  <2>1. QED
    BY <1>7
<1> HIDE DEF F
<1>9. F[0] = start /\ \A i \in 1 .. n : F[i] = step(F[i - 1], i)
  BY <1>1, <1>8
<1>10. F[n] \in X
  <2> DEFINE T == {i \in 0 .. n : F[i] \in X}
  <2>1. 0 \in T
    BY <1>1, <1>2, <1>9
  <2>2. ASSUME NEW i \in 1 .. n, i - 1 \in T PROVE i \in T
    BY <1>1, <1>3, <1>9, <2>2
  <2> HIDE DEF T
  <2>3. \A i \in 0 .. n : i \in T
    BY <1>1, <2>1, <2>2, UpTo
  <2>4. QED
    BY <1>1, <2>3 DEF T
<1>11. QED
  BY <1>4, <1>10 DEF F, X

-----------------------------------------------------------------------------
(* copy_entities *)

(* The lists that copy_entities walks over. *)
LEMMA ListTypes ==
  ASSUME EInv, NEW p, NEW key
  PROVE  /\ List(p, key) \in Seq(Entities) /\ Purged(List(p, key)) \in Seq(Entities)
         /\ Len(Purged(List(p, key))) <= Len(List(p, key))
         /\ \A x \in Entities : Contains(Purged(List(p, key)), x) <=>
              /\ Contains(List(p, key), x)
              /\ x \in DOMAIN classnames /\ is_valid_entity(x)
         /\ \A x \in Entities :
              Once(List(p, key), x) => Once(Purged(List(p, key)), x)
<1> DEFINE v == List(p, key)
           S == {e \in DOMAIN classnames : is_valid_entity(e)}
<1>1. v \in Seq(Entities)
  <2>1. player_entities \in [Players -> Seq(Entities)]
    BY StateFields DEF EInv, ItemFacts, Now
  <2>2. ListOf(entities, key) \in Seq(Entities)
    BY ListOfIndex DEF EInv
  <2>3. wp_entities \in Seq(Entities)
    BY DEF EInv, WeaponFacts
  <2>4. QED
    BY <2>1, <2>2, <2>3 DEF List
<1>2. Purged(v) = Keep(v, S)
  BY DEF Purged
<1> HIDE DEF v, S
<1>3. /\ Purged(v) \in Seq(Entities) /\ Len(Purged(v)) <= Len(v)
      /\ \A x \in Entities : Contains(Purged(v), x) <=> Contains(v, x) /\ x \in S
      /\ \A x \in Entities : Once(v, x) => Once(Purged(v), x)
  BY <1>1, <1>2, KeepElements
<1>4. QED
  BY <1>1, <1>3 DEF v, S

(* The state of the loop: the index is in order, but for the list of the   *)
(* class that is asked for, which may be empty, and the memory holds noted *)
(* entities.                                                               *)
CopyOK(x, n, A) ==
  /\ Index(x.trie, x.names, A) /\ Listed(x.trie, x.names, Valid)
  /\ DOMAIN x.names = DOMAIN classnames
  /\ x.mem \in Seq(Entities) /\ x.result \in Seq(Entities) /\ Len(x.mem) >= n
  /\ \A i \in 1 .. Len(x.mem) : x.mem[i] \in DOMAIN classnames

(* One round of the loop. *)
LEMMA CopyRound ==
  ASSUME EInv, NEW x, NEW n \in Nat, NEW A, CopyOK(x, n, A), NEW i \in 1 .. n,
         NEW key, NEW size, NEW own
  PROVE  LET y == CopyEntity(x, i, key, size, own) IN
         /\ y = x \/ y = [trie |-> y.trie, names |-> y.names, mem |-> y.mem,
                          result |-> y.result]
         /\ CopyOK(y, n, A)
<1>1. CASE Len(x.result) = size
  BY <1>1 DEF CopyEntity
<1>2. CASE Len(x.result) # size
  <2> DEFINE y == CopyEntity(x, i, key, size, own)
             e == x.mem[i]
             moved == x.names[e] # class[e]
             t == IF moved THEN trie_transfer(x.trie, x.names[e], class[e], e)
                  ELSE x.trie
             m == [x.names EXCEPT ![e] = class[e]]
             w == IF own /\ moved THEN Memory(x.mem, ListOf(t, key)) ELSE x.mem
             r == IF class[e] = key THEN Append(x.result, e) ELSE x.result
  <2>1. y = [trie |-> t, names |-> m, mem |-> w, result |-> r]
    BY <1>2 DEF CopyEntity
  <2>2. i \in 1 .. Len(x.mem)
    <3>1. Len(x.mem) \in Nat /\ Len(x.mem) >= n
      BY DEF CopyOK
    <3>2. QED
      BY <3>1
  <2>3. e \in DOMAIN classnames /\ e \in DOMAIN x.names /\ e \in Entities
    BY <2>2 DEF CopyOK, EInv, Index
  <2>4. class[e] \in Classes
    BY <2>3 DEF EInv, NameFacts, EngineTypes
  <2>5. Index(t, m, A) /\ Listed(t, m, Valid) /\ DOMAIN m = DOMAIN classnames
    <3> HIDE DEF e
    <3>1. x.names = [a \in DOMAIN x.names |-> x.names[a]]
      BY DEF CopyOK, Index
    <3>2. DOMAIN m = DOMAIN classnames
      BY DEF CopyOK
    <3>3. CASE moved
      <4>1. m = With(x.names, e, class[e])
        BY <2>3, <3>1 DEF With
      <4>2. t = trie_transfer(x.trie, x.names[e], class[e], e)
        BY <3>3
      <4> HIDE DEF m, t, moved
      <4>3. Valid \in SUBSET Entities
        BY DEF Valid
      <4>4. Index(x.trie, x.names, A) /\ Listed(x.trie, x.names, Valid)
        BY DEF CopyOK
      <4>5. QED
        BY <2>3, <2>4, <3>2, <4>1, <4>2, <4>3, <4>4, TransferIndex
    <3>4. CASE ~moved
      <4>1. m = x.names /\ t = x.trie
        BY <2>3, <3>1, <3>4
      <4> HIDE DEF m, t, moved
      <4>2. QED
        BY <3>2, <4>1 DEF CopyOK
    <3>5. QED
      BY <3>3, <3>4
  <2>6. r \in Seq(Entities)
    BY <2>3 DEF CopyOK
  <2>7. /\ w \in Seq(Entities) /\ Len(w) >= n
        /\ \A j \in 1 .. Len(w) : w[j] \in DOMAIN classnames
    <3> HIDE DEF e, t, m, moved
    <3>1. CASE ~(own /\ moved)
      BY <3>1 DEF CopyOK
    <3>2. CASE own /\ moved
      <4> DEFINE v == ListOf(t, key)
      <4>1. /\ v \in Seq(Entities)
            /\ \A a \in Entities : Contains(v, a) => a \in DOMAIN m
        BY <2>5, ListOfIndex
      <4>2. w = Memory(x.mem, v)
        BY <3>2
      <4> HIDE DEF v, w
      <4>3. x.mem \in Seq(Entities) /\ Len(x.mem) >= n /\ Len(x.mem) \in Nat
        BY DEF CopyOK
      <4>4. /\ w \in Seq(Entities) /\ Len(w) >= Len(x.mem)
            /\ \A j \in 1 .. Len(w) : Contains(v, w[j]) \/ Contains(x.mem, w[j])
        BY <4>1, <4>2, <4>3, MemoryElements
      <4>5. Len(w) >= n
        <5>1. Len(w) \in Nat
          BY <4>4
        <5>2. QED
          BY <4>3, <4>4, <5>1
      <4>6. ASSUME NEW j \in 1 .. Len(w) PROVE w[j] \in DOMAIN classnames
        <5>1. w[j] \in Entities
          BY <4>4
        <5>2. CASE Contains(v, w[j])
          BY <2>5, <4>1, <5>1, <5>2
        <5>3. CASE Contains(x.mem, w[j])
          BY <5>3 DEF Contains, CopyOK
        <5>4. QED
          BY <4>4, <5>2, <5>3
      <4>7. QED
        BY <4>4, <4>5, <4>6
    <3>3. QED
      BY <3>1, <3>2
  <2> HIDE DEF t, m, w, r, y, e
  <2>8. QED
    BY <2>1, <2>5, <2>6, <2>7 DEF CopyOK, y
<1>3. QED
  BY <1>1, <1>2

(* The keys whose lists may be empty after a question. *)
AskedFor(p, key) == IF OfClass(p, key) THEN asked \cup {key} ELSE asked

CopyStart(p, key) ==
  LET v == Purged(List(p, key)) IN
  [trie |-> IF OfClass(p, key) THEN With(entities, key, v) ELSE entities,
   names |-> classnames, mem |-> v, result |-> <<>>]

(* The start of the loop: remove_if leaves the valid entities. *)
LEMMA CopyStartOK ==
  ASSUME EInv, NEW p, NEW key \in Classes
  PROVE  CopyOK(CopyStart(p, key), Len(Purged(List(p, key))), AskedFor(p, key))
<1> DEFINE v == Purged(List(p, key))
           own == OfClass(p, key)
           A == AskedFor(p, key)
           t == IF own THEN With(entities, key, v) ELSE entities
<1>1. CopyStart(p, key) = [trie |-> t, names |-> classnames, mem |-> v,
                           result |-> <<>>]
  BY DEF CopyStart
<1>2. /\ v \in Seq(Entities)
      /\ \A x \in Entities : Contains(v, x) <=>
           /\ Contains(List(p, key), x)
           /\ x \in DOMAIN classnames /\ is_valid_entity(x)
      /\ \A x \in Entities : Once(List(p, key), x) => Once(v, x)
  BY ListTypes
<1> HIDE DEF v
<1>3. \A i \in 1 .. Len(v) : v[i] \in DOMAIN classnames
  <2>1. ASSUME NEW i \in 1 .. Len(v) PROVE v[i] \in DOMAIN classnames
    <3>1. v[i] \in Entities /\ Contains(v, v[i])
      BY <1>2 DEF Contains
    <3>2. QED
      BY <1>2, <3>1
  <2>2. QED
    BY <2>1
<1>4. Index(t, classnames, A) /\ Listed(t, classnames, Valid)
  <2>0. Index(entities, classnames, asked) /\ Listed(entities, classnames, Valid)
    BY DEF EInv
  <2>1. CASE ~own
    BY <2>0, <2>1 DEF AskedFor
  <2>2. CASE own
    <3>1. List(p, key) = ListOf(entities, key)
      BY <2>2 DEF OfClass, List
    <3>2. /\ ListOf(entities, key) \in Seq(Entities)
          /\ IsInjective(ListOf(entities, key))
          /\ \A x \in Entities : Contains(ListOf(entities, key), x) =>
               x \in DOMAIN classnames /\ classnames[x] = key
      BY <2>0, ListOfIndex
    <3>3. IsInjective(v)
      <4>1. \A x \in Entities : Once(v, x)
        BY <1>2, <3>1, <3>2, InjectiveOnce
      <4>2. QED
        BY <1>2, <4>1, InjectiveOnce
    <3>4. t = With(entities, key, v)
      BY <2>2
    <3>5. /\ DOMAIN t = DOMAIN entities \cup {key} /\ t[key] = v
          /\ \A k \in DOMAIN entities \ {key} : t[k] = entities[k]
      BY <3>4 DEF With
    <3>6. t \in [DOMAIN t -> Seq(Entities)]
      <4>1. \A z \in DOMAIN entities \cup {key} :
              With(entities, key, v)[z] \in Seq(Entities)
        BY <1>2, <2>0, <3>4, <3>5 DEF Index
      <4>2. With(entities, key, v) \in
              [DOMAIN With(entities, key, v) -> Seq(Entities)]
        BY ONLY <4>1 DEF With
      <4>3. QED
        BY ONLY <3>4, <4>2
    <3> HIDE DEF t
    <3>7. DOMAIN t \subseteq Keys
      BY <2>0, <3>5 DEF Index, Keys
    <3>8. ASSUME NEW k \in DOMAIN t
          PROVE  /\ t[k] = <<>> => k \in A
                 /\ IsInjective(t[k])
                 /\ \A x \in Entities : Contains(t[k], x) =>
                      x \in DOMAIN classnames /\ classnames[x] = k
      <4>1. CASE k = key
        BY <1>2, <2>2, <3>1, <3>2, <3>3, <3>5, <4>1 DEF AskedFor
      <4>2. CASE k # key
        BY <2>0, <2>2, <3>5, <4>2 DEF Index, AskedFor
      <4>3. QED
        BY <4>1, <4>2
    <3>9. Index(t, classnames, A)
      BY <2>0, <3>6, <3>7, <3>8 DEF Index
    <3>10. ASSUME NEW x \in Valid, x \in DOMAIN classnames
           PROVE  Contains(ListOf(t, classnames[x]), x)
      <4>1. Contains(ListOf(entities, classnames[x]), x) /\ x \in Entities
            /\ is_valid_entity(x)
        BY <2>0, <3>10 DEF Listed, Valid
      <4>2. CASE classnames[x] = key
        BY <1>2, <3>1, <3>5, <3>10, <4>1, <4>2 DEF ListOf
      <4>3. CASE classnames[x] # key
        <5>1. ListOf(t, classnames[x]) = ListOf(entities, classnames[x])
          BY <3>5, <4>3 DEF ListOf
        <5>2. QED
          BY <4>1, <5>1
      <4>4. QED
        BY <4>2, <4>3
    <3>11. QED
      BY <3>9, <3>10 DEF Listed
  <2>3. QED
    BY <2>1, <2>2
<1> HIDE DEF t, A
<1>5. QED
  BY <1>1, <1>2, <1>3, <1>4 DEF CopyOK, v, A

(* A map of lists of entities. *)
Tries == UNION {[D -> Seq(Entities)] : D \in SUBSET Keys}
Names == UNION {[D -> Classes] : D \in SUBSET Entities}

(* The maps of an index are maps. *)
LEMMA IndexTypes ==
  ASSUME NEW t, NEW m, NEW A, Index(t, m, A)
  PROVE  t \in Tries /\ m \in Names
BY DEF Index, Tries, Names

(* The rounds of the loop. *)
LEMMA CopyRounds ==
  ASSUME EInv, NEW p, NEW key \in Classes, NEW size
  PROVE  LET n == Len(Purged(List(p, key))) IN
         \E f : /\ f = Walk(p, key, size)
                /\ copy_entities(p, key, size) = f[n]
                /\ f[0] = CopyStart(p, key)
                /\ \A i \in 1 .. n : f[i] =
                     CopyEntity(f[i - 1], i, key, size, OfClass(p, key))
                /\ \A i \in 0 .. n : CopyOK(f[i], n, AskedFor(p, key))
<1> DEFINE n == Len(Purged(List(p, key)))
           X == {x \in [trie : Tries, names : Names, mem : Seq(Entities),
                       result : Seq(Entities)] :
                   CopyOK(x, n, AskedFor(p, key))}
           start == CopyStart(p, key)
           step(x, i) == CopyEntity(x, i, key, size, OfClass(p, key))
           G == [i \in 1 .. n |-> [x \in X |-> step(x, i)]]
           Made(f) == f = [i \in 0 .. n |-> IF i = 0 THEN start
                                            ELSE step(f[i - 1], i)]
<1>1. n \in Nat
  <2>1. Purged(List(p, key)) \in Seq(Entities)
    BY ListTypes
  <2>2. QED
    BY <2>1
<1>2. start \in X
  <2> HIDE DEF n
  <2>1. CopyOK(start, n, AskedFor(p, key))
    BY CopyStartOK DEF n
  <2>2. start = [trie |-> start.trie, names |-> start.names,
                 mem |-> start.mem, result |-> start.result]
    BY DEF CopyStart
  <2>3. start.trie \in Tries /\ start.names \in Names
        /\ start.mem \in Seq(Entities) /\ start.result \in Seq(Entities)
    BY <2>1, IndexTypes DEF CopyOK
  <2> HIDE DEF start
  <2>4. QED
    BY <2>1, <2>2, <2>3
<1>3. ASSUME NEW x \in X, NEW i \in 1 .. n
      PROVE  step(x, i) \in X
  <2> HIDE DEF n
  <2> DEFINE y == step(x, i)
  <2>1. /\ y = x \/ y = [trie |-> y.trie, names |-> y.names, mem |-> y.mem,
                         result |-> y.result]
        /\ CopyOK(y, n, AskedFor(p, key))
    BY <1>1, CopyRound
  <2>2. y.trie \in Tries /\ y.names \in Names
        /\ y.mem \in Seq(Entities) /\ y.result \in Seq(Entities)
    BY <2>1, IndexTypes DEF CopyOK
  <2> HIDE DEF y
  <2>3. QED
    BY <2>1, <2>2 DEF y
<1>4. /\ Walk(p, key, size) = (CHOOSE f : Made(f))
      /\ copy_entities(p, key, size) = Walk(p, key, size)[n]
  BY DEF copy_entities, Walk, CopyStart
<1> HIDE DEF start, step, X, n
<1>5. PICK f : Run(f, n, start, G)
  <2> HIDE DEF G
  <2>1. QED
    BY <1>1, Rounds
<1>6. \A i \in 0 .. n : f[i] \in X
  <2> DEFINE T == {i \in 0 .. n : f[i] \in X}
  <2>1. 0 \in T
    BY <1>1, <1>2, <1>5 DEF Run
  <2>2. ASSUME NEW i \in 1 .. n, i - 1 \in T PROVE i \in T
    <3>1. f[i] = G[i][f[i - 1]] /\ f[i - 1] \in X
      BY <1>1, <1>5, <2>2 DEF Run
    <3>2. f[i] \in X
      BY <1>3, <3>1
    <3>3. QED
      BY <1>1, <3>2
  <2> HIDE DEF T
  <2>3. \A i \in 0 .. n : i \in T
    BY <1>1, <2>1, <2>2, UpTo
  <2>4. QED
    BY <2>3 DEF T
<1>7. Made(f)
  <2>1. ASSUME NEW i \in 1 .. n PROVE G[i][f[i - 1]] = step(f[i - 1], i)
    BY <1>1, <1>6
  <2> HIDE DEF G
  <2>2. ASSUME NEW i \in 0 .. n
        PROVE  f[i] = IF i = 0 THEN start ELSE step(f[i - 1], i)
    <3>1. f[0] = start /\ \A k \in 1 .. n : f[k] = G[k][f[k - 1]]
      BY <1>5 DEF Run
    <3>2. CASE i = 0
      BY ONLY <3>1, <3>2
    <3>3. CASE i # 0
      <4>1. i \in 1 .. n
        BY <1>1, <3>3
      <4>2. f[i] = step(f[i - 1], i)
        BY ONLY <2>1, <3>1, <4>1
      <4>3. QED
        BY ONLY <3>3, <4>2
    <3>4. QED
      BY ONLY <3>2, <3>3
  <2>3. f = [i \in 0 .. n |-> f[i]]
    BY <1>5 DEF Run
  <2> HIDE DEF step
  <2>4. QED
    BY ONLY <2>2, <2>3
<1> DEFINE F == CHOOSE g : Made(g)
<1>8. Made(F)
  <2> HIDE DEF Made
  <2>1. QED
    BY <1>7
<1> HIDE DEF F
<1>9. F[0] = start /\ \A i \in 1 .. n : F[i] = step(F[i - 1], i)
  BY <1>1, <1>8
<1>10. \A i \in 0 .. n : F[i] \in X
  <2> DEFINE T == {i \in 0 .. n : F[i] \in X}
  <2>1. 0 \in T
    BY <1>1, <1>2, <1>9
  <2>2. ASSUME NEW i \in 1 .. n, i - 1 \in T PROVE i \in T
    BY <1>1, <1>3, <1>9, <2>2
  <2> HIDE DEF T
  <2>3. \A i \in 0 .. n : i \in T
    BY <1>1, <2>1, <2>2, UpTo
  <2>4. QED
    BY <2>3 DEF T
<1>11. \A i \in 0 .. n : CopyOK(F[i], n, AskedFor(p, key))
  BY <1>10 DEF X
<1>12. QED
  BY <1>4, <1>9, <1>11 DEF F, n, start, step

-----------------------------------------------------------------------------
(* The steps. *)

(* The lists of fewer entities. *)
LEMMA FewerListed ==
  ASSUME NEW t, NEW n, NEW V, NEW W, Listed(t, n, V),
         \A e \in W : e \in DOMAIN n => e \in V
  PROVE  Listed(t, n, W)
BY DEF Listed

(* A native or a hook that changes items only. *)
LEMMA ItemStep ==
  ASSUME EInv, NEW s, Items(s, DOMAIN classnames, Valid), Becomes(s),
         UNCHANGED rest, phase = "active"
  PROVE  EInv'
<1>1. /\ entities' = entities /\ wp_entities' = wp_entities
      /\ classnames' = classnames /\ phase' = phase /\ class' = class
      /\ asked' = asked /\ misfiled' = misfiled
  BY DEF rest
<1>2. /\ player_entities' = s.list /\ inventory' = s.inv
      /\ owner' = s.owner /\ state' = s.state
  BY DEF Becomes
<1>3. s \in ItemState
  BY DEF Items
<1>4. \A e \in Entities : e \in Valid' => e \in Valid
  BY <1>2 DEF Items, StateFacts, Valid, is_valid_entity
<1>5. EngineTypes'
  BY <1>1, <1>2, <1>3, StateFields DEF EInv, EngineTypes
<1>6. NameFacts'
  <2>1. DOMAIN classnames \subseteq Entities
    BY DEF EInv, Index
  <2>2. QED
    BY <1>1, <1>2, <2>1 DEF EInv, NameFacts, Items, StateFacts
<1>7. ItemFacts'
  <2>1. Now' = s
    <3>1. s = [list |-> s.list, inv |-> s.inv, owner |-> s.owner,
               state |-> s.state]
      BY <1>3 DEF ItemState
    <3>2. QED
      BY <1>2, <3>1 DEF Now
  <2>2. ASSUME NEW e \in Entities, s.state[e] \in {"live", "leaving"}
        PROVE  e \in Valid'
    BY <1>2, <2>2 DEF Valid, is_valid_entity
  <2>3. StateFacts(s, DOMAIN classnames, Valid')
    BY <2>2 DEF Items, StateFacts
  <2>4. Items(s, DOMAIN classnames, Valid')
    BY <2>3 DEF Items
  <2>5. Items(Now, DOMAIN classnames, Valid)'
    BY <1>1, <2>1, <2>4 DEF Items, StateFacts, ListFacts, InventoryFacts
  <2>6. QED
    BY <1>1, <1>3, <2>1, <2>5 DEF ItemFacts
<1>8. WeaponFacts'
  <2>1. ASSUME NEW e \in DOMAIN classnames, is_valid_entity(e)'
        PROVE  is_valid_entity(e)
    <3>1. e \in Entities
      BY DEF EInv, Index
    <3>2. QED
      BY <1>4, <2>1, <3>1 DEF Valid
  <2>2. QED
    BY <1>1, <2>1 DEF EInv, WeaponFacts
<1>9. Index(entities, classnames, asked)'
  BY <1>1 DEF EInv, Index
<1>10. Listed(entities, classnames, Valid)'
  <2>1. Listed(entities, classnames, Valid')
    BY <1>4, FewerListed DEF EInv, Valid
  <2>2. QED
    BY <1>1, <2>1 DEF Listed, ListOf
<1>11. QED
  BY <1>5, <1>6, <1>7, <1>8, <1>9, <1>10 DEF EInv

(* The items, whoever moves them. *)
LEMMA ItemActions ==
  ASSUME EInv, NEW p \in Players, PlayerNext(p)
  PROVE  EInv'
<1>0. ASSUME phase = "active" PROVE Items(Now, DOMAIN classnames, Valid)
  BY <1>0 DEF EInv, ItemFacts
<1>1. CASE RemoveAllItems(p)
  <2>1. phase = "active" /\ Becomes(AllRemoved(Now, p)) /\ UNCHANGED rest
    BY <1>1 DEF RemoveAllItems
  <2>2. Items(AllRemoved(Now, p), DOMAIN classnames, Valid)
    BY <1>0, <2>1, ItemsAllRemoved
  <2>3. QED
    BY <2>1, <2>2, ItemStep
<1>2. ASSUME NEW e \in Entities, AddPlayerItem(p, e) PROVE EInv'
  <2>1. /\ phase = "active" /\ Becomes(Added(Now, p, e)) /\ UNCHANGED rest
        /\ CanAdd(e)
    BY <1>2 DEF AddPlayerItem
  <2>2. Items(Now, DOMAIN classnames, Valid)
    BY <1>0, <2>1
  <2>3. /\ Now.state = state /\ Now.inv = inventory
        /\ Now.list = player_entities
    BY DEF Now
  <2>4. e \in DOMAIN classnames /\ state[e] = "live"
        /\ \A q \in Players : e \notin inventory[q]
    BY <2>1 DEF CanAdd
  <2>5. \A q \in Players : ~Contains(player_entities[q], e)
    BY <2>2, <2>3, <2>4 DEF Items, ListFacts
  <2> HIDE DEF Now
  <2>6. Items(Added(Now, p, e), DOMAIN classnames, Valid)
    BY <2>2, <2>3, <2>4, <2>5, ItemsAdded
  <2>7. QED
    BY <2>1, <2>6, ItemStep
<1>3. ASSUME NEW e \in Entities, RemovePlayerItem(p, e) PROVE EInv'
  <2>1. /\ phase = "active" /\ Becomes(Removed(Now, p, e)) /\ UNCHANGED rest
        /\ e \in Now.inv[p]
    BY <1>3 DEF RemovePlayerItem, Now
  <2>2. Items(Now, DOMAIN classnames, Valid)
    BY <1>0, <2>1
  <2>3. Items(Removed(Now, p, e), DOMAIN classnames, Valid)
    BY <2>1, <2>2, ItemsRemoved
  <2>4. QED
    BY <2>1, <2>3, ItemStep
<1>4. ASSUME NEW to \in Players, NEW skip, NEW replace, NEW kill, NEW refuse,
             rf_transfer_items(p, to, skip, replace, kill, refuse)
      PROVE  EInv'
  <2> DEFINE start == IF ~replace THEN Now
                      ELSE IF skip # {} THEN ReplaceItems(to, skip)
                      ELSE AllRemoved(Now, to)
             s == TransferItems(start, p, to, skip, kill, refuse)
  <2>1. phase = "active" /\ Becomes(s) /\ UNCHANGED rest
    BY <1>4 DEF rf_transfer_items
  <2>2. Items(Now, DOMAIN classnames, Valid)
    BY <1>0, <2>1
  <2>3. /\ Items(ReplaceItems(to, skip), DOMAIN classnames, Valid)
        /\ Items(AllRemoved(Now, to), DOMAIN classnames, Valid)
    BY <2>2, ReplaceLoop, ItemsAllRemoved
  <2>4. Items(start, DOMAIN classnames, Valid)
    BY <2>2, <2>3
  <2> HIDE DEF start
  <2>5. Items(s, DOMAIN classnames, Valid)
    BY <2>4, TransferLoop
  <2> HIDE DEF s
  <2>6. QED
    BY <2>1, <2>5, ItemStep
<1>5. QED
  BY <1>1, <1>2, <1>3, <1>4 DEF PlayerNext

(* The engine allocates an entity. *)
LEMMA AllocStep ==
  ASSUME EInv, NEW e \in Entities, NEW key \in Classes \cup {NoClass},
         Alloc_EntPrivateData(e, key)
  PROVE  EInv'
<1> USE DEF Alloc_EntPrivateData
<1>1. /\ state \in [Entities -> {"free", "live", "leaving", "killme"}]
      /\ class \in [Entities -> Classes \cup {NoClass}]
      /\ DOMAIN classnames \subseteq Entities /\ e \notin DOMAIN classnames
      /\ state[e] = "free"
  BY DEF EInv, EngineTypes, NameFacts, Index
<1>2. /\ state'[e] = "live" /\ class'[e] = key
      /\ \A x \in Entities \ {e} : state'[x] = state[x] /\ class'[x] = class[x]
  BY <1>1
<1>3. /\ key # NoClass => /\ key \in Classes
                          /\ classnames' = With(classnames, e, key)
                          /\ entities' = trie_add(entities, key, e)
      /\ key = NoClass => classnames' = classnames /\ entities' = entities
  OBVIOUS
<1>4. /\ DOMAIN classnames' =
           IF key = NoClass THEN DOMAIN classnames ELSE DOMAIN classnames \cup {e}
  BY <1>3 DEF With
<1>5. EngineTypes'
  BY DEF EInv, EngineTypes
<1>6. NameFacts'
  BY <1>1, <1>2, <1>4 DEF EInv, NameFacts
<1>7. /\ Index(entities', classnames', asked)
      /\ Listed(entities', classnames', Valid')
  <2>1. Valid' \in SUBSET Entities
    BY DEF Valid
  <2>2. \A x \in Valid' : x \in DOMAIN classnames => x \in Valid
    BY <1>1, <1>2 DEF Valid, is_valid_entity
  <2>3. Listed(entities, classnames, Valid')
    BY <2>2, FewerListed DEF EInv
  <2>4. Index(entities, classnames, asked)
    BY DEF EInv
  <2>5. CASE key = NoClass
    BY <1>3, <2>3, <2>4, <2>5
  <2>6. CASE key # NoClass
    <3>1. /\ Index(trie_add(entities, key, e), With(classnames, e, key), asked)
          /\ Listed(trie_add(entities, key, e), With(classnames, e, key), Valid')
      BY <1>1, <1>3, <2>1, <2>3, <2>4, <2>6, AddIndex
    <3>2. QED
      BY <1>3, <2>6, <3>1
  <2>7. QED
    BY <2>5, <2>6
<1>8. Index(entities, classnames, asked)' /\ Listed(entities, classnames, Valid)'
  BY <1>7 DEF Index, Listed, ListOf
<1>9. ItemFacts'
  <2>1. /\ Now \in ItemState /\ Now.list = player_entities /\ Now.inv = inventory
        /\ Now.owner = owner /\ Now.state = state
    BY DEF EInv, ItemFacts, Now
  <2>2. /\ Now'.list = player_entities /\ Now'.inv = inventory
        /\ Now'.owner = [owner EXCEPT ![e] = NoOwner] /\ Now'.state = state'
    BY DEF Now
  <2>3. (Now \in ItemState)'
    <3>1. /\ player_entities \in [Players -> Seq(Entities)]
          /\ inventory \in [Players -> SUBSET Entities]
          /\ owner \in [Entities -> Players \cup {NoOwner}]
      BY <2>1, StateFields
    <3>2. [owner EXCEPT ![e] = NoOwner] \in [Entities -> Players \cup {NoOwner}]
      BY <3>1
    <3>3. state' \in [Entities -> {"free", "live", "leaving", "killme"}]
      BY <1>5 DEF EngineTypes
    <3>4. Now' = [list |-> player_entities, inv |-> inventory,
                  owner |-> [owner EXCEPT ![e] = NoOwner], state |-> state']
      BY DEF Now
    <3>5. Now' \in ItemState
      BY ONLY <3>1, <3>2, <3>3, <3>4 DEF ItemState
    <3>6. QED
      BY <3>5 DEF ItemState
  <2>4. CASE phase = "active"
    <3>1. Items(Now, DOMAIN classnames, Valid)
      BY <2>4 DEF EInv, ItemFacts
    <3>2. \A q \in Players : e \notin inventory[q] /\ ~Contains(player_entities[q], e)
      BY <1>1, <2>1, <3>1 DEF Items, ListFacts, InventoryFacts
    <3>3. \A x \in Entities \ {e} : Now'.owner[x] = owner[x]
      BY <2>1, <2>2, StateFields
    <3>4. \A q \in Players : inventory[q] \subseteq Entities
      BY <2>1, StateFields
    <3>5. ASSUME NEW q \in Players PROVE ListFacts(Now', q)
      <4>1. ListFacts(Now, q)
        BY <3>1 DEF Items
      <4>2. IsInjective(Now'.list[q])
        BY <2>1, <2>2, <4>1 DEF ListFacts
      <4>3. ASSUME NEW x \in Entities, Contains(Now'.list[q], x)
            PROVE  /\ Now'.state[x] # "free" /\ Now'.owner[x] = q
                   /\ Now'.state[x] = "live" => x \in Now'.inv[q]
        <5>1. x # e /\ Contains(Now.list[q], x)
          BY <2>1, <2>2, <3>2, <4>3
        <5>2. QED
          BY <1>2, <2>1, <2>2, <3>3, <4>1, <5>1 DEF ListFacts
      <4>4. QED
        BY <4>2, <4>3 DEF ListFacts
    <3>6. ASSUME NEW q \in Players
          PROVE  InventoryFacts(Now', q, DOMAIN classnames')
      <4>1. InventoryFacts(Now, q, DOMAIN classnames)
        BY <3>1 DEF Items
      <4>2. ASSUME NEW x \in inventory[q]
            PROVE  x # e /\ x \in DOMAIN classnames' /\ state'[x] = state[x]
        BY <1>2, <1>4, <2>1, <3>2, <3>4, <4>1 DEF InventoryFacts
      <4>3. QED
        BY <2>1, <2>2, <4>1, <4>2 DEF InventoryFacts
    <3>7. StateFacts(Now', DOMAIN classnames', Valid')
      <4>1. \A x \in Entities : state'[x] \in {"live", "leaving"} => x \in Valid'
        BY DEF Valid, is_valid_entity
      <4>2. QED
        BY <1>2, <1>4, <1>6, <2>2, <4>1 DEF StateFacts, NameFacts
    <3>8. Items(Now', DOMAIN classnames', Valid')
      BY <2>3, <3>5, <3>6, <3>7 DEF Items, ItemState
    <3>9. QED
      BY <2>3, <2>4, <3>8
         DEF ItemFacts, Items, StateFacts, ListFacts, InventoryFacts
  <2>5. CASE phase # "active"
    <3>1. phase = "loading" /\ phase' = "loading"
      BY <2>5
    <3>2. \A q \in Players : player_entities[q] = <<>> /\ inventory[q] = {}
      BY <2>5, <3>1 DEF EInv, ItemFacts
    <3>3. QED
      BY <2>3, <3>1, <3>2 DEF ItemFacts
  <2>6. QED
    BY <2>4, <2>5
<1>10. WeaponFacts'
  <2>1. /\ wp_entities \in Seq(Entities)
        /\ \A x \in Entities \ misfiled : Contains(wp_entities, x) =>
             /\ x \in DOMAIN classnames /\ class[x] \in Weapons
             /\ Once(wp_entities, x)
        /\ \A x \in DOMAIN classnames \ misfiled :
             is_valid_entity(x) /\ class[x] \in Weapons => Contains(wp_entities, x)
    BY DEF EInv, WeaponFacts, Once
  <2>2. key \in Weapons => key # NoClass
    BY EntitiesAssumption
  <2> DEFINE w == wp_entities'
  <2>3. w = IF key \in Weapons THEN Append(wp_entities, e) ELSE wp_entities
    OBVIOUS
  <2>4. /\ w \in Seq(Entities)
        /\ \A x \in Entities : Contains(w, x) <=>
             Contains(wp_entities, x) \/ (x = e /\ key \in Weapons)
        /\ \A x \in Entities :
             Once(wp_entities, x) /\ ~(x = e /\ Contains(wp_entities, e)) =>
               Once(w, x)
    <3>1. CASE key \in Weapons
      <4>1. w = Append(wp_entities, e)
        BY <2>3, <3>1
      <4> HIDE DEF w
      <4>2. /\ Append(wp_entities, e) \in Seq(Entities)
            /\ \A x \in Entities : Contains(Append(wp_entities, e), x) <=>
                 Contains(wp_entities, x) \/ x = e
            /\ \A x \in Entities :
                 Once(wp_entities, x) /\ (x = e => ~Contains(wp_entities, e)) =>
                   Once(Append(wp_entities, e), x)
        BY <2>1, AppendElements
      <4>3. QED
        BY <3>1, <4>1, <4>2
    <3>2. CASE key \notin Weapons
      BY <2>1, <2>3, <3>2
    <3>3. QED
      BY <3>1, <3>2
  <2> HIDE DEF w
  <2>5. misfiled' = misfiled
    OBVIOUS
  <2>6. ASSUME NEW x \in Entities \ misfiled, Contains(w, x)
        PROVE  /\ x \in DOMAIN classnames' /\ class'[x] \in Weapons
               /\ Once(w, x)
    <3>1. CASE x = e
      <4>1. ~Contains(wp_entities, e)
        BY <1>1, <2>1, <2>6, <3>1
      <4>2. key \in Weapons
        BY <2>4, <2>6, <3>1, <4>1
      <4>3. Once(wp_entities, e)
        <5>1. DOMAIN wp_entities = 1 .. Len(wp_entities)
          BY <2>1
        <5>2. QED
          BY <4>1, <5>1 DEF Once, Contains
      <4>4. QED
        BY <1>2, <1>4, <2>2, <2>4, <3>1, <4>1, <4>2, <4>3
    <3>2. CASE x # e
      <4>1. Contains(wp_entities, x)
        BY <2>4, <2>6, <3>2
      <4>2. x \in DOMAIN classnames /\ class[x] \in Weapons /\ Once(wp_entities, x)
        BY <2>1, <4>1
      <4>3. QED
        BY <1>2, <1>4, <2>4, <3>2, <4>2
    <3>3. QED
      BY <3>1, <3>2
  <2>7. ASSUME NEW x \in DOMAIN classnames' \ misfiled, is_valid_entity(x)',
               class'[x] \in Weapons
        PROVE  Contains(w, x)
    <3>1. x \in Entities
      BY <1>1, <1>4
    <3>2. CASE x = e
      BY <1>2, <2>4, <2>7, <3>2
    <3>3. CASE x # e
      <4>1. x \in DOMAIN classnames /\ is_valid_entity(x) /\ class[x] \in Weapons
        BY <1>2, <1>4, <2>7, <3>1, <3>3 DEF is_valid_entity
      <4>2. QED
        BY <2>1, <2>4, <2>7, <3>1, <4>1
    <3>4. QED
      BY <3>2, <3>3
  <2>8. QED
    BY <2>4, <2>5, <2>6, <2>7 DEF WeaponFacts, Once, w
<1>11. QED
  BY <1>5, <1>6, <1>8, <1>9, <1>10 DEF EInv

(* A key that has no list need not be asked for. *)
LEMMA AskedIndex ==
  ASSUME NEW t, NEW n, NEW A, Index(t, n, A)
  PROVE  Index(t, n, A \cap DOMAIN t)
BY DEF Index

(* Whatever its name was and is, an entity leaves the map of the classes. *)
LEMMA FreeIndex ==
  ASSUME EInv, NEW e \in Entities, Free_EntPrivateData(e)
  PROVE  /\ classnames' = Without(classnames, e)
         /\ Index(entities', Without(classnames, e), asked)
         /\ Listed(entities', Without(classnames, e), Valid)
<1> DEFINE old  == IF e \in DOMAIN classnames THEN classnames[e] ELSE NoClass
           key  == IF class[e] = NoClass THEN old ELSE class[e]
           trie == IF old # key
                   THEN trie_transfer(entities, old, key, e) ELSE entities
<1>1. /\ entities' = trie_remove(trie, key, e)
      /\ classnames' = Without(classnames, e)
  BY DEF Free_EntPrivateData
<1>2. /\ Index(entities, classnames, asked)
      /\ Listed(entities, classnames, Valid)
      /\ Valid \in SUBSET Entities
      /\ class[e] \in Classes \cup {NoClass}
  BY DEF EInv, EngineTypes, Valid
<1>3. e \in DOMAIN classnames => classnames[e] = old
  OBVIOUS
<1>4. CASE old = key
  <2>1. trie = entities
    BY <1>4
  <2>2. e \in DOMAIN classnames => classnames[e] = key
    BY <1>3, <1>4
  <2> HIDE DEF trie, key, old
  <2>3. /\ Index(trie_remove(entities, key, e), Without(classnames, e), asked)
        /\ Listed(trie_remove(entities, key, e), Without(classnames, e), Valid)
    BY <1>2, <2>2, RemoveIndex
  <2>4. QED
    BY <1>1, <2>1, <2>3
<1>5. CASE old # key
  <2>1. key \in Classes /\ trie = trie_transfer(entities, old, key, e)
    BY <1>2, <1>5
  <2> DEFINE n == With(classnames, e, key)
  <2> HIDE DEF trie, key, old
  <2>2. Index(trie, n, asked) /\ Listed(trie, n, Valid)
    BY <1>2, <1>3, <2>1, TransferIndex
  <2>3. e \in DOMAIN n => n[e] = key
    BY DEF With
  <2>4. Without(n, e) = Without(classnames, e)
    BY DEF With, Without, Restrict
  <2> HIDE DEF n
  <2>5. /\ Index(trie_remove(trie, key, e), Without(n, e), asked)
        /\ Listed(trie_remove(trie, key, e), Without(n, e), Valid)
    BY <1>2, <2>2, <2>3, RemoveIndex
  <2>6. QED
    BY <1>1, <2>4, <2>5
<1>6. QED
  BY <1>4, <1>5

(* A list that loses an entity keeps the others. *)
LEMMA FreeWeapons ==
  ASSUME EInv, NEW e \in Entities, OnFreeEntPrivateData(e)
  PROVE  WeaponFacts'
<1> DEFINE old == IF e \in DOMAIN classnames THEN classnames[e] ELSE NoClass
           key == IF class[e] = NoClass THEN old ELSE class[e]
           w   == wp_entities'
<1>1. /\ w = IF key \in Weapons THEN vector_remove(wp_entities, e)
             ELSE wp_entities
      /\ classnames' = Without(classnames, e)
      /\ state' = [state EXCEPT ![e] = "free"]
      /\ class' = [class EXCEPT ![e] = NoClass]
      /\ misfiled' = misfiled
  BY DEF OnFreeEntPrivateData, Free_EntPrivateData
<1>2. /\ wp_entities \in Seq(Entities)
      /\ \A x \in Entities \ misfiled : Contains(wp_entities, x) =>
           /\ x \in DOMAIN classnames /\ class[x] \in Weapons
           /\ Once(wp_entities, x)
      /\ \A x \in DOMAIN classnames \ misfiled :
           is_valid_entity(x) /\ class[x] \in Weapons => Contains(wp_entities, x)
  BY DEF EInv, WeaponFacts, Once
<1>3. /\ state \in [Entities -> {"free", "live", "leaving", "killme"}]
      /\ class \in [Entities -> Classes \cup {NoClass}]
      /\ DOMAIN classnames \subseteq Entities
  BY DEF EInv, EngineTypes, Index
<1>4. DOMAIN classnames' = DOMAIN classnames \ {e}
  BY <1>1, WithoutValues
<1>5. /\ state'[e] = "free"
      /\ \A x \in Entities \ {e} : state'[x] = state[x] /\ class'[x] = class[x]
  BY <1>1, <1>3
<1>6. class[e] \in Weapons => key \in Weapons
  BY EntitiesAssumption
<1> HIDE DEF key, old
<1>7. /\ w \in Seq(Entities)
      /\ \A x \in Entities : Contains(w, x) => Contains(wp_entities, x)
      /\ \A x \in Entities \ {e} : Contains(wp_entities, x) => Contains(w, x)
      /\ \A x \in Entities : Once(wp_entities, x) => Once(w, x)
      /\ key \in Weapons /\ Once(wp_entities, e) => ~Contains(w, e)
  <2>1. CASE key \in Weapons
    <3>1. w = vector_remove(wp_entities, e)
      BY <1>1, <2>1
    <3> HIDE DEF w
    <3>2. QED
      BY <1>2, <3>1, RemoveElements
  <2>2. CASE key \notin Weapons
    BY <1>1, <1>2, <2>2
  <2>3. QED
    BY <2>1, <2>2
<1> HIDE DEF w
<1>8. ASSUME NEW x \in Entities \ misfiled, Contains(w, x)
      PROVE  x \in DOMAIN classnames' /\ class'[x] \in Weapons /\ Once(w, x)
  <2>1. x \in DOMAIN classnames /\ class[x] \in Weapons /\ Once(wp_entities, x)
    BY <1>2, <1>7, <1>8
  <2>2. x # e
    BY <1>6, <1>7, <1>8, <2>1
  <2>3. QED
    BY <1>4, <1>5, <1>7, <2>1, <2>2
<1>9. ASSUME NEW x \in DOMAIN classnames' \ misfiled, is_valid_entity(x)',
             class'[x] \in Weapons
      PROVE  Contains(w, x)
  <2>1. x \in Entities \ {e} /\ x \in DOMAIN classnames
    BY <1>3, <1>4
  <2>2. is_valid_entity(x) /\ class[x] \in Weapons
    BY <1>5, <1>9, <2>1 DEF is_valid_entity
  <2>3. QED
    BY <1>2, <1>7, <2>1, <2>2
<1>10. QED
  BY <1>1, <1>7, <1>8, <1>9 DEF WeaponFacts, Once, w

(* An entity that is freed leaves the list and the inventory. *)
LEMMA FreeItems ==
  ASSUME EInv, NEW e \in Entities, OnFreeEntPrivateData(e)
  PROVE  ItemFacts'
<1>1. /\ player_entities' = IF owner[e] \in Players
           THEN [player_entities EXCEPT ![owner[e]] =
                   vector_remove(player_entities[owner[e]], e)]
           ELSE player_entities
      /\ classnames' = Without(classnames, e)
      /\ state' = [state EXCEPT ![e] = "free"]
      /\ owner' = [owner EXCEPT ![e] = NoOwner]
      /\ inventory' = [p \in Players |-> inventory[p] \ {e}]
      /\ phase' = phase
  BY DEF OnFreeEntPrivateData, Free_EntPrivateData
<1>2. /\ Now \in ItemState /\ Now.list = player_entities /\ Now.inv = inventory
      /\ Now.owner = owner /\ Now.state = state
  BY DEF EInv, ItemFacts, Now
<1>3. /\ player_entities \in [Players -> Seq(Entities)]
      /\ inventory \in [Players -> SUBSET Entities]
      /\ owner \in [Entities -> Players \cup {NoOwner}]
      /\ state \in [Entities -> {"free", "live", "leaving", "killme"}]
  BY <1>2, StateFields
<1>4. /\ state'[e] = "free" /\ owner'[e] = NoOwner
      /\ \A x \in Entities \ {e} : state'[x] = state[x] /\ owner'[x] = owner[x]
      /\ \A p \in Players : inventory'[p] = inventory[p] \ {e}
  BY <1>1, <1>3
<1>5. /\ Now'.list = player_entities' /\ Now'.inv = inventory'
      /\ Now'.owner = owner' /\ Now'.state = state'
      /\ Now' = [list |-> player_entities', inv |-> inventory',
                 owner |-> owner', state |-> state']
  BY DEF Now
<1>6. \A q \in Players : /\ IsInjective(player_entities[q])
                         /\ Contains(player_entities[q], e) => owner[e] = q
  <2>1. CASE phase = "active"
    BY <1>2, <2>1 DEF EInv, ItemFacts, Items, ListFacts
  <2>2. CASE phase # "active"
    <3>1. \A q \in Players : player_entities[q] = <<>>
      BY <2>2 DEF EInv, ItemFacts
    <3>2. QED
      BY <3>1 DEF IsInjective, Contains
  <2>3. QED
    BY <2>1, <2>2
<1>7. \A q \in Players :
        /\ player_entities'[q] \in Seq(Entities)
        /\ IsInjective(player_entities'[q])
        /\ \A x \in Entities : Contains(player_entities'[q], x) <=>
             Contains(player_entities[q], x) /\ x # e
  <2>1. PICK l : l = player_entities'
    OBVIOUS
  <2>2. PICK s : s = Now
    OBVIOUS
  <2>3. /\ s \in ItemState /\ s.list = player_entities /\ s.owner = owner
        /\ e \in Entities
    BY <1>2, <2>2
  <2>4. \A q \in Players : /\ IsInjective(s.list[q])
                           /\ Contains(s.list[q], e) => s.owner[e] = q
    BY <1>6, <2>3
  <2>5. /\ s.owner[e] \in Players =>
             l = [s.list EXCEPT ![s.owner[e]] =
                    vector_remove(s.list[s.owner[e]], e)]
        /\ s.owner[e] \notin Players => l = s.list
    BY <1>1, <2>1, <2>3
  <2>6. \A q \in Players :
          /\ l[q] \in Seq(Entities) /\ IsInjective(l[q])
          /\ \A x \in Entities :
               Contains(l[q], x) <=> Contains(s.list[q], x) /\ x # e
    BY ONLY <2>3, <2>4, <2>5, TakenOut
  <2>7. QED
    BY <2>1, <2>3, <2>6
<1>8. Now' \in ItemState
  <2>1. player_entities' = [p \in Players |-> player_entities'[p]]
    BY <1>1, <1>3
  <2>2. player_entities' \in [Players -> Seq(Entities)]
    BY <1>7, <2>1
  <2>3. /\ owner' \in [Entities -> Players \cup {NoOwner}]
        /\ state' \in [Entities -> {"free", "live", "leaving", "killme"}]
        /\ inventory' \in [Players -> SUBSET Entities]
    BY <1>1, <1>3
  <2>4. QED
    BY ONLY <1>5, <2>2, <2>3 DEF ItemState
<1>9. CASE phase = "active"
  <2>1. Items(Now, DOMAIN classnames, Valid)
    BY <1>9 DEF EInv, ItemFacts
  <2>2. DOMAIN classnames' = DOMAIN classnames \ {e}
    BY <1>1, WithoutValues
  <2>3. ASSUME NEW q \in Players PROVE ListFacts(Now', q)
    <3>1. ListFacts(Now, q)
      BY <2>1 DEF Items
    <3>2. QED
      BY <1>2, <1>4, <1>5, <1>7, <3>1 DEF ListFacts
  <2>4. ASSUME NEW q \in Players
        PROVE  InventoryFacts(Now', q, DOMAIN classnames')
    <3>1. InventoryFacts(Now, q, DOMAIN classnames)
      BY <2>1 DEF Items
    <3>2. QED
      BY <1>2, <1>3, <1>4, <1>5, <1>7, <2>2, <3>1 DEF InventoryFacts
  <2>5. StateFacts(Now', DOMAIN classnames', Valid')
    <3>1. \A x \in Entities : state'[x] \in {"live", "leaving"} => x \in Valid'
      BY DEF Valid, is_valid_entity
    <3>2. QED
      BY <1>2, <1>4, <1>5, <2>1, <2>2, <3>1 DEF StateFacts, Items
  <2>6. Items(Now', DOMAIN classnames', Valid')
    BY <1>8, <2>3, <2>4, <2>5 DEF Items, ItemState
  <2>7. QED
    BY <1>1, <1>8, <1>9, <2>6
       DEF ItemFacts, ItemState, Items, StateFacts, ListFacts, InventoryFacts
<1>10. CASE phase # "active"
  <2>1. \A p \in Players :
          /\ player_entities[p] = <<>>
          /\ \A x \in inventory[p] : phase = "ended" /\ state[x] # "free"
    BY <1>10 DEF EInv, ItemFacts
  <2>2. ASSUME NEW p \in Players PROVE player_entities'[p] = <<>>
    <3>1. player_entities'[p] = player_entities[p]
          \/ player_entities'[p] = vector_remove(<<>>, e)
      BY <1>1, <1>3, <2>1
    <3>2. <<>> \in Seq(Entities) /\ Len(<<>>) = 0
      OBVIOUS
    <3>3. vector_remove(<<>>, e) \in Seq(Entities)
          /\ Len(vector_remove(<<>>, e)) <= 0
      BY <3>2, RemoveElements
    <3>4. vector_remove(<<>>, e) = <<>>
      BY <3>3, EmptySeq, LenProperties
    <3>5. QED
      BY <2>1, <3>1, <3>4
  <2>3. \A p \in Players : \A x \in inventory'[p] :
          phase' = "ended" /\ state'[x] # "free"
    BY <1>1, <1>3, <1>4, <2>1
  <2>4. QED
    BY <1>1, <1>8, <1>10, <2>2, <2>3 DEF ItemFacts, ItemState
<1>11. QED
  BY <1>9, <1>10

(* The engine frees an entity. *)
LEMMA FreeStep ==
  ASSUME EInv, NEW e \in Entities, OnFreeEntPrivateData(e)
  PROVE  EInv'
<1>1. /\ Free_EntPrivateData(e)
      /\ state' = [state EXCEPT ![e] = "free"]
      /\ class' = [class EXCEPT ![e] = NoClass]
      /\ asked' = asked \cap DOMAIN entities' /\ phase' = phase
  BY DEF OnFreeEntPrivateData
<1>2. /\ state \in [Entities -> {"free", "live", "leaving", "killme"}]
      /\ class \in [Entities -> Classes \cup {NoClass}]
      /\ DOMAIN classnames \subseteq Entities
  BY DEF EInv, EngineTypes, Index
<1>3. /\ classnames' = Without(classnames, e)
      /\ Index(entities', classnames', asked)
      /\ Listed(entities', classnames', Valid)
  BY <1>1, FreeIndex
<1>4. EngineTypes'
  BY <1>1, <1>2 DEF EInv, EngineTypes
<1>5. NameFacts'
  <2>1. DOMAIN classnames' = DOMAIN classnames \ {e}
    BY <1>3, WithoutValues
  <2>2. QED
    BY <1>1, <1>2, <2>1 DEF EInv, NameFacts
<1>6. Index(entities', classnames', asked')
  BY <1>1, <1>3, AskedIndex
<1>7. Listed(entities', classnames', Valid')
  <2>1. Valid' \subseteq Valid
    BY <1>1, <1>2 DEF Valid, is_valid_entity
  <2>2. QED
    BY <1>3, <2>1, FewerListed
<1>8. Index(entities, classnames, asked)' /\ Listed(entities, classnames, Valid)'
  BY <1>6, <1>7 DEF Index, Listed, ListOf
<1>9. QED
  BY <1>4, <1>5, <1>8, FreeItems, FreeWeapons DEF EInv

(* A step that leaves the items alone. *)
LEMMA SameItems ==
  ASSUME EInv, phase' = phase, DOMAIN classnames' = DOMAIN classnames,
         UNCHANGED <<player_entities, inventory, owner, state>>
  PROVE  ItemFacts'
<1>1. Now' = Now
  BY DEF Now
<1>2. Valid' = Valid
  BY DEF Valid, is_valid_entity
<1>3. ItemFacts
  BY DEF EInv
<1> HIDE DEF Now, Valid
<1>4. Items(Now, DOMAIN classnames, Valid) =>
        Items(Now, DOMAIN classnames, Valid)'
  BY <1>1, <1>2 DEF Items, StateFacts, ListFacts, InventoryFacts, ItemState
<1>5. (Now \in ItemState)'
  BY <1>1, <1>3 DEF ItemFacts, ItemState
<1>6. QED
  BY <1>3, <1>4, <1>5 DEF ItemFacts

(* A step that leaves the list of weapons alone. *)
LEMMA SameWeapons ==
  ASSUME EInv, DOMAIN classnames' = DOMAIN classnames,
         UNCHANGED <<wp_entities, class, state, misfiled>>
  PROVE  WeaponFacts'
BY DEF EInv, WeaponFacts, is_valid_entity

(* A class name is written. *)
LEMMA RenameStep ==
  ASSUME EInv, NEW e \in Entities, NEW key \in Classes, Rename(e, key)
  PROVE  EInv'
<1>1. /\ class' = [class EXCEPT ![e] = key]
      /\ misfiled' = IF (key \in Weapons) # (class[e] \in Weapons)
                     THEN misfiled \cup {e} ELSE misfiled
      /\ UNCHANGED <<entities, wp_entities, classnames, player_entities, phase,
                     state, owner, inventory, asked>>
  BY DEF Rename, tries
<1>2. /\ class \in [Entities -> Classes \cup {NoClass}]
      /\ DOMAIN classnames \subseteq Entities
  BY DEF EInv, EngineTypes, Index
<1>3. /\ class'[e] = key
      /\ \A x \in Entities \ {e} : class'[x] = class[x]
  BY <1>1, <1>2
<1>4. EngineTypes'
  BY <1>1, <1>2 DEF EInv, EngineTypes
<1>5. NameFacts'
  BY <1>1, <1>2, <1>3, EntitiesAssumption DEF EInv, NameFacts
<1>6. ItemFacts'
  BY <1>1, SameItems
<1>7. WeaponFacts'
  <2>1. ASSUME NEW x \in Entities \ misfiled'
        PROVE  x \notin misfiled /\ (class'[x] \in Weapons <=> class[x] \in Weapons)
    <3>1. CASE x = e
      <4>1. (key \in Weapons) <=> (class[e] \in Weapons)
        BY <1>1, <2>1, <3>1
      <4>2. QED
        BY <1>1, <1>3, <2>1, <3>1, <4>1
    <3>2. CASE x # e
      BY <1>1, <1>3, <2>1, <3>2
    <3>3. QED
      BY <3>1, <3>2
  <2>2. QED
    BY <1>1, <1>2, <2>1 DEF EInv, WeaponFacts, is_valid_entity
<1>8. Index(entities, classnames, asked)' /\ Listed(entities, classnames, Valid)'
  BY <1>1 DEF EInv, Index, Listed, ListOf, Valid, is_valid_entity
<1>9. QED
  BY <1>4, <1>5, <1>6, <1>7, <1>8 DEF EInv

(* An entity is to be freed after the frame. *)
LEMMA RemoveStep ==
  ASSUME EInv, NEW e \in Entities, UTIL_Remove(e)
  PROVE  EInv'
<1>1. /\ state[e] \in {"live", "leaving"}
      /\ state' = [state EXCEPT ![e] = "killme"]
      /\ UNCHANGED <<entities, wp_entities, classnames, player_entities, phase,
                     class, owner, inventory, asked, misfiled>>
  BY DEF UTIL_Remove, tries
<1>2. /\ state \in [Entities -> {"free", "live", "leaving", "killme"}]
      /\ DOMAIN classnames \subseteq Entities
      /\ Index(entities, classnames, asked) /\ Listed(entities, classnames, Valid)
  BY DEF EInv, EngineTypes, Index
<1>3. /\ state'[e] = "killme"
      /\ \A x \in Entities \ {e} : state'[x] = state[x]
  BY <1>1, <1>2
<1>4. EngineTypes'
  BY <1>1, <1>2 DEF EInv, EngineTypes
<1>5. NameFacts'
  BY <1>1, <1>2, <1>3 DEF EInv, NameFacts
<1>6. ItemFacts'
  <2>1. /\ Now \in ItemState /\ Now.list = player_entities
        /\ Now.inv = inventory /\ Now.owner = owner /\ Now.state = state
    BY DEF EInv, ItemFacts, Now
  <2>2. /\ Now'.list = player_entities /\ Now'.inv = inventory
        /\ Now'.owner = owner /\ Now'.state = state'
        /\ Now' = [list |-> player_entities, inv |-> inventory, owner |-> owner,
                   state |-> state']
    BY <1>1 DEF Now
  <2>3. Now' \in ItemState
    <3>1. /\ player_entities \in [Players -> Seq(Entities)]
          /\ inventory \in [Players -> SUBSET Entities]
          /\ owner \in [Entities -> Players \cup {NoOwner}]
      BY <2>1, StateFields
    <3>2. state' \in [Entities -> {"free", "live", "leaving", "killme"}]
      BY <1>4 DEF EngineTypes
    <3>3. QED
      BY ONLY <2>2, <3>1, <3>2 DEF ItemState
  <2>4. \A q \in Players : inventory[q] \subseteq Entities
    BY <2>1, StateFields
  <2>5. CASE phase = "active"
    <3>1. Items(Now, DOMAIN classnames, Valid)
      BY <2>5 DEF EInv, ItemFacts
    <3>2. ASSUME NEW q \in Players PROVE ListFacts(Now', q)
      <4>1. ListFacts(Now, q)
        BY <3>1 DEF Items
      <4>2. QED
        BY <1>1, <1>3, <2>1, <2>2, <4>1 DEF ListFacts
    <3>3. ASSUME NEW q \in Players
          PROVE  InventoryFacts(Now', q, DOMAIN classnames)
      <4>1. InventoryFacts(Now, q, DOMAIN classnames)
        BY <3>1 DEF Items
      <4>2. QED
        BY <1>1, <1>3, <2>1, <2>2, <2>4, <4>1 DEF InventoryFacts
    <3>4. StateFacts(Now', DOMAIN classnames, Valid')
      <4>1. \A x \in Entities : state'[x] \in {"live", "leaving"} => x \in Valid'
        BY DEF Valid, is_valid_entity
      <4>2. QED
        BY <1>1, <1>3, <2>1, <2>2, <3>1, <4>1 DEF StateFacts, Items
    <3>5. Items(Now', DOMAIN classnames, Valid')
      BY <2>3, <3>2, <3>3, <3>4 DEF Items, ItemState
    <3>6. QED
      BY <1>1, <2>3, <2>5, <3>5
         DEF ItemFacts, ItemState, Items, StateFacts, ListFacts, InventoryFacts
  <2>6. CASE phase # "active"
    <3>1. \A p \in Players :
            /\ player_entities[p] = <<>>
            /\ \A x \in inventory[p] : phase = "ended" /\ state[x] # "free"
      BY <2>6 DEF EInv, ItemFacts
    <3>2. QED
      BY <1>1, <1>3, <2>3, <2>4, <2>6, <3>1 DEF ItemFacts, ItemState
  <2>7. QED
    BY <2>5, <2>6
<1>7. Valid' \subseteq Valid
  BY <1>1, <1>3 DEF Valid, is_valid_entity
<1>8. WeaponFacts'
  <2>1. ASSUME NEW x \in DOMAIN classnames, is_valid_entity(x)'
        PROVE  is_valid_entity(x)
    BY <1>2, <1>7, <2>1 DEF Valid
  <2>2. QED
    BY <1>1, <2>1 DEF EInv, WeaponFacts
<1>9. Index(entities, classnames, asked)'
  BY <1>1, <1>2 DEF Index
<1>10. Listed(entities, classnames, Valid)'
  <2>1. Listed(entities, classnames, Valid')
    BY <1>2, <1>7, FewerListed
  <2>2. QED
    BY <1>1, <2>1 DEF Listed, ListOf
<1>11. QED
  BY <1>4, <1>5, <1>6, <1>8, <1>9, <1>10 DEF EInv

(* A weapon goes into a box. *)
LEMMA PackStep ==
  ASSUME EInv, NEW e \in Entities, PackWeapon(e)
  PROVE  EInv'
<1>1. /\ phase = "active" /\ state[e] = "live"
      /\ \A p \in Players : e \notin inventory[p]
      /\ owner' = [owner EXCEPT ![e] = NoOwner]
      /\ UNCHANGED rest /\ UNCHANGED <<player_entities, inventory, state>>
  BY DEF PackWeapon, CanAdd
<1>2. /\ Items(Now, DOMAIN classnames, Valid)
      /\ Now.list = player_entities /\ Now.inv = inventory
      /\ Now.owner = owner /\ Now.state = state
  BY <1>1 DEF EInv, ItemFacts, Now
<1> DEFINE s == [list |-> player_entities, inv |-> inventory,
                 owner |-> [owner EXCEPT ![e] = NoOwner], state |-> state]
<1>3. /\ player_entities \in [Players -> Seq(Entities)]
      /\ inventory \in [Players -> SUBSET Entities]
      /\ owner \in [Entities -> Players \cup {NoOwner}]
      /\ state \in [Entities -> {"free", "live", "leaving", "killme"}]
  BY <1>2, StateFields DEF Items
<1>4. /\ s.list = player_entities /\ s.inv = inventory /\ s.state = state
      /\ \A x \in Entities \ {e} : s.owner[x] = owner[x]
      /\ s.owner = owner'
  BY <1>1, <1>3
<1>5. s \in ItemState
  BY <1>3 DEF ItemState
<1>6. Becomes(s)
  BY <1>1 DEF Becomes
<1> HIDE DEF s
<1>7. Items(s, DOMAIN classnames, Valid)
  <2>1. ASSUME NEW q \in Players PROVE ListFacts(s, q)
    <3>1. ListFacts(Now, q)
      BY <1>2 DEF Items
    <3>2. ~Contains(player_entities[q], e)
      BY <1>1, <1>2, <3>1 DEF ListFacts
    <3>3. QED
      BY <1>2, <1>4, <3>1, <3>2 DEF ListFacts
  <2>2. ASSUME NEW q \in Players PROVE InventoryFacts(s, q, DOMAIN classnames)
    BY <1>2, <1>4 DEF Items, InventoryFacts
  <2>3. StateFacts(s, DOMAIN classnames, Valid)
    BY <1>2, <1>4 DEF Items, StateFacts
  <2>4. QED
    BY <1>5, <2>1, <2>2, <2>3 DEF Items
<1>8. QED
  BY <1>1, <1>6, <1>7, ItemStep

(* The list that get_user_buyzone looks into. *)
LEMMA BuyzoneStep ==
  ASSUME EInv, get_user_buyzone
  PROVE  EInv'
<1>1. PICK key \in Keys :
        /\ entities' = With(entities, key, ListOf(entities, key))
        /\ asked' = asked \cup {key}
  BY EntitiesAssumption DEF get_user_buyzone, Keys
<1>2. UNCHANGED <<wp_entities, classnames, player_entities, phase, state, class,
                  owner, inventory, misfiled>>
  BY DEF get_user_buyzone, engine
<1>3. EngineTypes' /\ NameFacts'
  BY <1>2 DEF EInv, EngineTypes, NameFacts
<1>4. ItemFacts' /\ WeaponFacts'
  BY <1>2, SameItems, SameWeapons
<1> DEFINE t == With(entities, key, ListOf(entities, key))
<1>5. /\ Index(entities, classnames, asked)
      /\ Listed(entities, classnames, Valid)
  BY DEF EInv
<1>6. /\ ListOf(entities, key) \in Seq(Entities)
      /\ IsInjective(ListOf(entities, key))
      /\ \A x \in Entities : Contains(ListOf(entities, key), x) =>
           x \in DOMAIN classnames /\ classnames[x] = key
  BY <1>5, ListOfIndex
<1>7. /\ DOMAIN t = DOMAIN entities \cup {key}
      /\ t[key] = ListOf(entities, key)
      /\ \A k \in DOMAIN entities : t[k] = entities[k]
      /\ \A k : ListOf(t, k) = ListOf(entities, k)
  BY DEF With, ListOf
<1>8. t \in [DOMAIN t -> Seq(Entities)]
  <2>1. \A k \in DOMAIN entities \cup {key} : t[k] \in Seq(Entities)
    BY <1>5, <1>6, <1>7 DEF Index
  <2>2. QED
    BY <2>1, MapTypes
<1> HIDE DEF t
<1>9. Index(t, classnames, asked \cup {key})
  BY <1>5, <1>6, <1>7, <1>8 DEF Index
<1>10. Listed(t, classnames, Valid)
  BY <1>5, <1>7 DEF Listed
<1>11. Valid' = Valid
  BY <1>2 DEF Valid, is_valid_entity
<1>12. Index(entities, classnames, asked)'
  BY <1>1, <1>2, <1>9 DEF Index, t
<1>13. Listed(entities, classnames, Valid)'
  BY <1>1, <1>2, <1>10, <1>11 DEF Listed, ListOf, t
<1>14. QED
  BY <1>3, <1>4, <1>12, <1>13 DEF EInv

(* A player's list without the entities that are not valid. *)
LEMMA PurgedItems ==
  ASSUME EInv, NEW p, NEW key \in Classes, NEW size,
         rf_get_ent_by_class(p, key, size),
         DOMAIN classnames' = DOMAIN classnames
  PROVE  ItemFacts'
<1>1. /\ player_entities' = IF p \in Players
           THEN [player_entities EXCEPT ![p] = Purged(player_entities[p])]
           ELSE player_entities
      /\ UNCHANGED <<phase, state, class, owner, inventory, misfiled>>
  BY DEF rf_get_ent_by_class, engine
<1>2. CASE p \notin Players
  BY <1>1, <1>2, SameItems
<1>3. CASE p \in Players
  <2>1. /\ Now \in ItemState /\ Now.list = player_entities
        /\ Now.inv = inventory /\ Now.owner = owner /\ Now.state = state
    BY DEF EInv, ItemFacts, Now
  <2>2. /\ Now'.list = player_entities' /\ Now'.inv = inventory
        /\ Now'.owner = owner /\ Now'.state = state
        /\ Now' = [list |-> player_entities', inv |-> inventory,
                   owner |-> owner, state |-> state]
    BY <1>1 DEF Now
  <2>3. /\ player_entities \in [Players -> Seq(Entities)]
        /\ inventory \in [Players -> SUBSET Entities]
        /\ owner \in [Entities -> Players \cup {NoOwner}]
        /\ state \in [Entities -> {"free", "live", "leaving", "killme"}]
    BY <2>1, StateFields
  <2> DEFINE v == player_entities[p]
             w == Purged(v)
  <2>4. v = List(p, key)
    BY <1>3 DEF List
  <2>5. v \in Seq(Entities)
    BY <1>3, <2>3
  <2> HIDE DEF v
  <2>6. /\ w \in Seq(Entities) /\ Len(w) <= Len(v)
        /\ \A x \in Entities : Contains(w, x) <=>
             Contains(v, x) /\ x \in DOMAIN classnames /\ is_valid_entity(x)
        /\ \A x \in Entities : Once(v, x) => Once(w, x)
    BY <2>4, ListTypes
  <2> HIDE DEF w
  <2>7. /\ player_entities'[p] = w
        /\ \A q \in Players \ {p} : player_entities'[q] = player_entities[q]
        /\ player_entities' \in [Players -> Seq(Entities)]
    BY <1>1, <1>3, <2>3, <2>6 DEF v, w
  <2>8. Now' \in ItemState
    BY ONLY <2>2, <2>3, <2>7 DEF ItemState
  <2>9. CASE phase = "active"
    <3>1. Items(Now, DOMAIN classnames, Valid)
      BY <2>9 DEF EInv, ItemFacts
    <3>2. ASSUME NEW q \in Players PROVE ListFacts(Now', q)
      <4>1. ListFacts(Now, q)
        BY <3>1 DEF Items
      <4>2. CASE q # p
        BY <2>1, <2>2, <2>7, <4>1, <4>2 DEF ListFacts
      <4>3. CASE q = p
        <5>1. IsInjective(v)
          BY <2>1, <4>1, <4>3 DEF ListFacts, v
        <5>2. IsInjective(w)
          BY <2>5, <2>6, <5>1, InjectiveOnce
        <5>3. \A x \in Entities : Contains(w, x) => Contains(Now.list[q], x)
          BY <2>1, <2>6, <4>3 DEF v
        <5>4. QED
          BY <2>1, <2>2, <2>7, <4>1, <4>3, <5>2, <5>3 DEF ListFacts
      <4>4. QED
        BY <4>2, <4>3
    <3>3. ASSUME NEW q \in Players
          PROVE  InventoryFacts(Now', q, DOMAIN classnames)
      <4>1. InventoryFacts(Now, q, DOMAIN classnames)
        BY <3>1 DEF Items
      <4>2. ASSUME NEW x \in inventory[q], state[x] \in {"live", "leaving"}
            PROVE  Contains(player_entities'[q], x)
        <5>1. Contains(player_entities[q], x) /\ x \in DOMAIN classnames
              /\ is_valid_entity(x) /\ x \in Entities
          BY <2>1, <2>3, <4>1, <4>2 DEF InventoryFacts, is_valid_entity
        <5>2. CASE q = p
          BY <2>6, <2>7, <5>1, <5>2 DEF v
        <5>3. CASE q # p
          BY <2>7, <5>1, <5>3
        <5>4. QED
          BY <5>2, <5>3
      <4>3. QED
        BY <2>1, <2>2, <4>1, <4>2 DEF InventoryFacts
    <3>4. Valid' = Valid
      BY <1>1 DEF Valid, is_valid_entity
    <3>5. StateFacts(Now', DOMAIN classnames, Valid)
      BY <2>1, <2>2, <3>1 DEF StateFacts, Items
    <3>6. Items(Now', DOMAIN classnames, Valid')
      BY <2>8, <3>2, <3>3, <3>4, <3>5 DEF Items, ItemState
    <3>7. QED
      BY <1>1, <2>8, <2>9, <3>6
         DEF ItemFacts, ItemState, Items, StateFacts, ListFacts, InventoryFacts
  <2>10. CASE phase # "active"
    <3>1. \A q \in Players :
            /\ player_entities[q] = <<>>
            /\ \A x \in inventory[q] : phase = "ended" /\ state[x] # "free"
      BY <2>10 DEF EInv, ItemFacts
    <3>2. Len(w) = 0
      <4>1. Len(v) = 0
        BY <1>3, <3>1 DEF v
      <4>2. QED
        BY <2>6, <4>1, LenProperties
    <3>3. w = <<>>
      BY <2>6, <3>2, EmptySeq
    <3>4. QED
      BY <1>1, <2>7, <2>8, <2>10, <3>1, <3>3 DEF ItemFacts, ItemState
  <2>11. QED
    BY <2>9, <2>10
<1>4. QED
  BY <1>2, <1>3

(* The list of weapons without the entities that are not valid. *)
LEMMA PurgedWeapons ==
  ASSUME EInv, NEW p, NEW key \in Classes, NEW size,
         rf_get_ent_by_class(p, key, size),
         DOMAIN classnames' = DOMAIN classnames
  PROVE  WeaponFacts'
<1>1. /\ wp_entities' = IF p \notin Players /\ AsksWeapons(key)
                        THEN Purged(wp_entities) ELSE wp_entities
      /\ UNCHANGED <<state, class, misfiled>>
  BY DEF rf_get_ent_by_class, engine
<1>2. CASE p \notin Players /\ AsksWeapons(key)
  <2> DEFINE v == wp_entities
             w == Purged(v)
  <2>1. v = List(p, key)
    BY <1>2 DEF List
  <2>2. /\ v \in Seq(Entities)
        /\ \A x \in Entities \ misfiled : Contains(v, x) =>
             /\ x \in DOMAIN classnames /\ class[x] \in Weapons /\ Once(v, x)
        /\ \A x \in DOMAIN classnames \ misfiled :
             is_valid_entity(x) /\ class[x] \in Weapons => Contains(v, x)
    BY DEF EInv, WeaponFacts, Once
  <2>3. w = wp_entities'
    BY <1>1, <1>2
  <2> HIDE DEF v
  <2>4. /\ w \in Seq(Entities)
        /\ \A x \in Entities : Contains(w, x) <=>
             Contains(v, x) /\ x \in DOMAIN classnames /\ is_valid_entity(x)
        /\ \A x \in Entities : Once(v, x) => Once(w, x)
    BY <2>1, ListTypes
  <2> HIDE DEF w
  <2>5. DOMAIN classnames \subseteq Entities
    BY DEF EInv, Index
  <2>6. \A x \in Entities \ misfiled : Contains(w, x) =>
          /\ x \in DOMAIN classnames /\ class[x] \in Weapons /\ Once(w, x)
    BY <2>2, <2>4
  <2>7. \A x \in DOMAIN classnames \ misfiled :
          is_valid_entity(x) /\ class[x] \in Weapons => Contains(w, x)
    BY <2>2, <2>4, <2>5
  <2>8. QED
    BY <1>1, <2>3, <2>4, <2>6, <2>7 DEF WeaponFacts, Once, is_valid_entity
<1>3. CASE ~(p \notin Players /\ AsksWeapons(key))
  BY <1>1, <1>3, SameWeapons
<1>4. QED
  BY <1>2, <1>3

(* A plugin asks for the entities of a class. *)
LEMMA QueryStep ==
  ASSUME EInv, NEW p, NEW key \in Classes, NEW size,
         rf_get_ent_by_class(p, key, size)
  PROVE  EInv'
<1> DEFINE s == copy_entities(p, key, size)
<1>1. /\ entities' = s.trie /\ classnames' = s.names
      /\ asked' = AskedFor(p, key) \cap DOMAIN entities'
      /\ UNCHANGED <<phase, state, class, owner, inventory, misfiled>>
  BY DEF rf_get_ent_by_class, engine, AskedFor
<1>2. CopyOK(s, Len(Purged(List(p, key))), AskedFor(p, key))
  <2> DEFINE n == Len(Purged(List(p, key)))
  <2>1. n \in Nat
    BY ListTypes, LenProperties
  <2> HIDE DEF n
  <2>2. PICK f : /\ s = f[n]
                 /\ \A i \in 0 .. n : CopyOK(f[i], n, AskedFor(p, key))
    BY CopyRounds DEF n
  <2> HIDE DEF s
  <2>3. CopyOK(s, n, AskedFor(p, key))
    BY <2>1, <2>2
  <2>4. QED
    BY <2>3 DEF n
<1> HIDE DEF s
<1>3. /\ Index(entities', classnames', AskedFor(p, key))
      /\ Listed(entities', classnames', Valid)
      /\ DOMAIN classnames' = DOMAIN classnames
  BY <1>1, <1>2 DEF CopyOK
<1>4. Index(entities', classnames', asked')
  BY <1>1, <1>3, AskedIndex
<1>5. Valid' = Valid
  BY <1>1 DEF Valid, is_valid_entity
<1>6. Index(entities, classnames, asked)' /\ Listed(entities, classnames, Valid)'
  BY <1>3, <1>4, <1>5 DEF Index, Listed, ListOf
<1>7. EngineTypes' /\ NameFacts'
  BY <1>1, <1>3 DEF EInv, EngineTypes, NameFacts
<1>8. QED
  BY <1>3, <1>6, <1>7, PurgedItems, PurgedWeapons DEF EInv

(* A map begins: nobody has anything yet. *)
LEMMA ActivateStep ==
  ASSUME EInv, ServerActivate_Post
  PROVE  EInv'
<1>1. /\ phase = "loading" /\ phase' = "active"
      /\ UNCHANGED <<entities, wp_entities, classnames, player_entities, state,
                     class, owner, inventory, asked, misfiled>>
  BY DEF ServerActivate_Post, tries, engine
<1>2. EngineTypes' /\ NameFacts' /\ WeaponFacts'
  BY <1>1, SameWeapons DEF EInv, EngineTypes, NameFacts
<1>3. Index(entities, classnames, asked)' /\ Listed(entities, classnames, Valid)'
  BY <1>1 DEF EInv, Index, Listed, ListOf, Valid, is_valid_entity
<1>4. ItemFacts'
  <2>1. /\ Now \in ItemState /\ Now.list = player_entities
        /\ Now.inv = inventory /\ Now.owner = owner /\ Now.state = state
    BY DEF EInv, ItemFacts, Now
  <2>2. Now' = Now
    BY <1>1 DEF Now
  <2>3. \A p \in Players : player_entities[p] = <<>> /\ inventory[p] = {}
    BY <1>1 DEF EInv, ItemFacts
  <2>4. \A p \in Players : ListFacts(Now, p)
    BY <2>1, <2>3 DEF ListFacts, IsInjective, Contains
  <2>5. \A p \in Players : InventoryFacts(Now, p, DOMAIN classnames)
    BY <2>1, <2>3 DEF InventoryFacts
  <2>6. StateFacts(Now, DOMAIN classnames, Valid)
    BY <2>1 DEF EInv, NameFacts, StateFacts, Valid, is_valid_entity
  <2>7. Items(Now, DOMAIN classnames, Valid)
    BY <2>1, <2>4, <2>5, <2>6 DEF Items
  <2>8. Valid' = Valid
    BY <1>1 DEF Valid, is_valid_entity
  <2> HIDE DEF Now, Valid
  <2>9. Items(Now, DOMAIN classnames, Valid)'
    BY <1>1, <2>2, <2>7, <2>8
       DEF Items, ItemState, StateFacts, ListFacts, InventoryFacts
  <2>10. (Now \in ItemState)'
    BY <2>1, <2>2 DEF ItemState
  <2>11. QED
    BY <1>1, <2>9, <2>10 DEF ItemFacts
<1>5. QED
  BY <1>2, <1>3, <1>4 DEF EInv

(* Nothing is noted. *)
LEMMA NothingNoted ==
  ASSUME NEW A, NEW V
  PROVE  Index(<<>>, <<>>, A) /\ Listed(<<>>, <<>>, V)
BY DEF Index, Listed

(* The map ends: the lists are dropped before the engine frees anything. *)
LEMMA DeactivateStep ==
  ASSUME EInv, ServerDeactivate_Post
  PROVE  EInv'
<1>1. /\ phase = "active" /\ phase' = "ended"
      /\ entities' = <<>> /\ wp_entities' = <<>> /\ classnames' = <<>>
      /\ player_entities' = [p \in Players |-> <<>>]
      /\ UNCHANGED <<state, class, owner, inventory>>
  BY DEF ServerDeactivate_Post, engine
<1>2. EngineTypes' /\ NameFacts'
  BY <1>1 DEF EInv, EngineTypes, NameFacts
<1>3. WeaponFacts'
  BY <1>1 DEF WeaponFacts, Contains
<1>4. Index(entities, classnames, asked)' /\ Listed(entities, classnames, Valid)'
  <2>1. Index(entities', classnames', asked') /\ Listed(entities', classnames', Valid')
    BY <1>1, NothingNoted
  <2>2. QED
    BY <2>1 DEF Index, Listed, ListOf
<1>5. ItemFacts'
  <2>1. /\ Now \in ItemState /\ Now.inv = inventory /\ Now.state = state
        /\ Now.owner = owner /\ Items(Now, DOMAIN classnames, Valid)
    BY <1>1 DEF EInv, ItemFacts, Now
  <2>2. \A p \in Players : \A x \in inventory[p] : state[x] # "free"
    BY <2>1 DEF Items, InventoryFacts
  <2>3. /\ player_entities' \in [Players -> Seq(Entities)]
        /\ \A p \in Players : player_entities'[p] = <<>>
    BY <1>1
  <2>4. /\ inventory \in [Players -> SUBSET Entities]
        /\ owner \in [Entities -> Players \cup {NoOwner}]
        /\ state \in [Entities -> {"free", "live", "leaving", "killme"}]
    BY <2>1, StateFields
  <2>5. Now' = [list |-> player_entities', inv |-> inventory, owner |-> owner,
                state |-> state]
    BY <1>1 DEF Now
  <2>6. Now' \in ItemState
    BY ONLY <2>3, <2>4, <2>5 DEF ItemState
  <2>7. QED
    BY <1>1, <2>2, <2>3, <2>6 DEF ItemFacts, ItemState
<1>6. QED
  BY <1>2, <1>3, <1>4, <1>5 DEF EInv

(* The next map is loaded when every entity is free. *)
LEMMA NextMapStep ==
  ASSUME EInv, NextMap
  PROVE  EInv'
<1>1. /\ phase = "ended" /\ phase' = "loading"
      /\ \A e \in Entities : state[e] = "free"
      /\ UNCHANGED <<entities, wp_entities, classnames, player_entities, state,
                     class, owner, inventory, asked, misfiled>>
  BY DEF NextMap, tries, engine
<1>2. EngineTypes' /\ NameFacts' /\ WeaponFacts'
  BY <1>1, SameWeapons DEF EInv, EngineTypes, NameFacts
<1>3. Index(entities, classnames, asked)' /\ Listed(entities, classnames, Valid)'
  BY <1>1 DEF EInv, Index, Listed, ListOf, Valid, is_valid_entity
<1>4. ItemFacts'
  <2>1. Now \in ItemState /\ Now' = Now
    BY <1>1 DEF EInv, ItemFacts, Now
  <2>2. inventory \in [Players -> SUBSET Entities]
    <3>1. Now.inv = inventory
      BY DEF Now
    <3>2. QED
      BY <2>1, <3>1, StateFields
  <2>3. \A p \in Players : player_entities[p] = <<>> /\ inventory[p] = {}
    BY <1>1, <2>2 DEF EInv, ItemFacts
  <2> HIDE DEF Now
  <2>4. QED
    BY <1>1, <2>1, <2>3 DEF ItemFacts, ItemState
<1>5. QED
  BY <1>2, <1>3, <1>4 DEF EInv

(* A step that changes nothing. *)
LEMMA NothingStep ==
  ASSUME EInv, UNCHANGED vars
  PROVE  EInv'
<1>1. UNCHANGED <<entities, wp_entities, classnames, player_entities, phase,
                  state, class, owner, inventory, asked, misfiled>>
  BY DEF vars, tries, engine
<1>2. EngineTypes' /\ NameFacts'
  BY <1>1 DEF EInv, EngineTypes, NameFacts
<1>3. Index(entities, classnames, asked)' /\ Listed(entities, classnames, Valid)'
  BY <1>1 DEF EInv, Index, Listed, ListOf, Valid, is_valid_entity
<1>4. QED
  BY <1>1, <1>2, <1>3, SameItems, SameWeapons DEF EInv

(* When the module is loaded. *)
LEMMA Started ==
  ASSUME Init
  PROVE  EInv
<1> USE DEF Init
<1>1. EngineTypes /\ NameFacts
  BY DEF EngineTypes, NameFacts
<1>2. WeaponFacts
  BY DEF WeaponFacts, Contains
<1>3. Index(entities, classnames, asked) /\ Listed(entities, classnames, Valid)
  BY NothingNoted
<1>4. ItemFacts
  <2>1. /\ player_entities \in [Players -> Seq(Entities)]
        /\ inventory \in [Players -> SUBSET Entities]
        /\ owner \in [Entities -> Players \cup {NoOwner}]
        /\ state \in [Entities -> {"free", "live", "leaving", "killme"}]
    OBVIOUS
  <2>2. Now \in ItemState
    BY ONLY <2>1 DEF Now, ItemState
  <2>3. QED
    BY <2>2 DEF ItemFacts
<1>5. QED
  BY <1>1, <1>2, <1>3, <1>4 DEF EInv

(* The invariant holds for ever, whatever plugins ask for and move, and    *)
(* whatever the game allocates, renames and frees.                         *)
THEOREM Inductive == Spec => []EInv
<1>1. ASSUME EInv, [Next]_vars PROVE EInv'
  <2>1. ASSUME NEW e \in Entities, EntityNext(e) PROVE EInv'
    BY <1>1, <2>1, AllocStep, FreeStep, RenameStep, RemoveStep, PackStep
       DEF EntityNext
  <2>2. ASSUME NEW p \in Players, PlayerNext(p) PROVE EInv'
    BY <1>1, <2>2, ItemActions
  <2>3. ASSUME NEW p \in Players \cup {NoOwner}, NEW key \in Classes,
               NEW size \in Sizes, rf_get_ent_by_class(p, key, size)
        PROVE  EInv'
    BY <1>1, <2>3, QueryStep
  <2>4. QED
    BY <1>1, <2>1, <2>2, <2>3, BuyzoneStep, ActivateStep, DeactivateStep,
       NextMapStep, NothingStep DEF Next
<1>2. QED
  BY <1>1, Started, PTL DEF Spec

-----------------------------------------------------------------------------
(* What a plugin is told. *)

(* The loop that nothing cuts short collects the valid entities of the     *)
(* class: no entity moves while it goes over the list it walks over.       *)
LEMMA CopyCollects ==
  ASSUME EInv, NEW p, NEW key \in Classes, OfClass(p, key) => Settled,
         NEW size \in Nat, size > Len(Purged(List(p, key)))
  PROVE  LET v == Purged(List(p, key)) IN
         Filtered(copy_entities(p, key, size).result, v,
                  {e \in Entities : class[e] = key}, Len(v))
<1> DEFINE v   == Purged(List(p, key))
           n   == Len(v)
           C   == {e \in Entities : class[e] = key}
           own == OfClass(p, key)
<1>1. /\ v \in Seq(Entities)
      /\ \A x \in Entities : Contains(v, x) =>
           x \in DOMAIN classnames /\ is_valid_entity(x)
  BY ListTypes
<1>2. n \in Nat /\ size > n /\ DOMAIN v = 1 .. n
  BY <1>1
<1>3. PICK f :
        /\ copy_entities(p, key, size) = f[n]
        /\ f[0] = CopyStart(p, key)
        /\ \A i \in 1 .. n : f[i] = CopyEntity(f[i - 1], i, key, size, own)
        /\ \A i \in 0 .. n : CopyOK(f[i], n, AskedFor(p, key))
  BY CopyRounds
<1>4. /\ f[0].mem = v /\ f[0].names = classnames /\ f[0].result = <<>>
  BY <1>3 DEF CopyStart
<1> HIDE DEF v, C
<1> DEFINE Good(i) == /\ f[i].mem = v /\ (own => f[i].names = classnames)
                      /\ Filtered(f[i].result, v, C, i)
           S == {i \in 0 .. n : Good(i)}
<1>5. 0 \in S
  <2>1. Filtered(<<>>, v, C, 0)
    BY FilterStart
  <2>2. QED
    BY <1>2, <1>4, <2>1
<1>6. ASSUME NEW i \in 1 .. n, Good(i - 1) PROVE Good(i)
  <2> DEFINE x == f[i - 1]
             e == v[i]
             trie == IF x.names[e] # class[e]
                     THEN trie_transfer(x.trie, x.names[e], class[e], e)
                     ELSE x.trie
  <2>1. i - 1 \in 0 .. n /\ i \in 0 .. n /\ i \in 1 .. Len(v)
    BY <1>2
  <2>2. /\ x.mem = v /\ (own => x.names = classnames)
        /\ Filtered(x.result, v, C, i - 1)
        /\ CopyOK(x, n, AskedFor(p, key)) /\ f[i] = CopyEntity(x, i, key, size, own)
    BY <1>3, <1>6, <2>1
  <2> HIDE DEF x
  <2>3. /\ x.result \in Seq(Entities) /\ Len(x.result) \in Nat
        /\ Len(x.result) <= i - 1
    BY <2>2, LenProperties DEF Filtered
  <2>4. Len(x.result) # size
    BY <1>2, <2>2, <2>3
  <2>5. e \in Entities /\ e \in DOMAIN classnames /\ is_valid_entity(e)
    <3>1. e \in Entities /\ Contains(v, e)
      BY <1>1, <2>1 DEF Contains
    <3>2. QED
      BY <1>1, <3>1
  <2>6. own => classnames[e] = class[e]
    BY <2>5 DEF Settled
  <2> HIDE DEF own, e
  <2>7. f[i] = [trie   |-> trie,
                names  |-> [x.names EXCEPT ![e] = class[e]],
                mem    |-> IF own /\ x.names[e] # class[e]
                           THEN Memory(x.mem, ListOf(trie, key)) ELSE x.mem,
                result |-> IF class[e] = key THEN Append(x.result, e)
                           ELSE x.result]
    BY <2>2, <2>4 DEF CopyEntity, e
  <2> HIDE DEF trie
  <2>8. f[i].mem = v
    BY <2>2, <2>6, <2>7
  <2>9. own => f[i].names = classnames
    <3>1. \E D, R : classnames \in [D -> R]
      BY DEF EInv, Index
    <3>2. own => [classnames EXCEPT ![e] = class[e]] = classnames
      BY <2>5, <2>6, <3>1
    <3>3. QED
      BY <2>2, <2>7, <3>2
  <2>10. f[i].result = IF v[i] \in C THEN Append(x.result, v[i]) ELSE x.result
    BY <2>5, <2>7 DEF C, e
  <2>11. Filtered(f[i].result, v, C, i)
    BY <1>1, <2>1, <2>2, <2>10, FilterStep
  <2>12. QED
    BY <2>8, <2>9, <2>11
<1> HIDE DEF Good
<1>7. \A i \in 1 .. n : i - 1 \in S => i \in S
  BY <1>2, <1>6
<1> HIDE DEF S
<1>8. \A i \in 0 .. n : i \in S
  BY <1>2, <1>5, <1>7, UpTo
<1>9. Good(n)
  BY <1>2, <1>8 DEF S
<1>10. QED
  BY <1>3, <1>9 DEF Good, v, C

(* Before round i + 1, at most i entities have left the list that the loop *)
(* walks over.                                                             *)
LEMMA WalkLength ==
  ASSUME EInv, NEW p, NEW key \in Classes, OfClass(p, key), NEW size
  PROVE  LET n == Len(Purged(List(p, key))) IN
         /\ n \in Nat
         /\ \A i \in 0 .. n :
              LET k == Len(ListOf(Walk(p, key, size)[i].trie, key)) IN
              k \in Nat /\ k >= n - i
<1> DEFINE v == Purged(List(p, key))
           n == Len(v)
           A == AskedFor(p, key)
<1>1. v \in Seq(Entities) /\ n \in Nat
  BY ListTypes
<1>2. PICK f :
        /\ f = Walk(p, key, size)
        /\ f[0] = CopyStart(p, key)
        /\ \A i \in 1 .. n : f[i] = CopyEntity(f[i - 1], i, key, size, TRUE)
        /\ \A i \in 0 .. n : CopyOK(f[i], n, A)
  BY CopyRounds
<1>3. ListOf(f[0].trie, key) = v
  <2>1. f[0].trie = With(entities, key, v)
    BY <1>2 DEF CopyStart
  <2>2. QED
    BY <2>1, ListOfWith
<1> HIDE DEF v, A
<1> DEFINE L(i) == Len(ListOf(f[i].trie, key))
           S == {i \in 0 .. n : L(i) \in Nat /\ L(i) >= n - i}
<1>4. 0 \in S
  BY <1>1, <1>3
<1>5. ASSUME NEW i \in 1 .. n, i - 1 \in S PROVE i \in S
  <2> DEFINE x == f[i - 1]
  <2>1. CopyOK(x, n, A) /\ f[i] = CopyEntity(x, i, key, size, TRUE)
    BY <1>1, <1>2, <1>5
  <2>2. L(i - 1) \in Nat /\ L(i - 1) >= n - (i - 1)
    BY <1>5
  <2> HIDE DEF x
  <2>3. x.mem[i] \in Entities
    <3>1. Len(x.mem) \in Nat /\ Len(x.mem) >= n /\ x.mem \in Seq(Entities)
      BY <2>1 DEF CopyOK
    <3>2. i \in 1 .. Len(x.mem)
      BY <1>1, <3>1
    <3>3. QED
      BY <3>1, <3>2
  <2>4. \/ f[i].trie = x.trie
        \/ f[i].trie = trie_transfer(x.trie, x.names[x.mem[i]],
                                     class[x.mem[i]], x.mem[i])
    BY <2>1 DEF CopyEntity
  <2>5. Index(x.trie, x.names, A)
    BY <2>1 DEF CopyOK
  <2>6. L(i) \in Nat /\ L(i) >= L(i - 1) - 1
    <3>1. CASE f[i].trie = x.trie
      BY <2>2, <3>1 DEF x
    <3>2. CASE f[i].trie = trie_transfer(x.trie, x.names[x.mem[i]],
                                         class[x.mem[i]], x.mem[i])
      BY <2>3, <2>5, <3>2, TransferLength DEF x
    <3>3. QED
      BY <2>4, <3>1, <3>2
  <2> HIDE DEF L
  <2>7. QED
    BY <1>1, <2>2, <2>6
<1> HIDE DEF S
<1>6. \A i \in 0 .. n : i \in S
  BY <1>1, <1>4, <1>5, UpTo
<1>7. QED
  BY <1>1, <1>2, <1>6 DEF S, v

(* The elements of the list that a plugin asks for. *)
LEMMA ListElements ==
  ASSUME EInv, NEW p \in Players \cup {NoOwner}, NEW key \in Classes,
         OfClass(p, key) => Settled, NEW x \in Entities, x \notin misfiled
  PROVE  /\ Once(List(p, key), x)
         /\ x \in DOMAIN classnames /\ is_valid_entity(x) /\ class[x] = key =>
              (Contains(List(p, key), x) <=>
                 (p \in Players => Contains(player_entities[p], x)))
<1>1. CASE p \in Players
  <2>1. List(p, key) = player_entities[p]
    BY <1>1 DEF List
  <2>2. player_entities[p] \in Seq(Entities) /\ IsInjective(player_entities[p])
    <3>1. Now \in ItemState /\ Now.list = player_entities
      BY DEF EInv, ItemFacts, Now
    <3>2. CASE phase = "active"
      BY <1>1, <3>1, <3>2, StateFields DEF EInv, ItemFacts, Items, ListFacts
    <3>3. CASE phase # "active"
      <4>1. player_entities[p] = <<>>
        BY <1>1, <3>3 DEF EInv, ItemFacts
      <4>2. QED
        BY <4>1 DEF IsInjective
    <3>4. QED
      BY <3>2, <3>3
  <2>3. QED
    BY <1>1, <2>1, <2>2, InjectiveOnce
<1>2. CASE p \notin Players /\ AsksWeapons(key)
  <2>1. List(p, key) = wp_entities
    BY <1>2 DEF List
  <2>2. Once(wp_entities, x)
    <3>1. CASE Contains(wp_entities, x)
      BY <3>1 DEF EInv, WeaponFacts, Once
    <3>2. CASE ~Contains(wp_entities, x)
      <4>1. DOMAIN wp_entities = 1 .. Len(wp_entities)
        BY DEF EInv, WeaponFacts
      <4>2. QED
        BY <3>2, <4>1 DEF Once, Contains
    <3>3. QED
      BY <3>1, <3>2
  <2>3. key \in Weapons
    BY <1>2 DEF AsksWeapons
  <2>4. x \in DOMAIN classnames /\ is_valid_entity(x) /\ class[x] = key =>
          Contains(wp_entities, x)
    BY <2>3 DEF EInv, WeaponFacts
  <2>5. QED
    BY <1>2, <2>1, <2>2, <2>4
<1>3. CASE p \notin Players /\ ~AsksWeapons(key)
  <2>1. List(p, key) = ListOf(entities, key) /\ Settled
    BY <1>3 DEF List, OfClass
  <2>2. /\ ListOf(entities, key) \in Seq(Entities)
        /\ IsInjective(ListOf(entities, key))
    BY ListOfIndex DEF EInv
  <2>3. Once(ListOf(entities, key), x)
    BY <2>2, InjectiveOnce
  <2>4. ASSUME x \in DOMAIN classnames, is_valid_entity(x), class[x] = key
        PROVE  Contains(ListOf(entities, key), x)
    <3>1. classnames[x] = key
      BY <2>1, <2>4 DEF Settled
    <3>2. x \in Valid
      BY <2>4 DEF Valid
    <3>3. QED
      BY <2>4, <3>1, <3>2 DEF EInv, Listed
  <2>5. QED
    BY <1>3, <2>1, <2>3, <2>4
<1>4. QED
  BY <1>1, <1>2, <1>3

(* The answer, element by element. *)
LEMMA AnswerElements ==
  ASSUME EInv, NEW p \in Players \cup {NoOwner}, NEW key \in Classes,
         OfClass(p, key) => Settled
  PROVE  LET answer == Answer(p, key) IN
         /\ answer \in Seq(Entities) /\ IsInjective(answer)
         /\ \A x \in Entities : Contains(answer, x) <=>
              /\ x \in DOMAIN classnames \ misfiled
              /\ is_valid_entity(x) /\ class[x] = key
              /\ p \in Players => Contains(player_entities[p], x)
<1> DEFINE u == List(p, key)
           v == Purged(u)
           r == copy_entities(p, key, Len(u) + 1).result
           C == {e \in Entities : class[e] = key}
           T == Entities \ misfiled
           answer == Keep(r, T)
<1>1. /\ u \in Seq(Entities) /\ v \in Seq(Entities) /\ Len(v) <= Len(u)
      /\ \A x \in Entities : Contains(v, x) <=>
           Contains(u, x) /\ x \in DOMAIN classnames /\ is_valid_entity(x)
      /\ \A x \in Entities : Once(u, x) => Once(v, x)
  BY ListTypes
<1>2. Filtered(r, v, C, Len(v))
  <2>1. Len(u) + 1 \in Nat /\ Len(u) + 1 > Len(v)
    BY <1>1, LenProperties
  <2>2. QED
    BY <2>1, CopyCollects
<1>3. \A x \in Entities : x \in T =>
        /\ Once(u, x)
        /\ x \in DOMAIN classnames /\ is_valid_entity(x) /\ x \in C =>
             (Contains(u, x) <=> (p \in Players => Contains(player_entities[p], x)))
  BY ListElements
<1>4. Answer(p, key) = answer
  BY DEF Answer
<1>5. \A x \in Entities : (x \in C <=> class[x] = key) /\ (x \in T <=> x \notin misfiled)
  OBVIOUS
<1> HIDE DEF u, v, r, C, T
<1>6. /\ r \in Seq(Entities)
      /\ \A x \in Entities : Contains(r, x) <=> Contains(v, x) /\ x \in C
      /\ \A x \in Entities : Once(v, x) => Once(r, x)
  BY <1>1, <1>2, FilteredElements
<1>7. /\ answer \in Seq(Entities)
      /\ \A x \in Entities : Contains(answer, x) <=> Contains(r, x) /\ x \in T
      /\ \A x \in Entities : Once(r, x) => Once(answer, x)
  BY <1>6, KeepElements
<1> HIDE DEF answer
<1>8. ASSUME NEW x \in Entities PROVE Once(answer, x)
  <2>1. CASE x \in T
    BY <1>1, <1>3, <1>6, <1>7, <2>1
  <2>2. CASE x \notin T
    <3>1. ~Contains(answer, x) /\ DOMAIN answer = 1 .. Len(answer)
      BY <1>7, <2>2
    <3>2. QED
      BY <3>1 DEF Once, Contains
  <2>3. QED
    BY <2>1, <2>2
<1>9. IsInjective(answer)
  BY <1>7, <1>8, InjectiveOnce
<1>10. ASSUME NEW x \in Entities
       PROVE  Contains(answer, x) <=>
                /\ x \in DOMAIN classnames \ misfiled
                /\ is_valid_entity(x) /\ class[x] = key
                /\ p \in Players => Contains(player_entities[p], x)
  BY <1>1, <1>3, <1>5, <1>6, <1>7
<1>11. QED
  BY <1>4, <1>7, <1>9, <1>10

(* The lists of the classes and the noted class names name each other      *)
(* (trie_add, trie_remove, trie_transfer): an entity is in the list of its *)
(* noted class name, once, and in no other.                                *)
THEOREM ClassIndexed == Spec => []ClassIndex
<1>1. EInv => ClassIndex
  <2> SUFFICES ASSUME EInv PROVE ClassIndex
    OBVIOUS
  <2>1. ASSUME NEW key \in DOMAIN entities
        PROVE  /\ entities[key] = <<>> => key \in asked
               /\ \A i, j \in DOMAIN entities[key] :
                    LET e == entities[key][i] IN
                    /\ e \in DOMAIN classnames /\ classnames[e] = key
                    /\ e = entities[key][j] => i = j
    <3>1. /\ entities[key] \in Seq(Entities) /\ IsInjective(entities[key])
          /\ entities[key] = <<>> => key \in asked
          /\ \A e \in Entities : Contains(entities[key], e) =>
               e \in DOMAIN classnames /\ classnames[e] = key
      BY DEF EInv, Index
    <3>2. \A i \in DOMAIN entities[key] :
            entities[key][i] \in Entities /\ Contains(entities[key], entities[key][i])
      BY <3>1 DEF Contains
    <3>3. QED
      BY <3>1, <3>2 DEF IsInjective
  <2>2. ASSUME NEW e \in DOMAIN classnames, is_valid_entity(e)
        PROVE  Contains(ListOf(entities, classnames[e]), e)
    <3>1. e \in Valid
      BY <2>2 DEF EInv, Index, Valid
    <3>2. QED
      BY <3>1 DEF EInv, Listed
  <2>3. QED
    BY <2>1, <2>2 DEF ClassIndex
<1>2. QED
  BY <1>1, Inductive, PTL

(* The list of a player that rf_get_user_weapons copies: the items of the  *)
(* player, once each, which the player owns, and none that is freed.       *)
THEOREM OwnerIndexed == Spec => []OwnerIndex
<1>1. EInv => OwnerIndex
  <2> SUFFICES ASSUME EInv, NEW p \in Players
               PROVE  /\ \A i, j \in DOMAIN player_entities[p] :
                           LET e == player_entities[p][i] IN
                           /\ state[e] # "free" /\ owner[e] = p
                           /\ e = player_entities[p][j] => i = j
                      /\ \A e \in inventory[p] :
                           phase = "active" /\ is_valid_entity(e) =>
                             Contains(player_entities[p], e)
    BY DEF OwnerIndex
  <2>1. CASE phase = "active"
    <3>1. /\ Now \in ItemState /\ Now.list = player_entities
          /\ Now.inv = inventory /\ Now.owner = owner /\ Now.state = state
          /\ ListFacts(Now, p) /\ InventoryFacts(Now, p, DOMAIN classnames)
      BY <2>1 DEF EInv, ItemFacts, Items, Now
    <3>2. player_entities[p] \in Seq(Entities)
      BY <3>1, StateFields
    <3>3. \A i \in DOMAIN player_entities[p] :
            /\ player_entities[p][i] \in Entities
            /\ Contains(player_entities[p], player_entities[p][i])
      BY <3>2 DEF Contains
    <3>4. QED
      BY <3>1, <3>3
         DEF ListFacts, InventoryFacts, IsInjective, is_valid_entity
  <2>2. CASE phase # "active"
    <3>1. player_entities[p] = <<>>
      BY <2>2 DEF EInv, ItemFacts
    <3>2. QED
      BY <2>2, <3>1
  <2>3. QED
    BY <2>1, <2>2
<1>2. QED
  BY <1>1, Inductive, PTL

(* rf_get_ent_by_class answers with every valid noted entity of the class  *)
(* and the owner, once, for every class, owner and list.                   *)
THEOREM QueriesExact == Spec => []QueryExact
<1>1. EInv => QueryExact
  <2> SUFFICES ASSUME EInv, NEW p \in Players \cup {NoOwner},
                      NEW key \in Classes, OfClass(p, key) => Settled
               PROVE  LET answer == Answer(p, key) IN
                      /\ IsInjective(answer)
                      /\ ToSet(answer) =
                           {e \in DOMAIN classnames \ misfiled :
                              /\ is_valid_entity(e) /\ class[e] = key
                              /\ p \in Players => Contains(player_entities[p], e)}
    BY DEF QueryExact
  <2> DEFINE answer == Answer(p, key)
             W == {e \in DOMAIN classnames \ misfiled :
                     /\ is_valid_entity(e) /\ class[e] = key
                     /\ p \in Players => Contains(player_entities[p], e)}
  <2>1. /\ answer \in Seq(Entities) /\ IsInjective(answer)
        /\ \A x \in Entities : Contains(answer, x) <=> x \in W
    BY AnswerElements
  <2>2. W \subseteq Entities
    BY DEF EInv, Index
  <2> HIDE DEF answer, W
  <2>3. \A x : x \in ToSet(answer) <=> x \in Entities /\ Contains(answer, x)
    BY <2>1 DEF ToSet, Contains
  <2>4. ToSet(answer) = W
    BY <2>1, <2>2, <2>3
  <2>5. QED
    BY <2>1, <2>4 DEF answer, W
<1>2. QED
  BY <1>1, Inductive, PTL

(* The vector that copy_entities walks over exists before every round: at  *)
(* most one entity leaves it in a round, so that trie_remove destroys it   *)
(* (l.524) in the last one, if at all.                                     *)
THEOREM WalksExisting == Spec => []WalkedExists
<1>1. EInv => WalkedExists
  <2> SUFFICES ASSUME EInv, NEW key \in Classes, NEW size \in Sizes,
                      OfClass(NoOwner, key),
                      NEW i \in 0 .. Len(Purged(List(NoOwner, key))) - 1
               PROVE  key \in DOMAIN Walk(NoOwner, key, size)[i].trie
    BY DEF WalkedExists
  <2> DEFINE n == Len(Purged(List(NoOwner, key)))
             t == Walk(NoOwner, key, size)[i].trie
  <2>1. /\ n \in Nat
        /\ \A j \in 0 .. n :
             LET k == Len(ListOf(Walk(NoOwner, key, size)[j].trie, key)) IN
             k \in Nat /\ k >= n - j
    BY WalkLength
  <2>2. i \in 0 .. n /\ n - i >= 1
    BY <2>1
  <2>3. Len(ListOf(t, key)) \in Nat /\ Len(ListOf(t, key)) >= n - i
    BY <2>1, <2>2
  <2> HIDE DEF n, t
  <2>4. Len(ListOf(t, key)) # 0
    BY <2>1, <2>2, <2>3
  <2>5. Len(<<>>) = 0
    OBVIOUS
  <2>6. key \in DOMAIN t
    BY <2>4, <2>5 DEF ListOf
  <2>7. QED
    BY <2>6 DEF t
<1>2. QED
  BY <1>1, Inductive, PTL
=============================================================================
