------------------------------ MODULE GuiProofs ------------------------------
(* What the GUI keeps true, for all values of the constants. A behaviour is    *)
(* one of one part (see Gui), so each part has an invariant of its own, kept   *)
(* by the steps of that part: those of the panels and of the macro editor      *)
(* (GuiPanelsProofs), and here those of the macros page and of the effects     *)
(* page with its key grid and its form.                                        *)
EXTENDS GuiPanelsProofs

-----------------------------------------------------------------------------
(* The macros page: configurations and what is read of a file.                 *)

IsMacros(ms) == ms \in Seq(Pages!Macros)
MacrosValid(ms) ==
    \A k, m \in DOMAIN ms : /\ ms[k].ok
                            /\ ms[k].trigger = ms[m].trigger => k = m
                            /\ ms[k].id = ms[m].id => k = m
(* No device has two entries. *)
OneEach(c) == \A i, k \in DOMAIN c : c[i].device = c[k].device => i = k
IsConfig(c) == c \in Seq(Pages!Entries) /\ OneEach(c)
MacrosAreValid(c) == \A i \in DOMAIN c : MacrosValid(c[i].macros)
(* Every macro of an entry is in c, or another one claims its trigger or id.   *)
Claimed(ms, m) == \E k \in DOMAIN ms : ms[k] = m \/ ms[k].trigger = m.trigger \/ ms[k].id = m.id
Covers(c, e) ==
    \E i \in DOMAIN c : c[i].device = e.device /\ \A k \in DOMAIN e.macros : Claimed(c[i].macros, e.macros[k])

LEMMA ThoseOfPages == ASSUME NEW s, NEW S PROVE Pages!Those(s, S) = Those(s, S)
  BY DEF Pages!Those, Those

LEMMA ValidConfig ==
  ASSUME NEW c \in Seq(Pages!Entries)
  PROVE  Pages!Valid(c) <=> OneEach(c) /\ MacrosAreValid(c)
  BY DEF Pages!Valid, Pages!NoDuplicates, OneEach, MacrosAreValid, MacrosValid

LEMMA EntryHas ==
  ASSUME NEW e \in Pages!Entries
  PROVE  /\ e.device \in Pages!Devices /\ e.macros \in Seq(Pages!Macros)
         /\ e = [device |-> e.device, macros |-> e.macros]
         /\ \A ms \in Seq(Pages!Macros) : [e EXCEPT !.macros = ms] \in Pages!Entries
         /\ \A ms : [e EXCEPT !.macros = ms].device = e.device
                    /\ [e EXCEPT !.macros = ms].macros = ms
  BY DEF Pages!Entries

(* Merging: a is kept in its place, b follows as far as nothing claims it.     *)
LEMMA Merging ==
  ASSUME NEW a \in Seq(Pages!Macros), NEW b \in Seq(Pages!Macros)
  PROVE  LET r == Pages!Merge(a, b)
         IN /\ r \in Seq(Pages!Macros) /\ Len(a) <= Len(r)
            /\ \A k \in 1..Len(a) : r[k] = a[k]
            /\ \A k \in 1..Len(b) : Claimed(r, b[k])
            /\ MacrosValid(a) /\ MacrosValid(b) => MacrosValid(r)
<1> DEFINE S == {m \in Pages!ToSet(b) : m.trigger \notin Pages!TriggersOf(a) /\ m.id \notin Pages!IdsOf(a)}
           t == Those(b, S)
           r == a \o t
<1>1. PICK p : Picks(p, t, b, Len(b), S)
  BY ThosePicks
<1>2. t \in Seq(Pages!Macros)
  BY ThosePicks
<1>3. Pages!Merge(a, b) = r
  BY ThoseOfPages DEF Pages!Merge
<1>4. \A m : m \in S <=> (\E k \in 1..Len(b) : m = b[k])
                         /\ (\A i \in 1..Len(a) : a[i].trigger # m.trigger /\ a[i].id # m.id)
  BY DEF Pages!ToSet, Pages!TriggersOf, Pages!IdsOf
<1> HIDE DEF S, t
<1>5. /\ r \in Seq(Pages!Macros) /\ Len(r) = Len(a) + Len(t) /\ {Len(a), Len(b), Len(t)} \subseteq Nat
      /\ \A k \in 1..Len(a) : r[k] = a[k]
      /\ \A k \in 1..Len(t) : r[Len(a) + k] = t[k]
  BY <1>2
<1>6. \A k \in 1..Len(r) : k \in 1..Len(a) \/ \E i \in 1..Len(t) : k = Len(a) + i
  <2> SUFFICES ASSUME NEW k \in 1..Len(r), k \notin 1..Len(a) PROVE \E i \in 1..Len(t) : k = Len(a) + i
    OBVIOUS
  <2>1. k - Len(a) \in 1..Len(t) /\ k = Len(a) + (k - Len(a))
    BY <1>5
  <2>2. QED
    BY <2>1
<1>7. DOMAIN r = 1..Len(r) /\ DOMAIN a = 1..Len(a) /\ DOMAIN b = 1..Len(b)
  BY <1>5
<1> HIDE DEF r
<1>8. ASSUME NEW k \in 1..Len(b) PROVE Claimed(r, b[k])
  <2>1. CASE b[k] \in S
    <3>1. PICK i \in 1..Len(t) : p[i] = k /\ t[i] = b[k]
      BY <1>1, <2>1 DEF Picks
    <3>2. r[Len(a) + i] = b[k] /\ Len(a) + i \in 1..Len(r)
      BY <1>5, <3>1
    <3>3. QED
      BY <1>7, <3>2 DEF Claimed
  <2>2. CASE b[k] \notin S
    <3>1. PICK i \in 1..Len(a) : a[i].trigger = b[k].trigger \/ a[i].id = b[k].id
      BY <1>4, <2>2
    <3>2. r[i] = a[i] /\ i \in 1..Len(r)
      BY <1>5
    <3>3. QED
      BY <1>7, <3>1, <3>2 DEF Claimed
  <2>3. QED
    BY <2>1, <2>2
<1>9. ASSUME MacrosValid(a), MacrosValid(b) PROVE MacrosValid(r)
  <2>1. ASSUME NEW i \in 1..Len(t)
        PROVE  /\ p[i] \in 1..Len(b) /\ t[i] = b[p[i]] /\ t[i].ok
               /\ \A m \in 1..Len(a) : a[m].trigger # t[i].trigger /\ a[m].id # t[i].id
               /\ \A m \in 1..Len(t) : p[i] = p[m] => i = m
    <3>1. p[i] \in 1..Len(b) /\ t[i] = b[p[i]] /\ b[p[i]] \in S
      BY <1>1 DEF Picks
    <3>2. \A m \in 1..Len(t) : p[i] = p[m] => i = m
      <4> SUFFICES ASSUME NEW m \in 1..Len(t), p[i] = p[m], i # m PROVE FALSE
        OBVIOUS
      <4>1. i < m \/ m < i
        BY <1>5
      <4>2. p[i] < p[m] \/ p[m] < p[i]
        BY <1>1, <4>1 DEF Picks
      <4>3. p[m] \in 1..Len(b)
        BY <1>1 DEF Picks
      <4>4. QED
        BY <1>5, <3>1, <4>2, <4>3
    <3>3. QED
      BY <1>4, <1>7, <1>9, <3>1, <3>2 DEF MacrosValid
  <2>2. ASSUME NEW k \in 1..Len(a), NEW m \in 1..Len(a)
        PROVE  /\ r[k].ok
               /\ r[k].trigger = r[m].trigger => k = m
               /\ r[k].id = r[m].id => k = m
    <3>1. r[k] = a[k] /\ r[m] = a[m]
      BY <1>5
    <3>2. k \in DOMAIN a /\ m \in DOMAIN a
      BY <1>7
    <3>3. QED
      BY <1>9, <3>1, <3>2 DEF MacrosValid
  <2>3. ASSUME NEW k \in 1..Len(a), NEW i \in 1..Len(t)
        PROVE  r[k].trigger # t[i].trigger /\ r[k].id # t[i].id
    <3>1. r[k] = a[k]
      BY <1>5
    <3>2. a[k].trigger # t[i].trigger /\ a[k].id # t[i].id
      BY <2>1
    <3>3. QED
      BY <3>1, <3>2
  <2>4. ASSUME NEW i \in 1..Len(t), NEW m \in 1..Len(t)
        PROVE  /\ t[i].ok
               /\ t[i].trigger = t[m].trigger => i = m
               /\ t[i].id = t[m].id => i = m
    <3>1. /\ p[i] \in 1..Len(b) /\ t[i] = b[p[i]] /\ t[i].ok /\ (p[i] = p[m] => i = m)
          /\ p[m] \in 1..Len(b) /\ t[m] = b[p[m]]
      BY <2>1
    <3>2. /\ b[p[i]].trigger = b[p[m]].trigger => p[i] = p[m]
          /\ b[p[i]].id = b[p[m]].id => p[i] = p[m]
      BY <1>7, <1>9, <3>1 DEF MacrosValid
    <3>3. QED
      BY <3>1, <3>2
  <2>5. ASSUME NEW k \in 1..Len(r), NEW m \in 1..Len(r)
        PROVE  /\ r[k].ok
               /\ r[k].trigger = r[m].trigger => k = m
               /\ r[k].id = r[m].id => k = m
    <3>1. CASE k \in 1..Len(a)
      <4>1. CASE m \in 1..Len(a)
        BY <2>2, <3>1, <4>1
      <4>2. CASE m \notin 1..Len(a)
        <5>1. PICK i \in 1..Len(t) : m = Len(a) + i
          BY <1>6, <4>2
        <5>2. r[m] = t[i] /\ r[k].ok
          BY <1>5, <2>2, <3>1, <5>1
        <5>3. QED
          BY <2>3, <3>1, <5>2
      <4>3. QED
        BY <4>1, <4>2
    <3>2. CASE k \notin 1..Len(a)
      <4>1. PICK j \in 1..Len(t) : k = Len(a) + j
        BY <1>6, <3>2
      <4>2. r[k] = t[j] /\ r[k].ok
        BY <1>5, <2>4, <4>1
      <4>3. CASE m \in 1..Len(a)
        BY <2>3, <4>2, <4>3
      <4>4. CASE m \notin 1..Len(a)
        <5>1. PICK i \in 1..Len(t) : m = Len(a) + i
          BY <1>6, <4>4
        <5>2. r[m] = t[i]
          BY <1>5, <5>1
        <5>3. QED
          BY <2>4, <4>1, <4>2, <5>1, <5>2
      <4>5. QED
        BY <4>3, <4>4
    <3>3. QED
      BY <3>1, <3>2
  <2>6. QED
    BY <1>7, <2>5 DEF MacrosValid
<1>10. QED
  BY <1>3, <1>5, <1>8, <1>9

(* One entry more: what was there stays, and the entry is covered.             *)
LEMMA EntryIsOne ==
  ASSUME NEW c, IsConfig(c), NEW i \in DOMAIN c
  PROVE  Pages!Has(c, c[i].device) /\ Pages!EntryOf(c, c[i].device) = i
         /\ Pages!MacrosOf(c, c[i].device) = c[i].macros
<1> DEFINE d == c[i].device
           P(k) == c[k].device = d /\ \A m \in DOMAIN c : c[m].device = d => k <= m
<1>1. DOMAIN c = 1..Len(c) /\ Len(c) \in Nat
  BY DEF IsConfig
<1>2. \A k \in DOMAIN c : c[k].device = d => k = i
  BY DEF IsConfig, OneEach
<1>3. P(i) /\ \A k \in DOMAIN c : P(k) => k = i
  BY <1>1, <1>2
<1>4. Pages!EntryOf(c, d) = CHOOSE k \in DOMAIN c : P(k)
  BY DEF Pages!EntryOf
<1> HIDE DEF P
<1>5. (CHOOSE k \in DOMAIN c : P(k)) = i
  BY <1>3
<1>6. Pages!Has(c, d)
  BY DEF Pages!Has
<1>7. QED
  BY <1>4, <1>5, <1>6 DEF Pages!MacrosOf

LEMMA AppendedConfig ==
  ASSUME NEW c, IsConfig(c), NEW e \in Pages!Entries, ~Pages!Has(c, e.device)
  PROVE  LET r == Append(c, e)
         IN /\ IsConfig(r) /\ Pages!Has(r, e.device)
            /\ Len(r) = Len(c) + 1 /\ r[Len(c) + 1] = e /\ \A i \in DOMAIN c : i \in DOMAIN r /\ r[i] = c[i]
            /\ \A i \in DOMAIN r : i = Len(c) + 1 \/ i \in DOMAIN c
<1> DEFINE r == Append(c, e)
<1>1. /\ r \in Seq(Pages!Entries) /\ Len(c) \in Nat /\ Len(r) = Len(c) + 1 /\ r[Len(c) + 1] = e
      /\ DOMAIN c = 1..Len(c) /\ DOMAIN r = 1..(Len(c) + 1)
      /\ \A i \in 1..Len(c) : r[i] = c[i]
  BY DEF IsConfig
<1> HIDE DEF r
<1>2. \A i \in DOMAIN r : i = Len(c) + 1 \/ i \in DOMAIN c
  BY <1>1
<1>3. \A i \in DOMAIN c : c[i].device # e.device
  BY DEF Pages!Has
<1>4. OneEach(r)
  <2> SUFFICES ASSUME NEW i \in DOMAIN r, NEW k \in DOMAIN r, r[i].device = r[k].device PROVE i = k
    BY DEF OneEach
  <2>1. CASE i \in DOMAIN c /\ k \in DOMAIN c
    BY <1>1, <2>1 DEF IsConfig, OneEach
  <2>2. CASE i = Len(c) + 1 /\ k \in DOMAIN c
    BY <1>1, <1>3, <2>2
  <2>3. CASE i \in DOMAIN c /\ k = Len(c) + 1
    BY <1>1, <1>3, <2>3
  <2>4. QED
    BY <1>2, <2>1, <2>2, <2>3
<1>5. Pages!Has(r, e.device)
  BY <1>1 DEF Pages!Has
<1>6. QED
  BY <1>1, <1>2, <1>4, <1>5 DEF IsConfig, r

LEMMA ReplacedConfig ==
  ASSUME NEW c, IsConfig(c), NEW r, DOMAIN r = DOMAIN c, r = [i \in DOMAIN c |-> r[i]],
         \A i \in DOMAIN c : r[i] \in Pages!Entries /\ r[i].device = c[i].device
  PROVE  IsConfig(r) /\ \A d : Pages!Has(r, d) <=> Pages!Has(c, d)
<1>1. Len(c) \in Nat /\ DOMAIN c = 1..Len(c)
  BY DEF IsConfig
<1>2. r \in [1..Len(c) -> Pages!Entries]
  BY <1>1
<1>3. r \in Seq(Pages!Entries)
  BY <1>1, <1>2, SeqDef
<1>4. QED
  BY <1>3 DEF IsConfig, OneEach, Pages!Has

LEMMA MergingInto ==
  ASSUME NEW c, IsConfig(c), NEW e \in Pages!Entries
  PROVE  LET r == Pages!MergeInto(c, e)
         IN /\ IsConfig(r) /\ Covers(r, e)
            /\ \A o : Covers(c, o) => Covers(r, o)
            /\ MacrosAreValid(c) /\ MacrosValid(e.macros) => MacrosAreValid(r)
<1> DEFINE r == Pages!MergeInto(c, e)
<1>1. DOMAIN c = 1..Len(c) /\ Len(c) \in Nat /\ \A i \in DOMAIN c : c[i] \in Pages!Entries
  BY DEF IsConfig
<1>2. e.macros \in Seq(Pages!Macros) /\ \A i \in DOMAIN c : c[i].macros \in Seq(Pages!Macros)
  BY <1>1, EntryHas
<1>3. DOMAIN e.macros = 1..Len(e.macros)
  BY <1>2
<1>4. CASE Pages!Has(c, e.device)
  <2>1. r = [i \in DOMAIN c |-> IF c[i].device # e.device THEN c[i]
                              ELSE [c[i] EXCEPT !.macros = Pages!Merge(@, e.macros)]]
    BY <1>4 DEF Pages!MergeInto
  <2>2. DOMAIN r = DOMAIN c /\ r = [i \in DOMAIN c |-> r[i]]
    BY <2>1
  <2>3. \A i \in DOMAIN c : r[i] = IF c[i].device # e.device THEN c[i]
                                 ELSE [c[i] EXCEPT !.macros = Pages!Merge(c[i].macros, e.macros)]
    BY <2>1
  <2> HIDE DEF r
  <2>4. ASSUME NEW i \in DOMAIN c
        PROVE  /\ r[i] \in Pages!Entries /\ r[i].device = c[i].device
               /\ \A k \in DOMAIN c[i].macros : k \in DOMAIN r[i].macros /\ r[i].macros[k] = c[i].macros[k]
               /\ c[i].device = e.device =>
                    \A k \in DOMAIN e.macros : Claimed(r[i].macros, e.macros[k])
               /\ MacrosValid(c[i].macros) /\ MacrosValid(e.macros) => MacrosValid(r[i].macros)
    <3> DEFINE m == Pages!Merge(c[i].macros, e.macros)
    <3>1. CASE c[i].device # e.device
      BY <1>1, <2>3, <3>1
    <3>2. CASE c[i].device = e.device
      <4>1. /\ m \in Seq(Pages!Macros) /\ Len(c[i].macros) <= Len(m)
            /\ \A k \in 1..Len(c[i].macros) : m[k] = c[i].macros[k]
            /\ \A k \in 1..Len(e.macros) : Claimed(m, e.macros[k])
            /\ MacrosValid(c[i].macros) /\ MacrosValid(e.macros) => MacrosValid(m)
        BY <1>2, Merging
      <4>2. r[i] = [c[i] EXCEPT !.macros = m]
        BY <2>3, <3>2
      <4> HIDE DEF m
      <4>3. r[i] \in Pages!Entries /\ r[i].device = c[i].device /\ r[i].macros = m
        BY <1>1, <4>1, <4>2, EntryHas
      <4>4. \A k \in DOMAIN c[i].macros : k \in DOMAIN m /\ k \in 1..Len(c[i].macros)
        <5>1. DOMAIN m = 1..Len(m) /\ DOMAIN c[i].macros = 1..Len(c[i].macros)
              /\ Len(m) \in Nat /\ Len(c[i].macros) \in Nat
          BY <1>2, <4>1
        <5>2. QED
          BY <4>1, <5>1
      <4>5. QED
        BY <1>3, <4>1, <4>3, <4>4
    <3>3. QED
      BY <3>1, <3>2
  <2>5. IsConfig(r)
    BY <2>2, <2>4, ReplacedConfig
  <2>6. Covers(r, e)
    <3>1. PICK i \in DOMAIN c : c[i].device = e.device
      BY <1>4 DEF Pages!Has
    <3>2. QED
      BY <2>2, <2>4, <3>1 DEF Covers
  <2>7. ASSUME NEW o, Covers(c, o) PROVE Covers(r, o)
    <3>1. PICK i \in DOMAIN c : c[i].device = o.device
                 /\ \A k \in DOMAIN o.macros : Claimed(c[i].macros, o.macros[k])
      BY <2>7 DEF Covers
    <3>2. \A m : Claimed(c[i].macros, m) => Claimed(r[i].macros, m)
      BY <2>4 DEF Claimed
    <3>3. r[i].device = o.device /\ i \in DOMAIN r
      BY <2>2, <2>4, <3>1
    <3>4. QED
      BY <3>1, <3>2, <3>3 DEF Covers
  <2>8. MacrosAreValid(c) /\ MacrosValid(e.macros) => MacrosAreValid(r)
    BY <2>2, <2>4 DEF MacrosAreValid
  <2>9. QED
    BY <2>5, <2>6, <2>7, <2>8 DEF r
<1>5. CASE ~Pages!Has(c, e.device)
  <2>1. r = Append(c, e)
    BY <1>5 DEF Pages!MergeInto
  <2>2. /\ IsConfig(r) /\ Len(r) = Len(c) + 1 /\ r[Len(c) + 1] = e
        /\ \A i \in DOMAIN c : i \in DOMAIN r /\ r[i] = c[i]
        /\ \A i \in DOMAIN r : i = Len(c) + 1 \/ i \in DOMAIN c
    BY <1>5, <2>1, AppendedConfig
  <2> HIDE DEF r
  <2>3. Len(c) + 1 \in DOMAIN r
    BY <1>1, <2>2 DEF IsConfig
  <2>4. Covers(r, e)
    BY <2>2, <2>3 DEF Covers, Claimed
  <2>5. ASSUME NEW o, Covers(c, o) PROVE Covers(r, o)
    BY <2>2, <2>5 DEF Covers
  <2>6. MacrosAreValid(c) /\ MacrosValid(e.macros) => MacrosAreValid(r)
    BY <2>2 DEF MacrosAreValid
  <2>7. QED
    BY <2>2, <2>4, <2>5, <2>6 DEF r
<1>6. QED
  BY <1>4, <1>5

(* from_dict reads one entry after the other.                                  *)
EntriesUpTo(f, es) ==
    f = [n \in 0..Len(es) |-> IF n = 0 THEN <<>> ELSE Pages!MergeInto(f[n - 1], es[n])]

LEMMA EntriesAreRead ==
  ASSUME NEW es \in Seq(Pages!Entries)
  PROVE  \E f : /\ f[0] = <<>>
                /\ \A n \in 0..(Len(es) - 1) : f[n + 1] = Pages!MergeInto(f[n], es[n + 1])
                /\ Pages!FromEntries(es) = f[Len(es)]
<1> DEFINE N == Len(es)
           T == {c \in Seq(Pages!Entries) : OneEach(c)}
           R == [p \in T \X (1..N) |-> Pages!MergeInto(p[1], es[p[2]])]
<1>1. N \in Nat /\ \A n \in 1..N : es[n] \in Pages!Entries
  OBVIOUS
<1>2. <<>> \in T
  BY DEF OneEach
<1>3. \A c \in T, e \in Pages!Entries : Pages!MergeInto(c, e) \in T
  <2> SUFFICES ASSUME NEW c \in T, NEW e \in Pages!Entries PROVE Pages!MergeInto(c, e) \in T
    OBVIOUS
  <2>1. IsConfig(c)
    BY DEF IsConfig
  <2>2. IsConfig(Pages!MergeInto(c, e))
    BY <2>1, MergingInto
  <2>3. QED
    BY <2>2 DEF IsConfig
<1> HIDE DEF T
<1>4. \A c \in T, n \in 1..N : R[<<c, n>>] = Pages!MergeInto(c, es[n])
  OBVIOUS
<1>5. R \in [T \X (1..N) -> T]
  BY <1>1, <1>3
<1> HIDE DEF R, N
<1>6. \E f \in [0..N -> T] : Grows(f, N, <<>>, R)
  BY <1>1, <1>2, <1>5, GrowingExists
<1>7. PICK f \in [0..N -> T] : Grows(f, N, <<>>, R)
  BY <1>6
<1>8. \A n \in 1..N : f[n] = Pages!MergeInto(f[n - 1], es[n])
  <2> SUFFICES ASSUME NEW n \in 1..N PROVE f[n] = Pages!MergeInto(f[n - 1], es[n])
    OBVIOUS
  <2>1. f[n] = R[<<f[n - 1], n>>]
    BY <1>7 DEF Grows
  <2>2. f[n - 1] \in T
    BY <1>1
  <2>3. QED
    BY <1>4, <2>1, <2>2
<1>9. f[0] = <<>>
  BY <1>7 DEF Grows
<1>10. EntriesUpTo(f, es)
  <2> DEFINE g == [n \in 0..N |-> IF n = 0 THEN <<>> ELSE Pages!MergeInto(f[n - 1], es[n])]
  <2>1. ASSUME NEW n \in 0..N PROVE f[n] = g[n]
    <3>1. CASE n = 0
      BY <1>9, <3>1
    <3>2. CASE n # 0
      BY <1>1, <1>8, <3>2
    <3>3. QED
      BY <3>1, <3>2
  <2>2. f = g
    BY <2>1
  <2>3. QED
    BY <2>2 DEF EntriesUpTo, N
<1> DEFINE h == CHOOSE g : EntriesUpTo(g, es)
<1>11. EntriesUpTo(h, es)
  BY <1>10
<1>12. Pages!FromEntries(es) = h[Len(es)]
  BY DEF Pages!FromEntries, EntriesUpTo
<1> HIDE DEF h
<1>13. h[0] = <<>> /\ \A n \in 0..(N - 1) : h[n + 1] = Pages!MergeInto(h[n], es[n + 1])
  <2>1. h[0] = <<>>
    BY <1>1, <1>11 DEF EntriesUpTo, N
  <2>2. ASSUME NEW n \in 0..(N - 1) PROVE h[n + 1] = Pages!MergeInto(h[n], es[n + 1])
    <3>1. n + 1 \in 0..N /\ n + 1 # 0 /\ (n + 1) - 1 = n
      BY <1>1
    <3>2. QED
      BY <1>11, <3>1 DEF EntriesUpTo, N
  <2>3. QED
    BY <2>1, <2>2
<1>14. QED
  BY <1>12, <1>13 DEF N

(* What is read of a file has one entry for each device, covers every entry of *)
(* the file, and is valid if these are one by one.                             *)
LEMMA ReadIsGood ==
  ASSUME NEW es \in Seq(Pages!Entries)
  PROVE  LET r == Pages!FromEntries(es)
         IN /\ IsConfig(r)
            /\ \A i \in DOMAIN es : Covers(r, es[i])
            /\ (\A i \in DOMAIN es : MacrosValid(es[i].macros)) => MacrosAreValid(r)
<1> DEFINE N == Len(es)
           Good(c, n) == /\ IsConfig(c)
                         /\ \A i \in 1..n : Covers(c, es[i])
                         /\ (\A i \in DOMAIN es : MacrosValid(es[i].macros)) => MacrosAreValid(c)
<1>1. N \in Nat /\ DOMAIN es = 1..N /\ \A n \in 1..N : es[n] \in Pages!Entries
  OBVIOUS
<1>2. PICK f : /\ f[0] = <<>>
               /\ \A n \in 0..(N - 1) : f[n + 1] = Pages!MergeInto(f[n], es[n + 1])
               /\ Pages!FromEntries(es) = f[N]
  BY EntriesAreRead
<1> HIDE DEF N
<1> DEFINE U == {n \in 0..N : Good(f[n], n)}
<1>3. 0 \in U
  <2>1. IsConfig(<<>>) /\ MacrosAreValid(<<>>)
    BY DEF IsConfig, OneEach, MacrosAreValid
  <2>2. QED
    BY <1>1, <1>2, <2>1
<1>4. ASSUME NEW n \in 0..(N - 1), n \in U PROVE n + 1 \in U
  <2>1. n + 1 \in 1..N /\ n + 1 \in 0..N /\ f[n + 1] = Pages!MergeInto(f[n], es[n + 1])
    BY <1>1, <1>2
  <2>2. Good(f[n], n)
    BY <1>4
  <2>3. es[n + 1] \in Pages!Entries
    BY <1>1, <2>1
  <2>4. /\ IsConfig(f[n + 1]) /\ Covers(f[n + 1], es[n + 1])
        /\ \A o : Covers(f[n], o) => Covers(f[n + 1], o)
        /\ MacrosAreValid(f[n]) /\ MacrosValid(es[n + 1].macros) => MacrosAreValid(f[n + 1])
    BY <2>1, <2>2, <2>3, MergingInto
  <2>5. \A i \in 1..(n + 1) : i = n + 1 \/ i \in 1..n
    OBVIOUS
  <2>6. \A i \in 1..(n + 1) : Covers(f[n + 1], es[i])
    BY <2>2, <2>4, <2>5
  <2>7. (\A i \in DOMAIN es : MacrosValid(es[i].macros)) => MacrosAreValid(f[n + 1])
    BY <1>1, <2>1, <2>2, <2>4
  <2>8. QED
    BY <2>1, <2>4, <2>6, <2>7
<1> HIDE DEF U
<1>5. \A n \in 0..N : n \in U
  BY <1>1, <1>3, <1>4, NatInduct
<1>6. N \in U
  BY <1>1, <1>5
<1>7. QED
  BY <1>1, <1>2, <1>6 DEF U

(* A configuration that was saved is read back.                                *)
LEMMA ConfigIsRead ==
  ASSUME NEW c, IsConfig(c)
  PROVE  Pages!FromEntries(c) = c
<1> DEFINE N == Len(c)
<1>1. N \in Nat /\ DOMAIN c = 1..N /\ c \in Seq(Pages!Entries) /\ \A n \in 1..N : c[n] \in Pages!Entries
  BY DEF IsConfig
<1>2. PICK f : /\ f[0] = <<>>
               /\ \A n \in 0..(N - 1) : f[n + 1] = Pages!MergeInto(f[n], c[n + 1])
               /\ Pages!FromEntries(c) = f[N]
  BY <1>1, EntriesAreRead
<1> HIDE DEF N
<1> DEFINE U == {n \in 0..N : f[n] = [i \in 1..n |-> c[i]]}
<1>3. 0 \in U
  <2>1. [i \in 1..0 |-> c[i]] = <<>>
    OBVIOUS
  <2>2. QED
    BY <1>1, <1>2, <2>1
<1>4. ASSUME NEW n \in 0..(N - 1), n \in U PROVE n + 1 \in U
  <2> DEFINE l == [i \in 1..n |-> c[i]]
             m == [i \in 1..(n + 1) |-> c[i]]
  <2>1. n + 1 \in 1..N /\ n + 1 \in 0..N /\ f[n + 1] = Pages!MergeInto(l, c[n + 1]) /\ n \in Nat
    BY <1>1, <1>2, <1>4
  <2>2. \A i \in 1..n : c[i].device # c[n + 1].device
    <3>1. \A i \in 1..n : i \in DOMAIN c /\ n + 1 \in DOMAIN c /\ i # n + 1
      BY <1>1, <2>1
    <3>2. QED
      BY <3>1 DEF IsConfig, OneEach
  <2>3. DOMAIN l = 1..n /\ \A i \in 1..n : l[i] = c[i]
    OBVIOUS
  <2>4. ~Pages!Has(l, c[n + 1].device)
    BY <2>2, <2>3 DEF Pages!Has
  <2>5. f[n + 1] = Append(l, c[n + 1])
    BY <2>1, <2>4 DEF Pages!MergeInto
  <2>6. l \in Seq(Pages!Entries) /\ Len(l) = n
    <3>1. l \in [1..n -> Pages!Entries]
      BY <1>1, <2>1
    <3>2. QED
      BY <2>1, <3>1
  <2>7. Append(l, c[n + 1]) = m
    <3>1. c[n + 1] \in Pages!Entries
      BY <1>1, <2>1
    <3>2. Append(l, c[n + 1]) \in Seq(Pages!Entries) /\ Len(Append(l, c[n + 1])) = n + 1
          /\ Append(l, c[n + 1])[n + 1] = c[n + 1]
          /\ \A i \in 1..n : Append(l, c[n + 1])[i] = l[i]
      BY <2>6, <3>1, AppendProperties
    <3>3. m \in Seq(Pages!Entries) /\ Len(m) = n + 1
      <4>1. m \in [1..(n + 1) -> Pages!Entries]
        BY <1>1, <2>1
      <4>2. QED
        BY <2>1, <4>1
    <3>4. \A i \in 1..(n + 1) : i = n + 1 \/ i \in 1..n
      OBVIOUS
    <3>5. \A i \in 1..(n + 1) : Append(l, c[n + 1])[i] = m[i]
      BY <3>2, <3>4
    <3> HIDE DEF l, m
    <3>6. QED
      BY <3>2, <3>3, <3>5, SeqEqual
  <2>8. QED
    BY <2>1, <2>5, <2>7
<1> HIDE DEF U
<1>5. \A n \in 0..N : n \in U
  BY <1>1, <1>3, <1>4, NatInduct
<1>6. N \in U
  BY <1>1, <1>5
<1>7. f[N] = [i \in 1..N |-> c[i]]
  BY <1>6 DEF U
<1>8. c = [i \in 1..N |-> c[i]]
  BY <1>1 DEF N
<1>9. QED
  BY <1>2, <1>7, <1>8

-----------------------------------------------------------------------------
(* The page, its file and the engine.                                          *)

IsFile(f) ==
    f \in [is : {"missing", "unreadable", "corrupt", "ok"}, entries : Seq(Pages!Entries)]
Requests == [kind : {"fetch", "reload"}, at : {"sent", "done", "failed"}, devices : SUBSET Pages!Devices]
Editors == [device : Pages!Devices \cup {0}, row : Nat, id : Nat, taken : SUBSET MacroTriggers,
            moved : BOOLEAN]

MachineFits ==
    /\ connected \subseteq Pages!Devices
    /\ engine \in {"down", "booting", "up"}
    /\ service \in {"stopped", "starting", "running"}
    /\ backup \in BOOLEAN /\ late \in BOOLEAN
    /\ IsFile(file) /\ loaded \in Seq(Pages!Entries)
    /\ jobs \subseteq Requests
PageTyped ==
    /\ known \subseteq Pages!Devices
    /\ dirty \in BOOLEAN /\ loadError \in BOOLEAN
    /\ selected \in Pages!Devices \cup {0}
    /\ row \in Nat /\ inputs \in Nat
    /\ IsConfig(config)
    /\ editor \in Editors

KeptAreThere == kept \ dropped \subseteq Pages!AllIds(config)
ShownIsFile == ~dirty => config = Pages!Loads(file).conf
(* An engine that runs has read what is in the file, or it was not told, or    *)
(* the request to read it again is under way.                                  *)
Told == \E j \in jobs : j.kind = "reload" /\ j.at = "sent"
EngineHasRead == engine = "up" /\ ~late /\ ~Told => loaded = Pages!Loads(file).conf

PageInv ==
    /\ MachineFits /\ PageTyped /\ KeptAreThere /\ ShownIsFile /\ EngineHasRead
    /\ Pages!LossIsTold

(* Reading the file: what is bad is moved aside, and reading again gives the   *)
(* same; a configuration that was valid when it was saved comes back.          *)
LEMMA NothingIsRead ==
  /\ IsFile(Pages!Missing)
  /\ Pages!Loads(Pages!Missing).conf = <<>> /\ ~Pages!Loads(Pages!Missing).bad
<1>1. IsConfig(<<>>) /\ MacrosAreValid(<<>>)
  BY DEF IsConfig, OneEach, MacrosAreValid
<1>2. Pages!FromEntries(<<>>) = <<>>
  BY <1>1, ConfigIsRead
<1>3. <<>> \in Seq(Pages!Entries)
  OBVIOUS
<1>4. Pages!Valid(<<>>)
  BY <1>1, <1>3, ValidConfig DEF IsConfig
<1>5. QED
  BY <1>2, <1>3, <1>4 DEF Pages!Missing, Pages!File, Pages!Loads, IsFile

LEMMA LoadsGood ==
  ASSUME NEW f, IsFile(f)
  PROVE  IsConfig(Pages!Loads(f).conf) /\ Pages!Loads(f).bad \in BOOLEAN
         /\ (Pages!Loads(f).bad => Pages!Loads(f).conf = <<>>)
<1> DEFINE conf == Pages!FromEntries(f.entries)
           bad == f.is \in {"unreadable", "corrupt"} \/ ~Pages!Valid(conf)
<1>1. f.entries \in Seq(Pages!Entries)
  BY DEF IsFile
<1>2. IsConfig(conf) /\ IsConfig(<<>>)
  BY <1>1, ReadIsGood DEF IsConfig, OneEach
<1>3. Pages!Loads(f) = [conf |-> IF bad THEN <<>> ELSE conf, bad |-> bad]
  BY DEF Pages!Loads
<1>4. bad \in BOOLEAN
  OBVIOUS
<1> HIDE DEF bad, conf
<1>5. QED
  BY <1>2, <1>3, <1>4

LEMMA SavedIsRead ==
  ASSUME NEW c, IsConfig(c), Pages!Valid(c)
  PROVE  /\ IsFile(Pages!File("ok", c))
         /\ Pages!Loads(Pages!File("ok", c)).conf = c
         /\ ~Pages!Loads(Pages!File("ok", c)).bad
<1>1. Pages!FromEntries(c) = c
  BY ConfigIsRead
<1>2. QED
  BY <1>1 DEF Pages!File, Pages!Loads, IsFile, IsConfig

LEMMA LoadFileKeeps ==
  ASSUME IsFile(file), Pages!LoadFile
  PROVE  /\ IsFile(file)' /\ IsConfig(Pages!Loads(file).conf) /\ Pages!Loads(file).bad \in BOOLEAN
         /\ Pages!Loads(file').conf = Pages!Loads(file).conf
         /\ Pages!Loads(file').bad => Pages!Loads(file).bad
         /\ backup \in BOOLEAN => backup' \in BOOLEAN
<1>1. CASE Pages!MovedAside(file) /\ file' = Pages!Missing /\ backup' = TRUE
  <2>1. Pages!Loads(file).conf = <<>>
    BY <1>1, LoadsGood DEF Pages!MovedAside
  <2>2. IsFile(file)'
    BY <1>1, NothingIsRead DEF IsFile
  <2>3. QED
    BY <1>1, <2>1, <2>2, LoadsGood, NothingIsRead
<1>2. CASE UNCHANGED <<file, backup>>
  BY <1>2, LoadsGood DEF IsFile
<1>3. QED
  BY <1>1, <1>2 DEF Pages!LoadFile, Pages!fileVars

(* Reading the file again shows what is shown.                                 *)
LEMMA ReloadKeeps ==
  ASSUME IsFile(file), IsConfig(config), ShownIsFile, Pages!LossIsTold,
         backup \in BOOLEAN, loadError \in BOOLEAN, Pages!ReloadUnlessDirty
  PROVE  /\ IsFile(file)' /\ config' = config
         /\ Pages!Loads(file').conf = Pages!Loads(file).conf
         /\ Pages!LossIsTold'
         /\ backup' \in BOOLEAN /\ loadError' \in BOOLEAN
<1>1. CASE dirty
  BY <1>1 DEF Pages!ReloadUnlessDirty, Pages!fileVars, Pages!LossIsTold, IsFile
<1>2. CASE ~dirty
  <2>1. /\ config' = Pages!Loads(file).conf /\ loadError' = Pages!Loads(file).bad
        /\ Pages!LoadFile
    BY <1>2 DEF Pages!ReloadUnlessDirty
  <2>2. QED
    BY <1>2, <2>1, LoadFileKeeps DEF ShownIsFile, Pages!LossIsTold
<1>3. QED
  BY <1>1, <1>2


(* A new list of devices.                                                      *)
LEMMA ShowDevicesKeeps ==
  ASSUME PageTyped, NEW conf, NEW devs \in SUBSET Pages!Devices, Pages!ShowDevices(conf, devs)
  PROVE  /\ selected' \in Pages!Devices \cup {0} /\ row' \in Nat /\ editor' \in Editors
<1> DEFINE R == Pages!Rows(conf, devs)
<1>1. R \subseteq Pages!Devices /\ Pages!Devices \subseteq Nat
  <2>1. NumDevices \in Nat
    BY GuiAssumption DEF Pages!PagesAssumption
  <2>2. Pages!Devices \subseteq Nat
    BY <2>1 DEF Pages!Devices
  <2>3. QED
    BY <2>2 DEF Pages!Rows
<1>2. row' = 0 /\ selected' = Pages!Reselect(conf, devs)
  BY DEF Pages!ShowDevices
<1>3. Pages!Reselect(conf, devs) \in Pages!Devices \cup {0}
  <2>1. Pages!Reselect(conf, devs) =
          IF selected \in R THEN selected ELSE IF R = {} THEN 0 ELSE CHOOSE d \in R : \A e \in R : d <= e
    BY DEF Pages!Reselect
  <2> HIDE DEF R
  <2>2. CASE selected \in R \/ R = {}
    BY <1>1, <2>1, <2>2
  <2>3. CASE selected \notin R /\ R # {}
    <3>1. R \subseteq Nat
      BY <1>1
    <3>2. \E d \in R : \A e \in R : d <= e
      BY <2>3, <3>1, NatHasMin
    <3>3. (CHOOSE d \in R : \A e \in R : d <= e) \in R
      BY <3>2
    <3>4. QED
      BY <1>1, <2>1, <2>3, <3>3
  <2>4. QED
    BY <2>2, <2>3
<1>4. editor' = editor \/ editor' = [editor EXCEPT !.moved = TRUE]
  BY DEF Pages!ShowDevices
<1>5. editor' \in Editors
  BY <1>4 DEF PageTyped, Editors
<1>6. QED
  BY <1>2, <1>3, <1>5

(* A step that leaves the file, the engine and the edits alone.                *)
LEMMA ReadStays ==
  ASSUME PageInv, UNCHANGED <<config, dirty, kept, dropped, loaded, engine, late>>,
         Pages!Loads(file').conf = Pages!Loads(file).conf, Told => Told'
  PROVE  KeptAreThere' /\ ShownIsFile' /\ EngineHasRead'
<1>1. KeptAreThere'
  BY DEF PageInv, KeptAreThere
<1>2. ShownIsFile'
  BY DEF PageInv, ShownIsFile
<1>3. EngineHasRead'
  <2> SUFFICES ASSUME engine' = "up", ~late', ~Told' PROVE loaded' = Pages!Loads(file').conf
    BY DEF EngineHasRead
  <2>1. engine = "up" /\ ~late /\ ~Told
    OBVIOUS
  <2>2. QED
    BY <2>1 DEF PageInv, EngineHasRead
<1>4. QED
  BY <1>1, <1>2, <1>3

LEMMA LossStays ==
  ASSUME PageInv, UNCHANGED loadError, Pages!Loads(file').bad => Pages!Loads(file).bad
  PROVE  Pages!LossIsTold'
  BY DEF PageInv, Pages!LossIsTold

LEMMA InputCounts == inputs \in Nat /\ Pages!Input => inputs' \in Nat
  BY DEF Pages!Input

LEMMA FileStays == IsFile(file) /\ UNCHANGED file => IsFile(file)'
  BY DEF IsFile

LEMMA RequestsAre ==
  /\ Pages!Fetch \in Requests /\ Pages!Reload \in Requests
  /\ Pages!Reload.kind = "reload" /\ Pages!Reload.at = "sent"
  BY DEF Pages!Fetch, Pages!Reload, Requests

LEMMA PolledFits ==
  service \in {"stopped", "starting", "running"} => Pages!Polled \in {"stopped", "starting", "running"}
  BY DEF Pages!Polled

LEMMA PlugKeeps ==
  ASSUME PageInv, NEW d \in Pages!Devices, Pages!Plug(d)
  PROVE  PageInv'
<1>1. /\ UNCHANGED <<file, backup, engine, loaded, service, config, dirty, loadError, known, selected, row,
                     editor, jobs, kept, dropped, late>>
      /\ connected' = IF d \in connected THEN connected \ {d} ELSE connected \cup {d}
      /\ inputs' \in Nat
  BY InputCounts DEF Pages!Plug, Pages!fileVars, Pages!engineVars, Pages!pageVars, PageInv, PageTyped
<1>2. MachineFits'
  BY <1>1, FileStays DEF PageInv, MachineFits
<1>3. PageTyped'
  BY <1>1 DEF PageInv, PageTyped, IsConfig, OneEach
<1>4. Told => Told'
  BY <1>1 DEF Told
<1>5. QED
  BY <1>1, <1>2, <1>3, <1>4, ReadStays, LossStays DEF PageInv

LEMMA EngineKeeps ==
  ASSUME PageInv, Pages!EngineLoads \/ Pages!EngineCrashes \/ Pages!StartEngine
  PROVE  PageInv'
<1>1. CASE Pages!EngineLoads
  <2>1. /\ UNCHANGED <<connected, service, config, dirty, loadError, known, selected, row, editor, jobs, inputs,
                       kept, dropped>>
        /\ engine' = "up" /\ loaded' = Pages!Loads(file).conf /\ late' = FALSE /\ Pages!LoadFile
    BY <1>1 DEF Pages!EngineLoads, Pages!pageVars
  <2>2. /\ IsFile(file)' /\ IsConfig(Pages!Loads(file).conf)
        /\ Pages!Loads(file').conf = Pages!Loads(file).conf /\ backup' \in BOOLEAN
        /\ Pages!Loads(file').bad => Pages!Loads(file).bad
    BY <2>1, LoadFileKeeps DEF PageInv, MachineFits
  <2>3. MachineFits'
    BY <2>1, <2>2 DEF PageInv, MachineFits, IsConfig
  <2>4. PageTyped'
    BY <2>1 DEF PageInv, PageTyped, IsConfig, OneEach
  <2>5. KeptAreThere' /\ ShownIsFile' /\ EngineHasRead' /\ Pages!LossIsTold'
    BY <2>1, <2>2, LossStays DEF PageInv, KeptAreThere, ShownIsFile, EngineHasRead
  <2>6. QED
    BY <2>3, <2>4, <2>5 DEF PageInv
<1>2. CASE Pages!EngineCrashes \/ Pages!StartEngine
  <2>1. /\ UNCHANGED <<connected, file, backup, loaded, config, dirty, loadError, known, selected, row, editor,
                       jobs, kept, dropped, late>>
        /\ engine' \in {"down", "booting"} /\ service' \in {service, "starting"}
        /\ inputs' \in Nat
    BY <1>2, InputCounts DEF Pages!EngineCrashes, Pages!StartEngine, Pages!fileVars, Pages!pageVars, PageInv,
       PageTyped
  <2>2. MachineFits'
    BY <2>1, FileStays DEF PageInv, MachineFits
  <2>3. PageTyped'
    BY <2>1 DEF PageInv, PageTyped, IsConfig, OneEach
  <2>4. KeptAreThere' /\ ShownIsFile' /\ EngineHasRead' /\ Pages!LossIsTold'
    BY <2>1, LossStays DEF PageInv, KeptAreThere, ShownIsFile, EngineHasRead
  <2>5. QED
    BY <2>2, <2>3, <2>4 DEF PageInv
<1>3. QED
  BY <1>1, <1>2

LEMMA ServeKeeps ==
  ASSUME PageInv, NEW j \in jobs, Pages!Serve(j)
  PROVE  PageInv'
<1> DEFINE failed == [j EXCEPT !.at = "failed"]
           devs == connected \cup {d \in Pages!Devices : Pages!Has(loaded, d)}
           done == [j EXCEPT !.at = "done", !.devices = devs]
<1>1. UNCHANGED <<connected, engine, service, config, dirty, loadError, known, selected, row, editor, inputs,
                  kept, dropped, late>>
  BY DEF Pages!Serve, Pages!pageVars
<1>2. j \in Requests /\ j.at = "sent" /\ connected \subseteq Pages!Devices
  BY DEF PageInv, MachineFits, Pages!Serve
<1>3. /\ failed \in Requests /\ failed.at = "failed"
      /\ done \in Requests /\ done.at = "done"
  BY <1>2 DEF Requests
<1>4. PageTyped'
  BY <1>1 DEF PageInv, PageTyped, IsConfig, OneEach
<1>5. \/ /\ engine # "up" /\ jobs' = (jobs \ {j}) \cup {failed} /\ UNCHANGED <<file, backup, loaded>>
      \/ /\ engine = "up" /\ jobs' = (jobs \ {j}) \cup {done}
         /\ \/ j.kind = "reload" /\ Pages!LoadFile /\ loaded' = Pages!Loads(file).conf
            \/ j.kind # "reload" /\ UNCHANGED <<file, backup, loaded>>
  BY DEF Pages!Serve, Pages!fileVars
<1> HIDE DEF failed, done
<1>6. jobs' \subseteq Requests
  BY <1>3, <1>5 DEF PageInv, MachineFits
<1>7. CASE UNCHANGED <<file, backup, loaded>> /\ (engine # "up" \/ j.kind # "reload")
  <2>1. MachineFits'
    BY <1>1, <1>6, <1>7, FileStays DEF PageInv, MachineFits
  <2>2. CASE engine # "up"
    BY <1>1, <1>4, <1>7, <2>1, <2>2, LossStays
    DEF PageInv, KeptAreThere, ShownIsFile, EngineHasRead
  <2>3. CASE j.kind # "reload"
    <3>1. Told => Told'
      BY <1>5, <2>3 DEF Told
    <3>2. QED
      BY <1>1, <1>4, <1>7, <2>1, <3>1, ReadStays, LossStays DEF PageInv
  <2>4. QED
    BY <1>7, <2>2, <2>3
<1>8. CASE Pages!LoadFile /\ loaded' = Pages!Loads(file).conf
  <2>1. /\ IsFile(file)' /\ IsConfig(Pages!Loads(file).conf)
        /\ Pages!Loads(file').conf = Pages!Loads(file).conf /\ backup' \in BOOLEAN
        /\ Pages!Loads(file').bad => Pages!Loads(file).bad
    BY <1>8, LoadFileKeeps DEF PageInv, MachineFits
  <2>2. MachineFits'
    BY <1>1, <1>6, <1>8, <2>1 DEF PageInv, MachineFits, IsConfig
  <2>3. KeptAreThere' /\ ShownIsFile' /\ EngineHasRead' /\ Pages!LossIsTold'
    BY <1>1, <1>8, <2>1, LossStays DEF PageInv, KeptAreThere, ShownIsFile, EngineHasRead
  <2>4. QED
    BY <1>4, <2>2, <2>3 DEF PageInv
<1>9. QED
  BY <1>5, <1>7, <1>8

LEMMA RefreshKeeps ==
  ASSUME PageInv, NEW done, \A j \in done : j.at # "sent",
         NEW s \in {"stopped", "starting", "running"}, Pages!Refresh(done, s)
  PROVE  PageInv'
<1>1. /\ UNCHANGED <<connected, engine, loaded, dirty, inputs, kept, dropped, late>> /\ service' = s
      /\ Pages!ReloadUnlessDirty
  BY DEF Pages!Refresh
<1>2. /\ IsFile(file)' /\ config' = config /\ Pages!Loads(file').conf = Pages!Loads(file).conf
      /\ backup' \in BOOLEAN /\ loadError' \in BOOLEAN /\ Pages!LossIsTold'
  BY <1>1, ReloadKeeps DEF PageInv, MachineFits, PageTyped
<1>3. jobs' = jobs \ done \/ jobs' = (jobs \ done) \cup {Pages!Fetch}
  BY DEF Pages!Refresh
<1>4. jobs' \subseteq Requests
  BY <1>3, RequestsAre DEF PageInv, MachineFits
<1>5. Told => Told'
  BY <1>3 DEF Told
<1>6. MachineFits'
  BY <1>1, <1>2, <1>4 DEF PageInv, MachineFits
<1>7. /\ known' \subseteq Pages!Devices
      /\ selected' \in Pages!Devices \cup {0} /\ row' \in Nat /\ editor' \in Editors
  <2>1. CASE s = "running"
    BY <2>1 DEF Pages!Refresh, PageInv, PageTyped
  <2>2. CASE s # "running"
    <3>1. known' = {} /\ Pages!ShowDevices(config', {})
      BY <2>2 DEF Pages!Refresh
    <3>2. PageTyped /\ {} \in SUBSET Pages!Devices
      BY DEF PageInv
    <3>3. QED
      BY <3>1, <3>2, ShowDevicesKeeps
  <2>3. QED
    BY <2>1, <2>2
<1>8. PageTyped'
  BY <1>1, <1>2, <1>7 DEF PageInv, PageTyped, IsConfig, OneEach
<1>9. KeptAreThere' /\ ShownIsFile' /\ EngineHasRead' /\ Pages!LossIsTold'
  BY <1>1, <1>2, <1>5, ReadStays
<1>10. QED
  BY <1>6, <1>8, <1>9 DEF PageInv

LEMMA AnswersKeep ==
  ASSUME PageInv,
         \/ Pages!UserReload \/ Pages!OnStarted \/ Pages!OnStartFailed
         \/ \E j \in jobs : Pages!OnReloaded(j) \/ Pages!OnFetched(j)
  PROVE  PageInv'
<1>1. Pages!Polled \in {"stopped", "starting", "running"}
  BY PolledFits DEF PageInv, MachineFits
<1>2. CASE Pages!UserReload
  BY <1>1, <1>2, RefreshKeeps DEF Pages!UserReload
<1>3. CASE Pages!OnStarted
  BY <1>3, RefreshKeeps DEF Pages!OnStarted
<1>4. CASE Pages!OnStartFailed
  <2>1. /\ UNCHANGED <<connected, file, backup, loaded, config, dirty, loadError, jobs, kept, dropped, late>>
        /\ service' = "stopped" /\ engine' = "down" /\ known' = {}
        /\ Pages!ShowDevices(config, {}) /\ inputs' \in Nat
    BY <1>4, InputCounts DEF Pages!OnStartFailed, Pages!fileVars, PageInv, PageTyped
  <2>2. MachineFits'
    BY <2>1, FileStays DEF PageInv, MachineFits
  <2>3. selected' \in Pages!Devices \cup {0} /\ row' \in Nat /\ editor' \in Editors
    <3>1. PageTyped /\ {} \in SUBSET Pages!Devices
      BY DEF PageInv
    <3>2. QED
      BY <2>1, <3>1, ShowDevicesKeeps
  <2>4. PageTyped'
    BY <2>1, <2>3 DEF PageInv, PageTyped, IsConfig, OneEach
  <2>5. KeptAreThere' /\ ShownIsFile' /\ EngineHasRead' /\ Pages!LossIsTold'
    BY <2>1, LossStays DEF PageInv, KeptAreThere, ShownIsFile, EngineHasRead
  <2>6. QED
    BY <2>2, <2>4, <2>5 DEF PageInv
<1>5. ASSUME NEW j \in jobs, Pages!OnReloaded(j) PROVE PageInv'
  <2>1. \A k \in {j} : k.at # "sent"
    BY <1>5 DEF Pages!OnReloaded
  <2>2. QED
    BY <1>1, <1>5, <2>1, RefreshKeeps DEF Pages!OnReloaded
<1>6. ASSUME NEW j \in jobs, Pages!OnFetched(j) PROVE PageInv'
  <2>1. /\ UNCHANGED <<connected, file, backup, engine, loaded, service, config, dirty, loadError, inputs, kept, dropped,
                       late>>
        /\ j.at # "sent" /\ known' = j.devices /\ Pages!ShowDevices(config, j.devices) /\ jobs' = jobs \ {j}
    BY <1>6 DEF Pages!OnFetched, Pages!fileVars, Pages!engineVars
  <2>2. j.devices \in SUBSET Pages!Devices
    BY DEF PageInv, MachineFits, Requests
  <2>3. MachineFits'
    BY <2>1, FileStays DEF PageInv, MachineFits
  <2>4. selected' \in Pages!Devices \cup {0} /\ row' \in Nat /\ editor' \in Editors
    BY <2>1, <2>2, ShowDevicesKeeps DEF PageInv
  <2>5. PageTyped'
    BY <2>1, <2>2, <2>4 DEF PageInv, PageTyped, IsConfig, OneEach
  <2>6. Told => Told'
    BY <2>1 DEF Told
  <2>7. QED
    BY <2>1, <2>3, <2>5, <2>6, ReadStays, LossStays DEF PageInv
<1>7. QED
  BY <1>2, <1>3, <1>4, <1>5, <1>6

LEMMA SaveKeeps ==
  ASSUME PageInv, Pages!Save
  PROVE  PageInv'
<1>1. /\ UNCHANGED <<backup, connected, engine, loaded, config, known, selected, row, editor, inputs, kept,
                 dropped>>
      /\ Pages!Valid(config) /\ file' = Pages!File("ok", config) /\ dirty' = FALSE /\ loadError' = FALSE
      /\ service' = Pages!Polled
      /\ jobs' = IF Pages!Polled = "running" THEN jobs \cup {Pages!Reload} ELSE jobs
      /\ late' = (late \/ (Pages!Polled # "running" /\ engine = "up"))
  BY DEF Pages!Save
<1>2. IsFile(file') /\ Pages!Loads(file').conf = config /\ ~Pages!Loads(file').bad
  BY <1>1, SavedIsRead DEF PageInv, PageTyped
<1>3. Pages!Polled \in {"stopped", "starting", "running"}
  BY PolledFits DEF PageInv, MachineFits
<1>4. IsFile(file)' /\ jobs' \subseteq Requests /\ late' \in BOOLEAN
  BY <1>1, <1>2, RequestsAre DEF IsFile, PageInv, MachineFits
<1>5. MachineFits'
  BY <1>1, <1>3, <1>4 DEF PageInv, MachineFits
<1>6. PageTyped'
  BY <1>1 DEF PageInv, PageTyped, IsConfig, OneEach
<1>7. KeptAreThere' /\ ShownIsFile' /\ Pages!LossIsTold'
  BY <1>1, <1>2 DEF PageInv, KeptAreThere, ShownIsFile, Pages!LossIsTold
<1>8. EngineHasRead'
  <2> SUFFICES ASSUME engine' = "up", ~late', ~Told' PROVE FALSE
    BY DEF EngineHasRead
  <2>1. Pages!Polled = "running"
    BY <1>1
  <2>2. Pages!Reload \in jobs'
    BY <1>1, <2>1
  <2>3. QED
    BY <2>2, RequestsAre DEF Told
<1>9. QED
  BY <1>5, <1>6, <1>7, <1>8 DEF PageInv


(* The macros of one device of a configuration.                                *)
LEMMA MacrosOfFit ==
  ASSUME NEW c, IsConfig(c), NEW d
  PROVE  /\ Pages!MacrosOf(c, d) \in Seq(Pages!Macros)
         /\ Pages!Has(c, d) => \E i \in DOMAIN c : c[i].device = d /\ Pages!MacrosOf(c, d) = c[i].macros
<1>1. CASE Pages!Has(c, d)
  <2>1. PICK i \in DOMAIN c : c[i].device = d
    BY <1>1 DEF Pages!Has
  <2>2. Pages!MacrosOf(c, d) = c[i].macros
    BY <2>1, EntryIsOne
  <2>3. c[i] \in Pages!Entries
    BY DEF IsConfig
  <2>4. QED
    BY <2>1, <2>2, <2>3, EntryHas
<1>2. CASE ~Pages!Has(c, d)
  BY <1>2 DEF Pages!MacrosOf
<1>3. QED
  BY <1>1, <1>2

(* The macros of a device are replaced: those of the others stay, and so do    *)
(* the device's that are in the new list.                                      *)
LEMMA WithMacrosFits ==
  ASSUME IsConfig(config), NEW d \in Pages!Devices, NEW ms \in Seq(Pages!Macros), NEW K,
         K \subseteq Pages!AllIds(config),
         \A n \in K : n \in Pages!IdsOf(Pages!MacrosOf(config, d)) => n \in Pages!IdsOf(ms)
  PROVE  LET r == Pages!WithMacros(d, ms)
         IN /\ IsConfig(r)
            /\ K \cup Pages!IdsOf(ms) \subseteq Pages!AllIds(r)
<1> DEFINE r == Pages!WithMacros(d, ms)
<1>1. \A i \in DOMAIN config : config[i] \in Pages!Entries
  BY DEF IsConfig
<1>2. CASE Pages!Has(config, d)
  <2>1. r = [i \in DOMAIN config |-> IF config[i].device = d THEN [config[i] EXCEPT !.macros = ms]
                                     ELSE config[i]]
    BY <1>2 DEF Pages!WithMacros
  <2>2. /\ DOMAIN r = DOMAIN config /\ r = [i \in DOMAIN config |-> r[i]]
        /\ \A i \in DOMAIN config :
             r[i] = IF config[i].device = d THEN [config[i] EXCEPT !.macros = ms] ELSE config[i]
    BY <2>1
  <2> HIDE DEF r
  <2>3. \A i \in DOMAIN config : /\ r[i] \in Pages!Entries /\ r[i].device = config[i].device
                                 /\ config[i].device = d => r[i].macros = ms
                                 /\ config[i].device # d => r[i].macros = config[i].macros
    BY <1>1, <2>2, EntryHas
  <2>4. IsConfig(r)
    BY <2>2, <2>3, ReplacedConfig
  <2>5. PICK i \in DOMAIN config : config[i].device = d /\ Pages!MacrosOf(config, d) = config[i].macros
    BY <1>2, MacrosOfFit
  <2>6. Pages!IdsOf(ms) \subseteq Pages!AllIds(r)
    BY <2>2, <2>3, <2>5 DEF Pages!AllIds
  <2>7. ASSUME NEW n \in K PROVE n \in Pages!AllIds(r)
    <3>1. PICK k \in DOMAIN config : n \in Pages!IdsOf(config[k].macros)
      BY DEF Pages!AllIds
    <3>2. CASE config[k].device = d
      <4>1. k = i
        BY <2>5, <3>2 DEF IsConfig, OneEach
      <4>2. QED
        BY <2>5, <2>6, <3>1, <4>1
    <3>3. CASE config[k].device # d
      BY <2>2, <2>3, <3>1, <3>3 DEF Pages!AllIds
    <3>4. QED
      BY <3>2, <3>3
  <2>8. QED
    BY <2>4, <2>6, <2>7 DEF r
<1>3. CASE ~Pages!Has(config, d)
  <2> DEFINE e == [device |-> d, macros |-> ms]
  <2>1. e \in Pages!Entries /\ e.device = d /\ e.macros = ms
    BY DEF Pages!Entries
  <2>2. r = Append(config, e)
    BY <1>3 DEF Pages!WithMacros
  <2> HIDE DEF e, r
  <2>3. /\ IsConfig(r) /\ Pages!Has(r, e.device) /\ Len(config) \in Nat
        /\ Len(r) = Len(config) + 1 /\ r[Len(config) + 1] = e
        /\ \A i \in DOMAIN config : i \in DOMAIN r /\ r[i] = config[i]
    BY <1>3, <2>1, <2>2, AppendedConfig DEF IsConfig
  <2>4. Len(config) + 1 \in DOMAIN r
    BY <2>3 DEF IsConfig
  <2>5. Pages!IdsOf(ms) \subseteq Pages!AllIds(r)
    BY <2>1, <2>3, <2>4 DEF Pages!AllIds
  <2>6. Pages!AllIds(config) \subseteq Pages!AllIds(r)
    BY <2>3 DEF Pages!AllIds
  <2>7. QED
    BY <2>3, <2>5, <2>6 DEF r
<1>4. QED
  BY <1>2, <1>3

(* The lists the edits make of the macros of a device.                         *)
LEMMA AddedMacro ==
  ASSUME NEW ms \in Seq(Pages!Macros), NEW m \in Pages!Macros
  PROVE  /\ Append(ms, m) \in Seq(Pages!Macros)
         /\ Pages!IdsOf(ms) \cup {m.id} \subseteq Pages!IdsOf(Append(ms, m))
<1> DEFINE r == Append(ms, m)
<1>1. /\ r \in Seq(Pages!Macros) /\ Len(ms) \in Nat /\ Len(r) = Len(ms) + 1 /\ r[Len(ms) + 1] = m
      /\ DOMAIN ms = 1..Len(ms) /\ DOMAIN r = 1..(Len(ms) + 1)
      /\ \A i \in 1..Len(ms) : r[i] = ms[i]
  OBVIOUS
<1> HIDE DEF r
<1>2. Len(ms) + 1 \in DOMAIN r /\ \A i \in DOMAIN ms : i \in DOMAIN r /\ r[i] = ms[i]
  BY <1>1
<1>3. Pages!IdsOf(ms) \cup {m.id} \subseteq Pages!IdsOf(r)
  BY <1>1, <1>2 DEF Pages!IdsOf
<1>4. QED
  BY <1>1, <1>3 DEF r

LEMMA ReplacedMacro ==
  ASSUME NEW ms \in Seq(Pages!Macros), NEW i \in DOMAIN ms, NEW m \in Pages!Macros
  PROVE  LET r == [ms EXCEPT ![i] = m]
         IN /\ r \in Seq(Pages!Macros)
            /\ m.id \in Pages!IdsOf(r)
            /\ Pages!IdsOf(ms) \ {ms[i].id} \subseteq Pages!IdsOf(r)
<1> DEFINE r == [ms EXCEPT ![i] = m]
<1>1. r \in Seq(Pages!Macros) /\ DOMAIN r = DOMAIN ms /\ r[i] = m
  OBVIOUS
<1>2. \A k \in DOMAIN ms : k # i => r[k] = ms[k]
  OBVIOUS
<1> HIDE DEF r
<1>3. m.id \in Pages!IdsOf(r)
  BY <1>1 DEF Pages!IdsOf
<1>4. Pages!IdsOf(ms) \ {ms[i].id} \subseteq Pages!IdsOf(r)
  BY <1>1, <1>2 DEF Pages!IdsOf
<1>5. QED
  BY <1>1, <1>3, <1>4 DEF r

LEMMA RemovedMacro ==
  ASSUME NEW ms \in Seq(Pages!Macros), NEW i \in DOMAIN ms
  PROVE  LET r == Pages!RemoveAt(ms, i)
         IN /\ r \in Seq(Pages!Macros)
            /\ Pages!IdsOf(ms) \ {ms[i].id} \subseteq Pages!IdsOf(r)
<1> DEFINE a == SubSeq(ms, 1, i - 1)
           b == SubSeq(ms, i + 1, Len(ms))
           r == a \o b
<1>1. Len(ms) \in Nat /\ DOMAIN ms = 1..Len(ms) /\ i \in 1..Len(ms)
  OBVIOUS
<1>2. /\ a \in Seq(Pages!Macros) /\ Len(a) = i - 1 /\ \A k \in 1..(i - 1) : a[k] = ms[k]
  BY <1>1, SubSeqProperties
<1>3. /\ b \in Seq(Pages!Macros) /\ Len(b) = Len(ms) - i /\ \A k \in 1..(Len(ms) - i) : b[k] = ms[i + k]
  BY <1>1, SubSeqProperties
<1> HIDE DEF a, b
<1>4. /\ r \in Seq(Pages!Macros) /\ Len(r) = Len(a) + Len(b)
      /\ \A k \in 1..Len(a) : r[k] = a[k]
      /\ \A k \in 1..Len(b) : r[Len(a) + k] = b[k]
  <2>1. /\ r \in Seq(Pages!Macros) /\ Len(r) = Len(a) + Len(b) /\ Len(a) \in Nat /\ Len(b) \in Nat
        /\ \A k \in 1..(Len(a) + Len(b)) : r[k] = IF k <= Len(a) THEN a[k] ELSE b[k - Len(a)]
    <3>1. a \in Seq(Pages!Macros) /\ b \in Seq(Pages!Macros)
      BY <1>2, <1>3
    <3>2. Len(a) \in Nat /\ Len(b) \in Nat
      BY <3>1
    <3>3. QED
      BY <3>1, <3>2, ConcatProperties
  <2>2. \A k \in 1..Len(b) : /\ Len(a) + k \in 1..(Len(a) + Len(b)) /\ ~(Len(a) + k <= Len(a))
                             /\ (Len(a) + k) - Len(a) = k
    BY <2>1
  <2>3. \A k \in 1..Len(a) : k \in 1..(Len(a) + Len(b)) /\ k <= Len(a)
    BY <2>1
  <2> HIDE DEF r
  <2>4. QED
    BY <2>1, <2>2, <2>3
<1>5. Pages!RemoveAt(ms, i) = r
  BY <1>1 DEF Pages!RemoveAt, a, b
<1> HIDE DEF r
<1>6. ASSUME NEW k \in 1..Len(ms), k # i PROVE \E n \in DOMAIN r : r[n] = ms[k]
  <2>1. DOMAIN r = 1..(Len(ms) - 1)
    BY <1>1, <1>2, <1>3, <1>4
  <2>2. CASE k < i
    <3>1. k \in 1..Len(a) /\ k \in DOMAIN r
      BY <1>1, <1>2, <2>1, <2>2
    <3>2. QED
      BY <1>2, <1>4, <3>1
  <2>3. CASE k > i
    <3>1. k - i \in 1..Len(b) /\ Len(a) + (k - i) \in DOMAIN r /\ i + (k - i) = k
          /\ k - i \in 1..(Len(ms) - i)
      BY <1>1, <1>2, <1>3, <2>1, <2>3
    <3>2. r[Len(a) + (k - i)] = b[k - i] /\ b[k - i] = ms[i + (k - i)]
      BY <1>3, <1>4, <3>1
    <3>3. QED
      BY <3>1, <3>2
  <2>4. k < i \/ k > i
    BY <1>1, <1>6
  <2>5. QED
    BY <2>2, <2>3, <2>4
<1>7. Pages!IdsOf(ms) \ {ms[i].id} \subseteq Pages!IdsOf(r)
  BY <1>1, <1>6 DEF Pages!IdsOf
<1>8. QED
  BY <1>4, <1>5, <1>7

(* The edits.                                                                  *)
LEMMA EditedKeeps ==
  ASSUME PageInv, NEW conf, IsConfig(conf), Pages!Edited(conf), kept' \ dropped \subseteq Pages!AllIds(conf),
         row' \in Nat, editor' \in Editors, inputs' \in Nat
  PROVE  PageInv'
<1>1. /\ UNCHANGED <<connected, file, backup, engine, loaded, service, loadError, known, selected, jobs,
                     dropped, late>>
      /\ config' = conf /\ dirty' = TRUE
  BY DEF Pages!Edited, Pages!fileVars, Pages!engineVars
<1>2. MachineFits'
  BY <1>1, FileStays DEF PageInv, MachineFits
<1>3. PageTyped'
  BY <1>1 DEF PageInv, PageTyped, IsConfig, OneEach
<1>4. Told => Told'
  BY <1>1 DEF Told
<1>5. KeptAreThere' /\ ShownIsFile' /\ EngineHasRead' /\ Pages!LossIsTold'
  BY <1>1, <1>4, LossStays DEF PageInv, KeptAreThere, ShownIsFile, EngineHasRead
<1>6. QED
  BY <1>2, <1>3, <1>5 DEF PageInv

LEMMA NoEditorFits == Pages!NoEditor \in Editors
  BY DEF Pages!NoEditor, Editors

(* Steps that change nothing but the editor and what is selected.              *)
LEMMA LookingKeepsPage ==
  ASSUME PageInv,
         UNCHANGED <<connected, file, backup, engine, loaded, service, config, dirty, loadError, known, jobs,
                     kept, dropped, late>>,
         selected' \in Pages!Devices \cup {0}, row' \in Nat, editor' \in Editors, inputs' \in Nat
  PROVE  PageInv'
<1>1. MachineFits'
  BY FileStays DEF PageInv, MachineFits
<1>2. PageTyped'
  BY DEF PageInv, PageTyped, IsConfig, OneEach
<1>3. Told => Told'
  BY DEF Told
<1>4. QED
  BY <1>1, <1>2, <1>3, ReadStays, LossStays DEF PageInv

LEMMA SelectKeeps ==
  ASSUME PageInv, NEW d \in Pages!Devices, NEW r \in 0..3, Pages!Select(d, r)
  PROVE  PageInv'
  BY LookingKeepsPage DEF Pages!Select, Pages!fileVars, Pages!engineVars, PageInv, PageTyped

LEMMA OpenEditorKeeps ==
  ASSUME PageInv, NEW r \in Nat, NEW id \in Nat, Pages!OpenEditor(r, id)
  PROVE  PageInv'
<1> DEFINE ms == Pages!MacrosOf(config, selected)
           taken == {ms[i].trigger : i \in (DOMAIN ms) \ {r}}
<1>1. /\ UNCHANGED <<connected, file, backup, engine, loaded, service, config, dirty, loadError, known, selected,
                     row, jobs, kept, dropped, late>>
      /\ selected # 0 /\ inputs' \in Nat
      /\ editor' = [device |-> selected, row |-> r, id |-> id, moved |-> FALSE, taken |-> taken]
  BY InputCounts DEF Pages!OpenEditor, Pages!fileVars, Pages!engineVars, Pages!pageVars, PageInv, PageTyped
<1>2. ms \in Seq(Pages!Macros)
  BY MacrosOfFit DEF PageInv, PageTyped
<1> HIDE DEF ms
<1>3. taken \in SUBSET MacroTriggers
  <2>1. \A i \in DOMAIN ms : ms[i] \in Pages!Macros
    BY <1>2
  <2>2. \A i \in DOMAIN ms : ms[i].trigger \in MacroTriggers
    BY <2>1 DEF Pages!Macros
  <2>3. QED
    BY <2>2
<1> HIDE DEF taken
<1>4. editor' \in Editors
  BY <1>1, <1>3 DEF Editors, PageInv, PageTyped
<1>5. QED
  BY <1>1, <1>4, LookingKeepsPage DEF PageInv, PageTyped

LEMMA OpenKeeps ==
  ASSUME PageInv, Pages!AddMacro \/ Pages!EditMacro
  PROVE  PageInv'
<1>1. CASE Pages!AddMacro
  BY <1>1, OpenEditorKeeps DEF Pages!AddMacro, PageInv, PageTyped
<1>2. CASE Pages!EditMacro
  <2> DEFINE ms == Pages!MacrosOf(config, selected)
  <2>1. ms \in Seq(Pages!Macros) /\ row \in DOMAIN ms /\ Pages!OpenEditor(row, ms[row].id)
    BY <1>2, MacrosOfFit DEF Pages!EditMacro, PageInv, PageTyped
  <2> HIDE DEF ms
  <2>2. row \in Nat /\ ms[row].id \in Nat
    <3>1. row \in Nat /\ ms[row] \in Pages!Macros
      BY <2>1
    <3>2. QED
      BY <3>1 DEF Pages!Macros
  <2>3. QED
    BY <2>1, <2>2, OpenEditorKeeps
<1>3. QED
  BY <1>1, <1>2

(* The row the open editor was opened for is there, with its macro in it, as   *)
(* long as the editor is open; a new macro has none.                           *)
RowHolds ==
    /\ {"moved", "row", "device", "id"} \subseteq DOMAIN editor
    /\ editor # Pages!NoEditor => editor.device # 0
    /\ editor.row # 0 =>
         LET ms == Pages!MacrosOf(config, editor.device)
         IN /\ ~editor.moved /\ Pages!Has(config, editor.device)
            /\ editor.row \in DOMAIN ms /\ ms[editor.row].id = editor.id

(* The open editor is over the device that is selected, or its device left the *)
(* list since it was opened.                                                   *)
EditorFollows ==
    /\ "moved" \in DOMAIN editor
    /\ editor = Pages!NoEditor \/ selected = editor.device \/ editor.moved

LEMMA EditorDoneKeeps ==
  ASSUME PageInv, EditorFollows, RowHolds, NEW t \in MacroTriggers, Pages!EditorDone(t)
  PROVE  PageInv'
<1> DEFINE ms == Pages!MacrosOf(config, selected)
           m == [id |-> editor.id, trigger |-> t, ok |-> TRUE]
           safe == kept \ dropped
<1>1. /\ UNCHANGED inputs /\ editor' = Pages!NoEditor /\ editor # Pages!NoEditor
      /\ kept' = kept \cup {editor.id}
      /\ \/ /\ selected # 0
            /\ Pages!Edited(Pages!WithMacros(selected, Append(ms, m)))
            /\ row' = Len(ms) + 1
         \/ /\ selected # 0 /\ editor.row \in DOMAIN ms
            /\ Pages!Edited(Pages!WithMacros(selected, [ms EXCEPT ![editor.row] = m]))
            /\ row' = editor.row
         \/ /\ dropped' = dropped \cup {editor.id}
            /\ UNCHANGED <<connected, file, backup, engine, loaded, service, config, dirty, loadError,
                           known, selected, row, jobs, late>>
  BY DEF Pages!EditorDone, Pages!fileVars, Pages!engineVars, Pages!pageVars
<1>2. /\ IsConfig(config) /\ safe \subseteq Pages!AllIds(config) /\ selected \in Pages!Devices \cup {0}
      /\ inputs' \in Nat /\ editor' \in Editors /\ editor.id \in Nat /\ editor.row \in Nat /\ row \in Nat
  BY <1>1, NoEditorFits DEF PageInv, PageTyped, KeptAreThere, Editors
<1>3. ms \in Seq(Pages!Macros) /\ m \in Pages!Macros /\ m.id = editor.id
  BY <1>2, MacrosOfFit DEF Pages!Macros
<1>4. kept' \ dropped \subseteq safe \cup {m.id}
  BY <1>1, <1>3
<1> HIDE DEF m
<1>5. CASE /\ selected # 0
           /\ Pages!Edited(Pages!WithMacros(selected, Append(ms, m)))
           /\ row' = Len(ms) + 1
  <2>1. Append(ms, m) \in Seq(Pages!Macros) /\ Pages!IdsOf(ms) \cup {m.id} \subseteq Pages!IdsOf(Append(ms, m))
    BY <1>3, AddedMacro
  <2>2. /\ IsConfig(Pages!WithMacros(selected, Append(ms, m)))
        /\ safe \cup Pages!IdsOf(Append(ms, m)) \subseteq Pages!AllIds(Pages!WithMacros(selected, Append(ms, m)))
    BY <1>2, <1>5, <2>1, WithMacrosFits
  <2>3. row' \in Nat
    BY <1>3, <1>5
  <2> HIDE DEF safe
  <2>4. kept' \ dropped \subseteq Pages!AllIds(Pages!WithMacros(selected, Append(ms, m)))
    BY <1>4, <2>1, <2>2
  <2>5. QED
    BY <1>2, <1>5, <2>2, <2>3, <2>4, EditedKeeps
<1>6. CASE /\ selected # 0 /\ editor.row \in DOMAIN ms
           /\ Pages!Edited(Pages!WithMacros(selected, [ms EXCEPT ![editor.row] = m]))
           /\ row' = editor.row
  <2> DEFINE new == [ms EXCEPT ![editor.row] = m]
             K == safe \ {m.id}
  <2>1. /\ new \in Seq(Pages!Macros) /\ m.id \in Pages!IdsOf(new)
        /\ Pages!IdsOf(ms) \ {ms[editor.row].id} \subseteq Pages!IdsOf(new)
    BY <1>3, <1>6, ReplacedMacro
  <2>2. ms[editor.row].id = m.id
    <3>1. editor.row # 0
      BY <1>3, <1>6
    <3>2. selected = editor.device
      BY <1>1, <3>1 DEF EditorFollows, RowHolds
    <3>3. QED
      BY <1>3, <3>1, <3>2 DEF RowHolds
  <2>3. \A n \in K : n \in Pages!IdsOf(ms) => n \in Pages!IdsOf(new)
    BY <2>1, <2>2
  <2>4. K \subseteq Pages!AllIds(config) /\ safe \cup {m.id} = K \cup {m.id}
    BY <1>2
  <2>5. Pages!Edited(Pages!WithMacros(selected, new)) /\ row' \in Nat
    BY <1>2, <1>6
  <2> HIDE DEF new, K, safe
  <2>6. /\ IsConfig(Pages!WithMacros(selected, new))
        /\ K \cup Pages!IdsOf(new) \subseteq Pages!AllIds(Pages!WithMacros(selected, new))
    BY <1>2, <1>6, <2>1, <2>3, <2>4, WithMacrosFits
  <2>7. kept' \ dropped \subseteq Pages!AllIds(Pages!WithMacros(selected, new))
    BY <1>4, <2>1, <2>4, <2>6
  <2>8. QED
    BY <1>2, <2>5, <2>6, <2>7, EditedKeeps
<1>7. CASE /\ dropped' = dropped \cup {editor.id}
           /\ UNCHANGED <<connected, file, backup, engine, loaded, service, config, dirty, loadError,
                          known, selected, row, jobs, late>>
  <2>1. MachineFits'
    BY <1>7, FileStays DEF PageInv, MachineFits
  <2>2. PageTyped'
    BY <1>2, <1>7 DEF PageInv, PageTyped, IsConfig, OneEach
  <2>3. KeptAreThere'
    <3>1. kept' \ dropped' \subseteq safe
      BY <1>1, <1>7
    <3>2. QED
      BY <1>2, <1>7, <3>1 DEF KeptAreThere
  <2>4. ShownIsFile' /\ EngineHasRead' /\ Pages!LossIsTold'
    BY <1>7, LossStays DEF PageInv, ShownIsFile, EngineHasRead, Told
  <2>5. QED
    BY <2>1, <2>2, <2>3, <2>4 DEF PageInv
<1>8. QED
  BY <1>1, <1>5, <1>6, <1>7

LEMMA OtherEditsKeep ==
  ASSUME PageInv, Pages!EditorCancelled \/ Pages!ToggleMacro
  PROVE  PageInv'
<1>1. CASE Pages!EditorCancelled
  BY <1>1, NoEditorFits, LookingKeepsPage DEF Pages!EditorCancelled, Pages!fileVars, Pages!engineVars,
     Pages!pageVars, PageInv, PageTyped
<1>2. CASE Pages!ToggleMacro
  <2>1. Pages!Edited(config) /\ UNCHANGED <<row, editor, kept>> /\ inputs' \in Nat
    BY <1>2, InputCounts DEF Pages!ToggleMacro, PageInv, PageTyped
  <2>2. QED
    BY <2>1, EditedKeeps DEF PageInv, PageTyped, KeptAreThere
<1>3. QED
  BY <1>1, <1>2

LEMMA DeleteMacroKeeps ==
  ASSUME PageInv, Pages!DeleteMacro
  PROVE  PageInv'
<1> DEFINE ms == Pages!MacrosOf(config, selected)
           new == Pages!RemoveAt(ms, row)
           K == (kept \ dropped) \ {ms[row].id}
<1>1. /\ UNCHANGED editor /\ inputs' \in Nat /\ row \in DOMAIN ms
      /\ Pages!Edited(Pages!WithMacros(selected, new))
      /\ row' = IF row < Len(ms) THEN row ELSE Len(ms) - 1
      /\ kept' = kept \ {ms[row].id}
  BY InputCounts DEF Pages!DeleteMacro, PageInv, PageTyped
<1>2. IsConfig(config) /\ kept \ dropped \subseteq Pages!AllIds(config) /\ editor' \in Editors
      /\ selected \in Pages!Devices \cup {0}
  BY <1>1 DEF PageInv, PageTyped, KeptAreThere
<1>3. ms \in Seq(Pages!Macros)
  BY <1>2, MacrosOfFit
<1>4. selected # 0
  <2>1. SUFFICES ASSUME selected = 0 PROVE FALSE
    OBVIOUS
  <2>2. ~Pages!Has(config, 0)
    <3>1. \A i \in DOMAIN config : config[i] \in Pages!Entries
      BY <1>2 DEF IsConfig
    <3>2. \A i \in DOMAIN config : config[i].device \in Pages!Devices
      BY <3>1, EntryHas
    <3>3. 0 \notin Pages!Devices
      BY GuiAssumption DEF Pages!PagesAssumption, Pages!Devices
    <3>4. QED
      BY <3>2, <3>3 DEF Pages!Has
  <2>3. ms = <<>>
    BY <2>1, <2>2 DEF Pages!MacrosOf
  <2>4. QED
    BY <1>1, <2>3
<1>5. row' \in Nat
  <2>1. row \in 1..Len(ms) /\ Len(ms) \in Nat
    BY <1>1, <1>3
  <2> HIDE DEF ms
  <2>2. QED
    BY <1>1, <2>1
<1>6. new \in Seq(Pages!Macros) /\ Pages!IdsOf(ms) \ {ms[row].id} \subseteq Pages!IdsOf(new)
  BY <1>1, <1>3, RemovedMacro
<1>7. K \subseteq Pages!AllIds(config) /\ \A n \in K : n \in Pages!IdsOf(ms) => n \in Pages!IdsOf(new)
  BY <1>2, <1>6
<1>9. kept' \ dropped = K
  BY <1>1
<1> HIDE DEF new, K
<1>8. /\ IsConfig(Pages!WithMacros(selected, new))
      /\ K \cup Pages!IdsOf(new) \subseteq Pages!AllIds(Pages!WithMacros(selected, new))
  BY <1>2, <1>4, <1>6, <1>7, WithMacrosFits
<1>10. QED
  BY <1>1, <1>2, <1>5, <1>8, <1>9, EditedKeeps

-----------------------------------------------------------------------------
(* The macros page: the editor and the device it was opened over.              *)

LEMMA NobodyEdits == "moved" \in DOMAIN Pages!NoEditor
  BY DEF Pages!NoEditor

(* A new list: the selection stays on the editor's device, or the editor is    *)
(* told that it left.                                                          *)
LEMMA ShowDevicesFollows ==
  ASSUME EditorFollows, NEW conf, NEW devs, Pages!ShowDevices(conf, devs)
  PROVE  EditorFollows'
<1>1. CASE editor = Pages!NoEditor
  BY <1>1, NobodyEdits DEF Pages!ShowDevices, EditorFollows
<1>2. CASE editor # Pages!NoEditor /\ editor.device \in Pages!Rows(conf, devs)
  BY <1>2 DEF Pages!ShowDevices, Pages!Reselect, EditorFollows
<1>3. CASE editor # Pages!NoEditor /\ editor.device \notin Pages!Rows(conf, devs)
  <2>1. editor' = [editor EXCEPT !.moved = TRUE]
    BY <1>3 DEF Pages!ShowDevices
  <2>2. QED
    BY <2>1 DEF EditorFollows
<1>4. QED
  BY <1>1, <1>2, <1>3

LEMMA RefreshFollows ==
  ASSUME EditorFollows, NEW done, NEW s, Pages!Refresh(done, s)
  PROVE  EditorFollows'
<1>1. CASE s = "running"
  BY <1>1 DEF Pages!Refresh, EditorFollows, Pages!NoEditor
<1>2. CASE s # "running"
  BY <1>2, ShowDevicesFollows DEF Pages!Refresh
<1>3. QED
  BY <1>1, <1>2

LEMMA OpenEditorFollows ==
  ASSUME EditorFollows, NEW r, NEW id, Pages!OpenEditor(r, id)
  PROVE  EditorFollows'
  BY DEF Pages!OpenEditor, EditorFollows, Pages!pageVars

LEMMA EditorDoneFollows ==
  ASSUME EditorFollows, NEW t, Pages!EditorDone(t)
  PROVE  EditorFollows'
  BY NobodyEdits DEF Pages!EditorDone, EditorFollows

LEMMA FollowsKept == EditorFollows /\ Pages!Next => EditorFollows'
<1> SUFFICES ASSUME EditorFollows, Pages!Next PROVE EditorFollows'
  OBVIOUS
<1>1. CASE UNCHANGED <<selected, editor>>
  BY <1>1 DEF EditorFollows, Pages!NoEditor
<1>2. CASE \E d \in Pages!Devices : Pages!Plug(d)
  BY <1>1, <1>2 DEF Pages!Plug, Pages!pageVars
<1>3. CASE Pages!EngineLoads \/ Pages!EngineCrashes \/ Pages!StartEngine
  BY <1>1, <1>3 DEF Pages!EngineLoads, Pages!EngineCrashes, Pages!StartEngine, Pages!pageVars
<1>4. ASSUME NEW j \in jobs, Pages!Serve(j) PROVE EditorFollows'
  BY <1>1, <1>4 DEF Pages!Serve, Pages!pageVars
<1>5. ASSUME NEW j \in jobs, Pages!OnReloaded(j) PROVE EditorFollows'
  BY <1>5, RefreshFollows DEF Pages!OnReloaded
<1>6. ASSUME NEW j \in jobs, Pages!OnFetched(j) PROVE EditorFollows'
  BY <1>6, ShowDevicesFollows DEF Pages!OnFetched
<1>7. CASE Pages!UserReload \/ Pages!OnStarted
  BY <1>7, RefreshFollows DEF Pages!UserReload, Pages!OnStarted
<1>8. CASE Pages!OnStartFailed
  BY <1>8, ShowDevicesFollows DEF Pages!OnStartFailed
<1>9. CASE Pages!Save \/ Pages!ToggleMacro \/ Pages!DeleteMacro
  BY <1>1, <1>9 DEF Pages!Save, Pages!ToggleMacro, Pages!DeleteMacro, Pages!Edited
<1>10. ASSUME NEW d \in Pages!Devices, NEW r \in 0 .. 3, Pages!Select(d, r) PROVE EditorFollows'
  BY <1>10, NobodyEdits DEF Pages!Select, EditorFollows
<1>11. CASE Pages!AddMacro \/ Pages!EditMacro
  BY <1>11, OpenEditorFollows DEF Pages!AddMacro, Pages!EditMacro
<1>12. ASSUME NEW t \in MacroTriggers, Pages!EditorDone(t) PROVE EditorFollows'
  BY <1>12, EditorDoneFollows
<1>13. CASE Pages!EditorCancelled
  BY <1>13, NobodyEdits DEF Pages!EditorCancelled, EditorFollows
<1>14. QED
  BY <1>2, <1>3, <1>4, <1>5, <1>6, <1>7, <1>8, <1>9, <1>10, <1>11, <1>12, <1>13 DEF Pages!Next

-----------------------------------------------------------------------------
(* The macros page: the editor and the row it was opened for.                  *)

LEMMA NobodyHasNoRow ==
  /\ Pages!NoEditor.row = 0
  /\ {"moved", "row", "device", "id"} \subseteq DOMAIN Pages!NoEditor
  BY DEF Pages!NoEditor

(* A device with a configuration is in every list of it.                       *)
LEMMA ShowDevicesHolds ==
  ASSUME RowHolds, IsConfig(config), NEW devs, Pages!ShowDevices(config, devs), UNCHANGED config
  PROVE  RowHolds'
<1>1. \/ editor' = editor
      \/ /\ editor # Pages!NoEditor /\ editor.device \notin Pages!Rows(config, devs)
         /\ editor' = [editor EXCEPT !.moved = TRUE]
  BY DEF Pages!ShowDevices
<1>2. Pages!Has(config, editor.device) => editor.device \in Pages!Rows(config, devs)
  <2>1. \A i \in DOMAIN config : config[i] \in Pages!Entries
    BY DEF IsConfig
  <2>2. \A i \in DOMAIN config : config[i].device \in Pages!Devices
    BY <2>1, EntryHas
  <2>3. QED
    BY <2>2 DEF Pages!Has, Pages!Rows
<1>3. CASE editor' = editor
  BY <1>3 DEF RowHolds
<1>4. CASE /\ editor # Pages!NoEditor /\ editor.device \notin Pages!Rows(config, devs)
           /\ editor' = [editor EXCEPT !.moved = TRUE]
  BY <1>2, <1>4 DEF RowHolds
<1>5. QED
  BY <1>1, <1>3, <1>4

LEMMA RefreshHolds ==
  ASSUME RowHolds, PageInv, NEW done, NEW s, Pages!Refresh(done, s)
  PROVE  RowHolds'
<1>1. config' = config
  BY ReloadKeeps DEF Pages!Refresh, PageInv, MachineFits, PageTyped
<1>2. CASE s = "running"
  BY <1>1, <1>2 DEF Pages!Refresh, RowHolds
<1>3. CASE s # "running"
  BY <1>1, <1>3, ShowDevicesHolds DEF Pages!Refresh, PageInv, PageTyped
<1>4. QED
  BY <1>2, <1>3

LEMMA OpenHolds ==
  ASSUME RowHolds, PageInv, Pages!AddMacro \/ Pages!EditMacro
  PROVE  RowHolds'
<1>1. CASE Pages!AddMacro
  BY <1>1 DEF Pages!AddMacro, Pages!OpenEditor, RowHolds
<1>2. CASE Pages!EditMacro
  <2> DEFINE ms == Pages!MacrosOf(config, selected)
  <2>1. /\ row \in DOMAIN ms /\ config' = config
        /\ editor'.row = row /\ editor'.device = selected /\ editor'.id = ms[row].id
        /\ ~editor'.moved /\ editor'.device # 0
        /\ {"moved", "row", "device", "id"} \subseteq DOMAIN editor'
    BY <1>2 DEF Pages!EditMacro, Pages!OpenEditor, Pages!pageVars
  <2>2. Pages!Has(config, selected)
    BY <2>1 DEF Pages!MacrosOf
  <2>3. QED
    BY <2>1, <2>2 DEF RowHolds
<1>3. QED
  BY <1>1, <1>2

LEMMA RowHoldsKept == RowHolds /\ PageInv /\ Pages!Next => RowHolds'
<1> SUFFICES ASSUME RowHolds, PageInv, Pages!Next PROVE RowHolds'
  OBVIOUS
<1>1. CASE UNCHANGED <<config, editor>>
  BY <1>1 DEF RowHolds
<1>2. CASE editor' = Pages!NoEditor
  BY <1>2, NobodyHasNoRow DEF RowHolds
<1>3. CASE \E d \in Pages!Devices : Pages!Plug(d)
  BY <1>1, <1>3 DEF Pages!Plug, Pages!pageVars
<1>4. CASE Pages!EngineLoads \/ Pages!EngineCrashes \/ Pages!StartEngine
  BY <1>1, <1>4 DEF Pages!EngineLoads, Pages!EngineCrashes, Pages!StartEngine, Pages!pageVars
<1>5. ASSUME NEW j \in jobs, Pages!Serve(j) PROVE RowHolds'
  BY <1>1, <1>5 DEF Pages!Serve, Pages!pageVars
<1>6. ASSUME NEW j \in jobs, Pages!OnReloaded(j) PROVE RowHolds'
  BY <1>6, RefreshHolds DEF Pages!OnReloaded
<1>7. ASSUME NEW j \in jobs, Pages!OnFetched(j) PROVE RowHolds'
  BY <1>7, ShowDevicesHolds DEF Pages!OnFetched, PageInv, PageTyped
<1>8. CASE Pages!UserReload \/ Pages!OnStarted
  BY <1>8, RefreshHolds DEF Pages!UserReload, Pages!OnStarted
<1>9. CASE Pages!OnStartFailed
  BY <1>9, ShowDevicesHolds DEF Pages!OnStartFailed, PageInv, PageTyped
<1>10. CASE Pages!Save \/ Pages!ToggleMacro
  BY <1>1, <1>10 DEF Pages!Save, Pages!ToggleMacro, Pages!Edited
<1>11. ASSUME NEW d \in Pages!Devices, NEW r \in 0 .. 3, Pages!Select(d, r) PROVE RowHolds'
  BY <1>1, <1>11 DEF Pages!Select
<1>12. CASE Pages!AddMacro \/ Pages!EditMacro
  BY <1>12, OpenHolds
<1>13. CASE (\E t \in MacroTriggers : Pages!EditorDone(t)) \/ Pages!EditorCancelled \/ Pages!DeleteMacro
  BY <1>2, <1>13 DEF Pages!EditorDone, Pages!EditorCancelled, Pages!DeleteMacro
<1>14. QED
  BY <1>3, <1>4, <1>5, <1>6, <1>7, <1>8, <1>9, <1>10, <1>11, <1>12, <1>13 DEF Pages!Next

-----------------------------------------------------------------------------
(* All of the page.                                                            *)
PagesInv == EditorFollows /\ RowHolds /\ PageInv

LEMMA PagesStart == Pages!Init => PagesInv
<1> SUFFICES ASSUME Pages!Init PROVE PagesInv
  OBVIOUS
<1>1. PICK old \in MacroFiles :
        /\ config = Pages!Loads(old).conf /\ loadError = Pages!Loads(old).bad
        /\ \/ file = old /\ backup = FALSE
           \/ Pages!MovedAside(old) /\ file = Pages!Missing /\ backup = TRUE
  BY DEF Pages!Init
<1>2. /\ connected \in SUBSET Pages!Devices /\ engine = "down" /\ loaded = <<>> /\ service = "stopped"
      /\ dirty = FALSE /\ known = {} /\ selected = 0 /\ row = 0 /\ editor = Pages!NoEditor
      /\ jobs = {} /\ inputs = 0 /\ kept = {} /\ dropped = {} /\ late = FALSE
  BY DEF Pages!Init
<1>3. IsFile(old)
  BY GuiAssumption DEF Pages!PagesAssumption, IsFile
<1>4. /\ IsConfig(config) /\ Pages!Loads(old).bad \in BOOLEAN
      /\ IsFile(file) /\ Pages!Loads(file).conf = config
      /\ Pages!Loads(file).bad => loadError
  BY <1>1, <1>3, LoadsGood, NothingIsRead DEF Pages!MovedAside
<1>5. MachineFits
  <2>1. loaded \in Seq(Pages!Entries)
    BY <1>2
  <2>2. backup \in BOOLEAN /\ late \in BOOLEAN
    BY <1>1, <1>2, <1>4
  <2>3. jobs \subseteq Requests /\ connected \subseteq Pages!Devices
    BY <1>2
  <2>4. QED
    BY <1>2, <1>4, <2>1, <2>2, <2>3 DEF MachineFits
<1>6. PageTyped
  BY <1>1, <1>2, <1>4, NoEditorFits DEF PageTyped
<1>7. KeptAreThere /\ ShownIsFile /\ EngineHasRead /\ Pages!LossIsTold
  BY <1>2, <1>4 DEF KeptAreThere, ShownIsFile, EngineHasRead, Pages!LossIsTold
<1>8. QED
  BY <1>2, <1>5, <1>6, <1>7, NobodyEdits, NobodyHasNoRow DEF PagesInv, PageInv, EditorFollows, RowHolds

LEMMA PageInvKept == PagesInv /\ Pages!Next => PageInv'
<1> SUFFICES ASSUME PageInv, EditorFollows, RowHolds, Pages!Next PROVE PageInv'
  BY DEF PagesInv
<1>1. CASE \E d \in Pages!Devices : Pages!Plug(d)
  BY <1>1, PlugKeeps
<1>2. CASE Pages!EngineLoads \/ Pages!EngineCrashes \/ Pages!StartEngine
  BY <1>2, EngineKeeps
<1>3. CASE \E j \in jobs : Pages!Serve(j)
  BY <1>3, ServeKeeps
<1>4. CASE \/ Pages!UserReload \/ Pages!OnStarted \/ Pages!OnStartFailed
           \/ \E j \in jobs : Pages!OnReloaded(j) \/ Pages!OnFetched(j)
  BY <1>4, AnswersKeep
<1>5. CASE Pages!Save
  BY <1>5, SaveKeeps
<1>6. CASE \E d \in Pages!Devices, r \in 0 .. 3 : Pages!Select(d, r)
  BY <1>6, SelectKeeps
<1>7. CASE Pages!AddMacro \/ Pages!EditMacro
  BY <1>7, OpenKeeps
<1>8. CASE \E t \in MacroTriggers : Pages!EditorDone(t)
  BY <1>8, EditorDoneKeeps
<1>9. CASE Pages!EditorCancelled \/ Pages!ToggleMacro
  BY <1>9, OtherEditsKeep
<1>10. CASE Pages!DeleteMacro
  BY <1>10, DeleteMacroKeeps
<1>11. QED
  BY <1>1, <1>2, <1>3, <1>4, <1>5, <1>6, <1>7, <1>8, <1>9, <1>10 DEF Pages!Next

LEMMA PagesInvKept == PagesInv /\ Pages!Next => PagesInv'
  BY PageInvKept, FollowsKept, RowHoldsKept DEF PagesInv

LEMMA PagesIdle ==
  PagesInv /\ UNCHANGED <<backup, connected, engine, loaded, service, loadError, known, selected, editor, kept, dropped,
                          late, file, config, dirty, row, jobs, inputs>> => PagesInv'
<1> SUFFICES ASSUME PagesInv,
                    UNCHANGED <<backup, connected, engine, loaded, service, loadError, known, selected, editor,
                                kept, dropped, late, file, config, dirty, row, jobs, inputs>>
             PROVE PagesInv'
  OBVIOUS
<1>1. EditorFollows'
  BY DEF PagesInv, EditorFollows
<1>4. RowHolds'
  BY DEF PagesInv, RowHolds
<1>2. PageInv'
  BY LookingKeepsPage DEF PagesInv, PageInv, PageTyped
<1>3. QED
  BY <1>1, <1>2, <1>4 DEF PagesInv

(* What the invariant says of the page.                                        *)
LEMMA FileIsShown == PageInv => Pages!PageShowsFile
<1> SUFFICES ASSUME PageInv, ~dirty
             PROVE  /\ config = Pages!Loads(file).conf
                    /\ ~Pages!Loads(file).bad =>
                         \A i \in DOMAIN file.entries : \A m \in Pages!ToSet(file.entries[i].macros) :
                           \E n \in Pages!ToSet(Pages!MacrosOf(config, file.entries[i].device)) :
                             n = m \/ n.trigger = m.trigger \/ n.id = m.id
  BY DEF Pages!PageShowsFile
<1>1. config = Pages!Loads(file).conf
  BY DEF PageInv, ShownIsFile
<1>2. SUFFICES ASSUME ~Pages!Loads(file).bad, NEW i \in DOMAIN file.entries,
                      NEW m \in Pages!ToSet(file.entries[i].macros)
               PROVE  \E n \in Pages!ToSet(Pages!MacrosOf(config, file.entries[i].device)) :
                        n = m \/ n.trigger = m.trigger \/ n.id = m.id
  BY <1>1
<1> DEFINE e == file.entries[i]
<1>3. file.entries \in Seq(Pages!Entries)
  BY DEF PageInv, MachineFits, IsFile
<1>4. config = Pages!FromEntries(file.entries)
  BY <1>1, <1>2 DEF Pages!Loads
<1>5. IsConfig(config) /\ Covers(config, e)
  BY <1>3, <1>4, ReadIsGood
<1>6. PICK k \in DOMAIN config :
        config[k].device = e.device /\ \A l \in DOMAIN e.macros : Claimed(config[k].macros, e.macros[l])
  BY <1>5 DEF Covers
<1>7. Pages!MacrosOf(config, e.device) = config[k].macros
  BY <1>5, <1>6, EntryIsOne
<1>8. PICK l \in DOMAIN e.macros : m = e.macros[l]
  BY DEF Pages!ToSet
<1>9. Claimed(config[k].macros, m)
  BY <1>6, <1>8
<1>10. QED
  BY <1>7, <1>9 DEF Claimed, Pages!ToSet

LEMMA MergingSpoilsNothing == Pages!MergingSpoilsNothing
<1> SUFFICES ASSUME NEW f \in MacroFiles, Pages!Loads(f).bad, f.is \notin {"unreadable", "corrupt"}
             PROVE  \E i \in DOMAIN f.entries : ~Pages!Valid(<<f.entries[i]>>)
  BY DEF Pages!MergingSpoilsNothing
<1>1. f.entries \in Seq(Pages!Entries)
  BY GuiAssumption DEF Pages!PagesAssumption
<1>2. ~Pages!Valid(Pages!FromEntries(f.entries))
  BY DEF Pages!Loads
<1>3. IsConfig(Pages!FromEntries(f.entries))
  BY <1>1, ReadIsGood
<1>4. ~MacrosAreValid(Pages!FromEntries(f.entries))
  BY <1>2, <1>3, ValidConfig DEF IsConfig
<1>5. PICK i \in DOMAIN f.entries : ~MacrosValid(f.entries[i].macros)
  BY <1>1, <1>4, ReadIsGood
<1> DEFINE c == <<f.entries[i]>>
<1>6. f.entries[i] \in Pages!Entries
  BY <1>1
<1>7. c \in Seq(Pages!Entries) /\ 1 \in DOMAIN c /\ c[1] = f.entries[i]
  BY <1>6
<1> HIDE DEF c
<1>8. ~MacrosAreValid(c)
  BY <1>5, <1>7 DEF MacrosAreValid
<1>9. ~Pages!Valid(c)
  BY <1>7, <1>8, ValidConfig
<1>10. QED
  BY <1>9 DEF c

LEMMA PagesArePreserved == PagesInv => Pages!EditsArePreserved
<1> SUFFICES ASSUME PagesInv PROVE Pages!EditsArePreserved
  OBVIOUS
<1>1. Pages!AcceptedMacrosStay
  BY DEF PagesInv, PageInv, KeptAreThere, Pages!AcceptedMacrosStay
<1>2. Pages!EngineHasSaved
  BY DEF PagesInv, PageInv, EngineHasRead, Told, Pages!EngineHasSaved
<1>3. Pages!EditedRowStays
  BY DEF PagesInv, EditorFollows, RowHolds, Pages!EditedRowStays
<1>4. QED
  BY <1>1, <1>2, <1>3, FileIsShown, MergingSpoilsNothing DEF PagesInv, PageInv, Pages!EditsArePreserved

LEMMA PagesTypes == PagesInv => Pages!TypeOK
<1> SUFFICES ASSUME PagesInv PROVE Pages!TypeOK
  OBVIOUS
<1>1. \A i \in DOMAIN config : config[i].device \in Pages!Devices
  <2>1. \A i \in DOMAIN config : config[i] \in Pages!Entries
    BY DEF PagesInv, PageInv, PageTyped, IsConfig
  <2>2. QED
    BY <2>1, EntryHas
<1>2. \A j \in jobs : j.kind \in {"fetch", "reload"} /\ j.at \in {"sent", "done", "failed"}
  BY DEF PagesInv, PageInv, MachineFits, Requests
<1>3. QED
  BY <1>1, <1>2 DEF PagesInv, PageInv, MachineFits, PageTyped, Pages!TypeOK

(* A macro is dropped, or goes to another device, only when the list moved on. *)
LEMMA PagesAgree == PagesInv /\ (Pages!Next \/ UNCHANGED <<editor, dropped>>) => Pages!EditLands
<1> SUFFICES ASSUME PagesInv, Pages!Next, editor # Pages!NoEditor, editor' = Pages!NoEditor, ~editor.moved
             PROVE  dropped' = dropped /\ (config' # config => selected = editor.device)
  BY DEF Pages!EditLands
<1>1. selected = editor.device /\ selected # 0
  BY DEF PagesInv, EditorFollows, RowHolds
<1>2. CASE \E t \in MacroTriggers : Pages!EditorDone(t)
  BY <1>1, <1>2 DEF Pages!EditorDone, Pages!Edited
<1>3. CASE \/ \E d \in Pages!Devices : Pages!Plug(d)
           \/ Pages!EngineLoads \/ Pages!EngineCrashes \/ Pages!StartEngine
           \/ \E j \in jobs : Pages!Serve(j) \/ Pages!OnReloaded(j) \/ Pages!OnFetched(j)
           \/ Pages!UserReload \/ Pages!OnStarted \/ Pages!OnStartFailed
  BY <1>1, <1>3
  DEF Pages!Plug, Pages!EngineLoads, Pages!EngineCrashes, Pages!StartEngine, Pages!Serve,
      Pages!OnReloaded, Pages!OnFetched, Pages!UserReload, Pages!OnStarted, Pages!OnStartFailed,
      Pages!Refresh
<1>4. CASE \/ Pages!Save \/ Pages!AddMacro \/ Pages!EditMacro \/ Pages!EditorCancelled
           \/ Pages!ToggleMacro \/ Pages!DeleteMacro
           \/ \E d \in Pages!Devices, r \in 0 .. 3 : Pages!Select(d, r)
  BY <1>1, <1>4
  DEF Pages!Save, Pages!AddMacro, Pages!EditMacro, Pages!OpenEditor, Pages!EditorCancelled,
      Pages!ToggleMacro, Pages!DeleteMacro, Pages!Select, Pages!Edited
<1>5. QED
  BY <1>2, <1>3, <1>4 DEF Pages!Next

-----------------------------------------------------------------------------
(* The key grid: selecting with clicks, bands and arrows.                      *)

LEMMA CellsAreNumbers ==
  /\ GridRows \in Nat /\ GridCols \in Nat /\ GridKeys # {}
  /\ \A c \in GridKeys : /\ c[1] \in Nat /\ c[2] \in Nat /\ c = <<c[1], c[2]>>
                         /\ c[1] >= 1 /\ c[2] >= 1 /\ c[1] <= GridRows /\ c[2] <= GridCols
<1>1. GridRows \in Nat /\ GridCols \in Nat /\ GridKeys # {} /\ GridKeys \subseteq Keys!Grid
  BY GuiAssumption DEF Keys!SelectorAssumption
<1>2. QED
  BY <1>1 DEF Keys!Grid

LEMMA FirstIsKey == Keys!First \in GridKeys
<1> DEFINE HasRow == {c[1] : c \in GridKeys}
<1>1. PICK r \in HasRow : \A m \in HasRow : r <= m
  BY CellsAreNumbers, NatHasMin
<1> DEFINE InRow == {c[2] : c \in {d \in GridKeys : d[1] = r}}
<1>2. InRow \subseteq Nat /\ InRow # {}
  BY CellsAreNumbers
<1>3. PICK k \in InRow : \A m \in InRow : k <= m
  BY <1>2, NatHasMin
<1>4. PICK f \in GridKeys : f[1] = r /\ f[2] = k
  OBVIOUS
<1>5. ASSUME NEW d \in GridKeys PROVE f[1] < d[1] \/ (f[1] = d[1] /\ f[2] <= d[2])
  <2>1. r <= d[1] /\ (d[1] = r => k <= d[2])
    BY <1>1, <1>3
  <2>2. f[1] \in Nat /\ d[1] \in Nat
    BY CellsAreNumbers
  <2>3. QED
    BY <1>4, <2>1, <2>2
<1>6. QED
  BY <1>5 DEF Keys!First

(* The opposite way.                                                           *)
Back(step) == <<0 - step[1], 0 - step[2]>>

LEMMA WaysAreFour ==
  ASSUME NEW step \in Keys!Steps
  PROVE  step = <<0, 1>> \/ step = <<0, -1>> \/ step = <<1, 0>> \/ step = <<-1, 0>>
  BY DEF Keys!Steps

(* The nearest key is one, and none is before it.                              *)
LEMMA NearestIsFirst ==
  ASSUME NEW c, NEW step, Keys!Ahead(c, step) # {}
  PROVE  \E n \in Keys!Ahead(c, step) :
            /\ Keys!Nearest(c, step) = Keys!At(c, step, n)
            /\ \A m \in Keys!Ahead(c, step) : n <= m
<1> DEFINE ns == Keys!Ahead(c, step)
           k == CHOOSE n \in ns : \A m \in ns : n <= m
<1>1. ns \subseteq Nat
  BY CellsAreNumbers DEF Keys!Ahead
<1>2. k \in ns /\ \A m \in ns : k <= m
  BY <1>1, NatHasMin
<1>3. Keys!Nearest(c, step) = Keys!At(c, step, k)
  BY DEF Keys!Nearest
<1>4. QED
  BY <1>2, <1>3

LEMMA NearestIsKey ==
  ASSUME NEW c, NEW step, Keys!Ahead(c, step) # {}
  PROVE  Keys!Nearest(c, step) \in GridKeys
  BY NearestIsFirst DEF Keys!Ahead

LEMMA ArrowsAlwaysComeBack == Keys!ArrowsComeBack
<1> SUFFICES ASSUME NEW c \in GridKeys, NEW step \in Keys!Steps, Keys!Ahead(c, step) # {}
             PROVE  Keys!Nearest(Keys!Nearest(c, step), Back(step)) = c
  BY DEF Keys!ArrowsComeBack, Back
<1> DEFINE d == Keys!Nearest(c, step)
<1>1. PICK n \in Keys!Ahead(c, step) : /\ d = Keys!At(c, step, n)
                                       /\ \A m \in Keys!Ahead(c, step) : n <= m
  BY NearestIsFirst
<1>2. n \in Nat /\ n >= 1 /\ n <= GridRows + GridCols
  BY CellsAreNumbers DEF Keys!Ahead
<1>3. \A m \in Nat : Keys!At(d, Back(step), m) = Keys!At(c, step, n - m)
  BY <1>1, <1>2, CellsAreNumbers, WaysAreFour DEF Keys!At, Back
<1>4. Keys!At(c, step, 0) = c
  BY CellsAreNumbers, WaysAreFour DEF Keys!At
<1> HIDE DEF d
<1>5. n \in Keys!Ahead(d, Back(step))
  BY <1>2, <1>3, <1>4 DEF Keys!Ahead
<1>6. PICK k \in Keys!Ahead(d, Back(step)) :
        /\ Keys!Nearest(d, Back(step)) = Keys!At(d, Back(step), k)
        /\ \A m \in Keys!Ahead(d, Back(step)) : k <= m
  BY <1>5, NearestIsFirst
<1>7. k \in Nat /\ k >= 1 /\ k <= n
  BY <1>5, <1>6, CellsAreNumbers DEF Keys!Ahead
<1>8. CASE k = n
  BY <1>2, <1>3, <1>4, <1>6, <1>8 DEF d
<1>9. CASE k # n
  <2>1. Keys!At(c, step, n - k) \in GridKeys
    BY <1>3, <1>6, <1>7 DEF Keys!Ahead
  <2>2. n - k \in 1..(GridRows + GridCols)
    BY <1>2, <1>7, <1>9, CellsAreNumbers
  <2>3. n - k \in Keys!Ahead(c, step)
    BY <2>1, <2>2 DEF Keys!Ahead
  <2>4. QED
    BY <1>1, <1>2, <1>7, <2>3
<1>10. QED
  BY <1>8, <1>9 DEF d

(* Beside what is promised: a band has keys only.                              *)
KeysInv ==
    /\ Keys!TypeOK /\ Keys!SelectionIsTold /\ Keys!BandIsExact
    /\ band \subseteq GridKeys /\ dragBase \subseteq GridKeys
    /\ press = Keys!NoPress => band = {}

LEMMA KeysStart == Keys!Init => KeysInv
  BY FirstIsKey, GuiAssumption
  DEF Keys!Init, KeysInv, Keys!TypeOK, Keys!SelectionIsTold, Keys!BandIsExact,
      Keys!SelectorAssumption

LEMMA ChangeTells ==
  ASSUME KeysInv, NEW cells, cells \subseteq GridKeys, Keys!Change(cells)
  PROVE  selection' = cells /\ told' = cells
  BY DEF Keys!Change, KeysInv, Keys!SelectionIsTold

LEMMA CountsInputs == KeysInv /\ Keys!Input => inputs' \in 0..InputsOf["keys"]
  BY GuiAssumption DEF Keys!Input, KeysInv, Keys!TypeOK, Keys!SelectorAssumption

LEMMA PressKeeps ==
  ASSUME KeysInv, NEW p \in Keys!Grid, NEW ctrl \in BOOLEAN, NEW shift \in BOOLEAN,
         Keys!Press(p, ctrl, shift)
  PROVE  KeysInv'
<1>1. /\ press' = p /\ dragBase' = (IF ctrl THEN selection ELSE {}) /\ keyed' = FALSE
      /\ band' = band /\ Keys!Input
  BY DEF Keys!Press
<1>2. Keys!TypeOK' /\ dragBase' \subseteq GridKeys /\ band' \subseteq GridKeys
  BY <1>1, CountsInputs DEF KeysInv, Keys!TypeOK, Keys!SelectionIsTold
<1>3. Keys!SelectionIsTold'
  <2>1. CASE p \notin GridKeys
    BY <2>1 DEF Keys!Press, KeysInv, Keys!SelectionIsTold
  <2>2. CASE p \in GridKeys /\ shift
    <3>1. /\ cursor' = p /\ anchor' = anchor
          /\ Keys!Change(dragBase' \cup (Keys!Rectangle(anchor, p) \cap GridKeys))
      BY <2>2 DEF Keys!Press
    <3>2. QED
      BY <1>2, <2>2, <3>1, ChangeTells DEF KeysInv, Keys!SelectionIsTold
  <2>3. CASE p \in GridKeys /\ ~shift
    <3> DEFINE to == IF ctrl THEN (selection \cup {p}) \ (selection \cap {p}) ELSE {p}
    <3>1. cursor' = p /\ anchor' = p /\ Keys!Change(to)
      BY <2>3 DEF Keys!Press
    <3>2. to \subseteq GridKeys
      BY <2>3 DEF KeysInv, Keys!SelectionIsTold
    <3>3. selection' = to /\ told' = to
      BY <3>1, <3>2, ChangeTells
    <3>4. QED
      BY <2>3, <3>1, <3>2, <3>3 DEF Keys!SelectionIsTold
  <2>4. QED
    BY <2>1, <2>2, <2>3
<1>4. band = {}
  BY DEF Keys!Press, KeysInv
<1>5. QED
  BY <1>1, <1>2, <1>3, <1>4 DEF KeysInv, Keys!BandIsExact

LEMMA MoveToKeeps ==
  ASSUME KeysInv, NEW p \in Keys!Grid, Keys!MoveTo(p)
  PROVE  KeysInv'
<1>1. /\ band' = Keys!Rectangle(press, p) \cap GridKeys /\ Keys!Change(dragBase \cup band')
      /\ press # Keys!NoPress /\ Keys!Input
      /\ UNCHANGED <<cursor, anchor, press, dragBase>>
  BY DEF Keys!MoveTo
<1>2. dragBase \cup band' \subseteq GridKeys
  BY <1>1 DEF KeysInv
<1>3. selection' = dragBase \cup band' /\ told' = selection'
  BY <1>1, <1>2, ChangeTells
<1>4. QED
  BY <1>1, <1>2, <1>3, CountsInputs
  DEF KeysInv, Keys!TypeOK, Keys!SelectionIsTold, Keys!BandIsExact

(* From elsewhere: the keys selected are keys, and the band is not asked.      *)
LEMMA ElsewhereKeeps ==
  ASSUME KeysInv, NEW cells, cells \subseteq GridKeys, Keys!Change(cells),
         Keys!Input, Keys!Elsewhere, cursor' \in GridKeys, anchor' \in GridKeys,
         UNCHANGED <<press, band, dragBase>>
  PROVE  KeysInv'
  BY ChangeTells, CountsInputs
  DEF KeysInv, Keys!TypeOK, Keys!SelectionIsTold, Keys!BandIsExact, Keys!Elsewhere

LEMMA ArrowKeeps ==
  ASSUME KeysInv, NEW step, NEW extend \in BOOLEAN, Keys!Arrow(step, extend)
  PROVE  KeysInv'
<1>1. cursor' \in GridKeys
  BY NearestIsKey DEF Keys!Arrow
<1>2. CASE extend
  BY <1>1, <1>2, ElsewhereKeeps DEF Keys!Arrow, KeysInv, Keys!SelectionIsTold
<1>3. CASE ~extend
  BY <1>1, <1>3, CountsInputs
  DEF Keys!Arrow, KeysInv, Keys!TypeOK, Keys!SelectionIsTold, Keys!BandIsExact, Keys!Elsewhere
<1>4. QED
  BY <1>2, <1>3

LEMMA KeysInvKept == KeysInv /\ Keys!Next => KeysInv'
<1> SUFFICES ASSUME KeysInv, Keys!Next PROVE KeysInv'
  OBVIOUS
<1> USE DEF KeysInv, Keys!SelectionIsTold
<1>1. ASSUME NEW cells, Keys!SetSelection(cells) PROVE KeysInv'
  BY <1>1, ElsewhereKeeps DEF Keys!SetSelection
<1>2. CASE Keys!Release
  BY <1>2 DEF Keys!Release, Keys!TypeOK, Keys!BandIsExact
<1>3. CASE Keys!Space
  <2>1. (selection \cup {cursor}) \ (selection \cap {cursor}) \subseteq GridKeys
    OBVIOUS
  <2>2. QED
    BY <1>3, <2>1, ElsewhereKeeps DEF Keys!Space
<1>4. CASE Keys!SelectAll
  BY <1>4, ElsewhereKeeps DEF Keys!SelectAll
<1>5. CASE Keys!Escape
  BY <1>5, ElsewhereKeeps DEF Keys!Escape
<1>6. QED
  BY <1>1, <1>2, <1>3, <1>4, <1>5, MoveToKeeps, PressKeeps, ArrowKeeps DEF Keys!Next

LEMMA KeysAgree == KeysInv => Keys!SelectionIsTold /\ Keys!BandIsExact /\ Keys!ArrowsComeBack
  BY ArrowsAlwaysComeBack DEF KeysInv

-----------------------------------------------------------------------------
(* The form of an effect.                                                      *)
FormRows == 1..Len(ShownEffects)
Forms == [type : Types, speed : 0..MaxSpeed, angle : 0..(MaxAngle - 1), palette : Form!Palettes]
FieldNames == {"type", "speed", "angle", "palette"}

(* What set_effect() has still to do. *)
Rest == {<<>>, <<"palette">>, <<"angle", "palette">>, <<"speed", "angle", "palette">>,
         <<"type", "speed", "angle", "palette">>}
Left == {todo[i] : i \in DOMAIN todo}

(* While the form is filled nothing is told of it, so that the groups stay;    *)
(* what has been put in is what the widgets make of the chosen group.          *)
Filling ==
    /\ todo \in Rest
    /\ loading \in BOOLEAN /\ (todo # <<>> => loading)
    /\ loading => base = groups[row] /\ row # 0
                  /\ \A f \in FieldNames : f \notin Left => form[f] = Form!Widgets(base)[f]

FormInv ==
    /\ groups \in [FormRows -> Form!Effects] /\ row \in FormRows \cup {0}
    /\ base \in Form!Effects /\ form \in Forms
    /\ edited \in [FormRows -> BOOLEAN]
    /\ row # 0 => base.direction = groups[row].direction
    /\ Filling
    /\ Form!EffectFormIsFaithful

LEMMA FormConstants ==
  /\ MaxSpeed \in Nat /\ MaxAngle \in Nat /\ MaxAngle >= 1 /\ Len(ShownEffects) \in Nat
  /\ 1 \in FormRows /\ ShownEffects \in [FormRows -> Form!Effects]
  /\ Form!Rows = FormRows
  BY GuiAssumption DEF Form!FormAssumption, Form!Rows, FormRows

LEMMA StepBounds ==
  ASSUME NEW s \in 0..(2 * MaxSpeed)
  PROVE  Form!Step(s) \in 0..MaxSpeed
  BY FormConstants DEF Form!Step

LEMMA StepOfEven ==
  ASSUME NEW n \in 0..MaxSpeed
  PROVE  Form!Step(2 * n) = n
<1>1. (2 * n) \div 2 = n /\ (2 * n) % 2 = 0
  BY FormConstants
<1>2. QED
  BY <1>1 DEF Form!Step

LEMMA TurnBounds ==
  ASSUME NEW a \in 0..MaxAngle
  PROVE  a % MaxAngle \in 0..(MaxAngle - 1) /\ (a < MaxAngle => a % MaxAngle = a)
  BY FormConstants

LEMMA WidgetsFit ==
  ASSUME NEW e \in Form!Effects
  PROVE  Form!Widgets(e) \in Forms
  BY StepBounds, TurnBounds DEF Form!Widgets, Form!Effects, Forms

(* The widgets hold what they say.                                             *)
LEMMA CurrentIsShown ==
  ASSUME NEW b \in Form!Effects, NEW f \in Forms
  PROVE  /\ Form!Current(b, f) \in Form!Effects
         /\ Form!Current(b, f).direction = b.direction
         /\ Form!Widgets(Form!Current(b, f)) = f
<1> DEFINE e == Form!Current(b, f)
<1>1. /\ e.type = f.type /\ e.speed = 2 * f.speed /\ e.angle = f.angle
      /\ e.palette = f.palette /\ e.direction = b.direction
  BY DEF Form!Current
<1>3. f.type \in Types /\ f.speed \in 0..MaxSpeed /\ f.angle \in 0..(MaxAngle - 1)
      /\ f.palette \in Form!Palettes /\ b.direction \in {ShownEffects[r].direction : r \in Form!Rows}
  BY DEF Forms, Form!Effects
<1>4. 2 * f.speed \in 0..(2 * MaxSpeed) /\ f.angle \in 0..MaxAngle /\ f.angle < MaxAngle
  BY <1>3, FormConstants
<1>5. e \in Form!Effects
  BY <1>3, <1>4 DEF Form!Current, Form!Effects
<1>6. Form!Step(2 * f.speed) = f.speed /\ f.angle % MaxAngle = f.angle
  BY <1>3, <1>4, StepOfEven, TurnBounds
<1>7. Form!Widgets(e) = [type |-> f.type, speed |-> f.speed, angle |-> f.angle,
                         palette |-> f.palette]
  BY <1>1, <1>6 DEF Form!Widgets
<1>8. QED
  BY <1>1, <1>5, <1>7 DEF Forms

LEMMA FormStart == Form!Init => FormInv
<1> SUFFICES ASSUME Form!Init PROVE FormInv
  OBVIOUS
<1>1. groups = ShownEffects /\ row = 0 /\ base = ShownEffects[1] /\ ~loading /\ todo = <<>>
      /\ form = Form!Widgets(ShownEffects[1]) /\ edited = [r \in FormRows |-> FALSE]
      /\ loading \in BOOLEAN
  BY FormConstants DEF Form!Init
<1>2. ShownEffects[1] \in Form!Effects
  BY FormConstants
<1>3. form \in Forms
  BY <1>1, <1>2, WidgetsFit
<1>4. Filling
  BY <1>1 DEF Filling, Rest
<1>5. QED
  BY <1>1, <1>2, <1>3, <1>4, FormConstants
  DEF FormInv, Form!EffectFormIsFaithful, Form!LookingChangesNothing, Form!FormIsTrue

LEMMA ChooseRowKeeps ==
  ASSUME FormInv, NEW r \in FormRows, Form!ChooseRow(r)
  PROVE  FormInv'
<1>1. /\ row' = r /\ base' = groups[r] /\ loading' = TRUE /\ todo' = Form!Fields
      /\ UNCHANGED <<groups, form, edited>>
  BY DEF Form!ChooseRow
<1>2. r # 0 /\ groups[r] \in Form!Effects
  BY FormConstants DEF FormInv, FormRows
<1>3. Filling'
  BY <1>1, <1>2 DEF Filling, Rest, Left, Form!Fields, FieldNames
<1>4. QED
  BY <1>1, <1>2, <1>3
  DEF FormInv, Form!EffectFormIsFaithful, Form!LookingChangesNothing, Form!FormIsTrue

LEMMA TailsOfFields ==
  /\ Head(<<"palette">>) = "palette" /\ Tail(<<"palette">>) = <<>>
  /\ Head(<<"angle", "palette">>) = "angle" /\ Tail(<<"angle", "palette">>) = <<"palette">>
  /\ Head(<<"speed", "angle", "palette">>) = "speed"
  /\ Tail(<<"speed", "angle", "palette">>) = <<"angle", "palette">>
  /\ Head(<<"type", "speed", "angle", "palette">>) = "type"
  /\ Tail(<<"type", "speed", "angle", "palette">>) = <<"speed", "angle", "palette">>
  OBVIOUS

LEMMA HeadOrTail ==
  ASSUME todo \in Rest, todo # <<>>, todo' = Tail(todo)
  PROVE  /\ Head(todo) \in FieldNames /\ todo' \in Rest
         /\ \A f \in Left : f = Head(todo) \/ f \in Left'
<1>1. CASE todo = <<"palette">>
  BY <1>1, TailsOfFields DEF Rest, Left, FieldNames
<1>2. CASE todo = <<"angle", "palette">>
  BY <1>2, TailsOfFields DEF Rest, Left, FieldNames
<1>3. CASE todo = <<"speed", "angle", "palette">>
  BY <1>3, TailsOfFields DEF Rest, Left, FieldNames
<1>4. CASE todo = <<"type", "speed", "angle", "palette">>
  BY <1>4, TailsOfFields DEF Rest, Left, FieldNames
<1>5. QED
  BY <1>1, <1>2, <1>3, <1>4 DEF Rest

LEMMA FillWidgetKeeps == FormInv /\ Form!FillWidget => FormInv'
<1> SUFFICES ASSUME FormInv, Form!FillWidget PROVE FormInv'
  OBVIOUS
<1> DEFINE h == Head(todo)
<1>1. /\ todo # <<>> /\ form' = [form EXCEPT ![h] = Form!Widgets(base)[h]] /\ todo' = Tail(todo)
      /\ UNCHANGED <<row, base, loading, edited>>
  BY DEF Form!FillWidget
<1>2. loading /\ todo \in Rest
  BY <1>1 DEF FormInv, Filling
<1>3. groups' = groups
  BY <1>2 DEF Form!FillWidget, Form!Emit
<1>4. h \in FieldNames /\ todo' \in Rest /\ \A f \in Left : f = h \/ f \in Left'
  BY <1>1, <1>2, HeadOrTail
<1>5. Form!Widgets(base) \in Forms
  BY WidgetsFit DEF FormInv
<1> HIDE DEF h
<1>6. form' \in Forms
  BY <1>1, <1>4, <1>5 DEF FormInv, Forms, FieldNames
<1>7. Filling'
  <2>1. ASSUME NEW f \in FieldNames, f \notin Left' PROVE form'[f] = Form!Widgets(base)[f]
    BY <1>1, <1>2, <1>4, <2>1 DEF FormInv, Filling, Forms, FieldNames
  <2>2. QED
    BY <1>1, <1>2, <1>3, <1>4, <2>1 DEF FormInv, Filling
<1>8. QED
  BY <1>1, <1>2, <1>3, <1>6, <1>7
  DEF FormInv, Form!EffectFormIsFaithful, Form!LookingChangesNothing, Form!FormIsTrue

LEMMA FilledKeeps == FormInv /\ Form!Filled => FormInv'
<1> SUFFICES ASSUME FormInv, Form!Filled PROVE FormInv'
  OBVIOUS
<1>1. /\ loading /\ todo = <<>> /\ loading' = FALSE
      /\ UNCHANGED <<groups, row, base, form, todo, edited>>
  BY DEF Form!Filled
<1>2. \A f \in FieldNames : form[f] = Form!Widgets(groups[row])[f]
  BY <1>1 DEF FormInv, Filling, Left
<1>3. Form!Widgets(groups[row]) \in Forms
  BY <1>1, WidgetsFit DEF FormInv, Filling
<1>4. form = Form!Widgets(groups[row])
  BY <1>2, <1>3 DEF FormInv, Forms, FieldNames
<1>5. QED
  BY <1>1, <1>4
  DEF FormInv, Filling, Left, Form!EffectFormIsFaithful, Form!LookingChangesNothing,
      Form!FormIsTrue

LEMMA EditKeepsForm ==
  ASSUME FormInv, NEW f \in Forms, Form!Edit(f)
  PROVE  FormInv'
<1>1. /\ ~loading /\ row \in FormRows /\ form' = f /\ groups' = [groups EXCEPT ![row] = Form!Current(base, f)]
      /\ edited' = [edited EXCEPT ![row] = TRUE] /\ UNCHANGED <<row, base, loading, todo>>
  BY DEF Form!Edit, Form!Emit, FormInv
<1>2. /\ groups'[row] = Form!Current(base, f)
      /\ \A r \in FormRows : r # row => groups'[r] = groups[r] /\ edited'[r] = edited[r]
      /\ edited'[row]
  BY <1>1 DEF FormInv
<1>3. Form!Current(base, f) \in Form!Effects /\ Form!Current(base, f).direction = groups[row].direction
      /\ Form!Widgets(Form!Current(base, f)) = f
  BY <1>1, CurrentIsShown, FormConstants DEF FormInv, FormRows
<1>4. groups' \in [FormRows -> Form!Effects] /\ edited' \in [FormRows -> BOOLEAN]
  BY <1>1, <1>3 DEF FormInv
<1>5. Form!EffectFormIsFaithful'
  BY <1>1, <1>2, <1>3, <1>4, FormConstants
  DEF FormInv, Form!EffectFormIsFaithful, Form!LookingChangesNothing, Form!FormIsTrue
<1>6. Filling'
  BY <1>1 DEF FormInv, Filling
<1>7. QED
  BY <1>1, <1>2, <1>3, <1>4, <1>5, <1>6 DEF FormInv

(* What the user's hand makes of the form.                                     *)
LEMMA EditsFit ==
  ASSUME FormInv
  PROVE  /\ \A t \in Types : [form EXCEPT !.type = t] \in Forms
         /\ \A n \in 0..MaxSpeed : [form EXCEPT !.speed = n] \in Forms
         /\ \A a \in 0..(MaxAngle - 1) : [form EXCEPT !.angle = a] \in Forms
         /\ \A p \in Form!Palettes : [form EXCEPT !.palette = p] \in Forms
  BY DEF FormInv, Forms

LEMMA PickedFits ==
  ASSUME NEW p \in Form!Palettes, NEW i \in DOMAIN p, NEW c \in Colours
  PROVE  [p EXCEPT ![i] = c] \in Form!Palettes
  BY DEF Form!Palettes

LEMMA AddedFits ==
  ASSUME NEW p \in Form!Palettes, Len(p) < MaxPalette
  PROVE  Append(p, Form!New) \in Form!Palettes
<1>1. p \in Seq(Colours) /\ Len(p) >= 1 /\ Len(p) \in Nat /\ MaxPalette \in Nat
  BY GuiAssumption DEF Form!Palettes, Form!FormAssumption
<1>2. p[1] \in Colours
  BY <1>1
<1>3. Form!New \in Colours
  BY <1>2 DEF Form!New
<1>4. Append(p, Form!New) \in Seq(Colours) /\ Len(Append(p, Form!New)) = Len(p) + 1
  BY <1>1, <1>3
<1>5. QED
  BY <1>1, <1>4 DEF Form!Palettes

LEMMA RemovedFits ==
  ASSUME NEW p \in Form!Palettes, Len(p) > 1
  PROVE  SubSeq(p, 1, Len(p) - 1) \in Form!Palettes
<1>1. p \in Seq(Colours) /\ Len(p) \in Nat /\ Len(p) <= MaxPalette /\ MaxPalette \in Nat
  BY GuiAssumption DEF Form!Palettes, Form!FormAssumption
<1>2. SubSeq(p, 1, Len(p) - 1) \in Seq(Colours) /\ Len(SubSeq(p, 1, Len(p) - 1)) = Len(p) - 1
  BY <1>1
<1>3. QED
  BY <1>1, <1>2 DEF Form!Palettes

LEMMA FormTypes == FormInv => Form!TypeOK
<1> SUFFICES ASSUME FormInv PROVE Form!TypeOK
  OBVIOUS
<1>1. /\ groups \in [Form!Rows -> Form!Effects] /\ base \in Form!Effects
      /\ row \in Form!Rows \cup {0} /\ edited \in [Form!Rows -> BOOLEAN]
  BY FormConstants DEF FormInv
<1>2. /\ form \in [type : Types, speed : 0..MaxSpeed, angle : 0..(MaxAngle - 1),
                   palette : Form!Palettes]
      /\ todo \in Rest /\ loading \in BOOLEAN /\ (todo # <<>> => loading)
  BY DEF FormInv, Forms, Filling
<1>3. QED
  BY <1>1, <1>2 DEF Form!TypeOK, Rest, Form!Fields

LEMMA FormInvKept == FormInv /\ Form!Next => FormInv'
<1> SUFFICES ASSUME FormInv, Form!Next PROVE FormInv'
  OBVIOUS
<1>1. ASSUME NEW f \in Forms, Form!Edit(f) PROVE FormInv'
  BY <1>1, EditKeepsForm
<1>2. form.palette \in Form!Palettes
  BY DEF FormInv, Forms
<1>3. CASE (\E t \in Types : Form!SetType(t)) \/ (\E n \in 0..MaxSpeed : Form!SetSpeed(n))
           \/ (\E a \in 0..(MaxAngle - 1) : Form!SetAngle(a))
  BY <1>1, <1>3, EditsFit DEF Form!SetType, Form!SetSpeed, Form!SetAngle
<1>4. ASSUME NEW i \in 1..MaxPalette, NEW c \in Colours, Form!PickColour(i, c) PROVE FormInv'
  <2>1. [form.palette EXCEPT ![i] = c] \in Form!Palettes
    BY <1>2, <1>4, PickedFits DEF Form!PickColour
  <2>2. [form EXCEPT !.palette[i] = c] = [form EXCEPT !.palette = [form.palette EXCEPT ![i] = c]]
    OBVIOUS
  <2>3. QED
    BY <1>1, <1>4, <2>1, <2>2, EditsFit DEF Form!PickColour
<1>5. CASE Form!AddColour
  BY <1>1, <1>2, <1>5, AddedFits, EditsFit DEF Form!AddColour
<1>6. CASE Form!RemoveColour
  BY <1>1, <1>2, <1>6, RemovedFits, EditsFit DEF Form!RemoveColour
<1>7. QED
  BY <1>3, <1>4, <1>5, <1>6, ChooseRowKeeps, FillWidgetKeeps, FilledKeeps, FormConstants
  DEF Form!Next

-----------------------------------------------------------------------------
(* The effects page: groups, presets and the jobs that save and show them.     *)

LEMMA ListsHaveLength ==
  ASSUME NEW s, Grouping!IsList(s)
  PROVE  /\ Len(s) \in Nat /\ DOMAIN s = 1..Len(s)
         /\ s \in Seq({s[i] : i \in DOMAIN s})
  BY DEF Grouping!IsList

LEMMA SeqIsList ==
  ASSUME NEW S, NEW s \in Seq(S)
  PROVE  Grouping!IsList(s)
<1> DEFINE T == {s[i] : i \in DOMAIN s}
<1>1. Len(s) \in Nat /\ DOMAIN s = 1..Len(s) /\ s = [i \in 1..Len(s) |-> s[i]]
  OBVIOUS
<1>2. s \in [1..Len(s) -> T]
  BY <1>1
<1>3. s \in Seq(T)
  BY <1>1, <1>2, SeqDef
<1>4. QED
  BY <1>3 DEF Grouping!IsList

LEMMA EmptyIsList == Grouping!IsList(<<>>) /\ DOMAIN <<>> = {}
<1>1. <<>> \in Seq({}) /\ Len(<<>>) = 0
  BY EmptySeq
<1>2. DOMAIN <<>> = 1..0
  BY <1>1, LenProperties
<1>3. 1..0 = {}
  OBVIOUS
<1>4. Grouping!IsList(<<>>)
  BY <1>1, SeqIsList
<1>5. QED
  BY <1>2, <1>3, <1>4

(* One more, one less, one changed.                                            *)
LEMMA AppendedList ==
  ASSUME NEW s, Grouping!IsList(s), NEW e
  PROVE  /\ Grouping!IsList(Append(s, e))
         /\ DOMAIN Append(s, e) = 1..(Len(s) + 1)
         /\ \A i \in DOMAIN s : Append(s, e)[i] = s[i]
         /\ Append(s, e)[Len(s) + 1] = e
<1> DEFINE S == {s[i] : i \in DOMAIN s} \cup {e}
<1>1. Len(s) \in Nat /\ DOMAIN s = 1..Len(s) /\ s \in Seq(S)
  BY ListsHaveLength, SeqDef DEF Grouping!IsList
<1> HIDE DEF S
<1>2. e \in S
  BY DEF S
<1>3. Append(s, e) \in Seq(S) /\ Len(Append(s, e)) = Len(s) + 1
  BY <1>1, <1>2
<1>4. Grouping!IsList(Append(s, e))
  BY <1>3, SeqIsList
<1>5. QED
  BY <1>1, <1>2, <1>3, <1>4

LEMMA RemovedList ==
  ASSUME NEW s, Grouping!IsList(s), NEW i \in DOMAIN s
  PROVE  /\ Grouping!IsList(Grouping!RemoveAt(s, i))
         /\ DOMAIN Grouping!RemoveAt(s, i) = 1..(Len(s) - 1)
         /\ \A k \in 1..(Len(s) - 1) :
               Grouping!RemoveAt(s, i)[k] = IF k < i THEN s[k] ELSE s[k + 1]
<1> DEFINE S == {s[k] : k \in DOMAIN s}
           a == SubSeq(s, 1, i - 1)
           b == SubSeq(s, i + 1, Len(s))
<1>1. Len(s) \in Nat /\ DOMAIN s = 1..Len(s) /\ s \in Seq(S) /\ i \in 1..Len(s)
  BY ListsHaveLength
<1> HIDE DEF S
<1>2. a \in Seq(S) /\ Len(a) = i - 1 /\ \A k \in 1..(i - 1) : a[k] = s[k]
  BY <1>1
<1>3. b \in Seq(S) /\ Len(b) = Len(s) - i /\ \A k \in 1..(Len(s) - i) : b[k] = s[k + i]
  BY <1>1
<1> DEFINE c == a \o b
<1>4. Grouping!RemoveAt(s, i) = c
  BY DEF Grouping!RemoveAt
<1> HIDE DEF a, b
<1>5. /\ c \in Seq(S) /\ Len(c) = Len(s) - 1 /\ DOMAIN c = 1..(Len(s) - 1)
      /\ \A k \in 1..(Len(s) - 1) : c[k] = IF k <= i - 1 THEN a[k] ELSE b[k - (i - 1)]
  <2>1. /\ c \in Seq(S) /\ Len(c) = Len(a) + Len(b)
        /\ \A k \in 1..(Len(a) + Len(b)) : c[k] = IF k <= Len(a) THEN a[k] ELSE b[k - Len(a)]
    BY <1>2, <1>3, ConcatProperties
  <2>2. Len(a) + Len(b) = Len(s) - 1
    BY <1>1, <1>2, <1>3
  <2> HIDE DEF c
  <2>3. DOMAIN c = 1..Len(c)
    BY <2>1, LenProperties
  <2>4. QED
    BY <1>2, <2>1, <2>2, <2>3
<1> HIDE DEF c
<1>6. ASSUME NEW k \in 1..(Len(s) - 1)
      PROVE  c[k] = IF k < i THEN s[k] ELSE s[k + 1]
  <2>0. c[k] = IF k <= i - 1 THEN a[k] ELSE b[k - (i - 1)]
    BY <1>5
  <2>1. CASE k < i
    BY <1>1, <1>2, <2>0, <2>1
  <2>2. CASE ~(k < i)
    <3>1. c[k] = b[k - (i - 1)] /\ k - (i - 1) \in 1..(Len(s) - i)
      BY <1>1, <2>0, <2>2
    <3>2. b[k - (i - 1)] = s[(k - (i - 1)) + i] /\ (k - (i - 1)) + i = k + 1
      BY <1>1, <1>3, <3>1
    <3>3. QED
      BY <2>2, <3>1, <3>2
  <2>3. QED
    BY <2>1, <2>2
<1>7. QED
  BY <1>4, <1>5, <1>6, SeqIsList

LEMMA ChangedList ==
  ASSUME NEW s, Grouping!IsList(s), NEW t, DOMAIN t = DOMAIN s, t = [i \in DOMAIN s |-> t[i]]
  PROVE  Grouping!IsList(t) /\ Len(t) = Len(s)
<1>1. Len(s) \in Nat /\ DOMAIN s = 1..Len(s)
  BY ListsHaveLength
<1> DEFINE T == {t[i] : i \in DOMAIN t}
<1>2. t \in [1..Len(s) -> T]
  BY <1>1
<1>3. t \in Seq(T)
  BY <1>1, <1>2, SeqDef
<1>4. QED
  BY <1>1, <1>3 DEF Grouping!IsList
-----------------------------------------------------------------------------
(* Groups stay groups, and exclude each other.                                 *)
Grouped(g) == Grouping!AreGroups(g) /\ Grouping!Exclusive(g)

LEMMA WithoutFits ==
  ASSUME NEW g, Grouping!AreGroups(g), NEW cells
  PROVE  /\ Grouping!IsList(Grouping!Without(g, cells))
         /\ DOMAIN Grouping!Without(g, cells) = DOMAIN g
         /\ Len(Grouping!Without(g, cells)) = Len(g)
         /\ \A i \in DOMAIN g : /\ "cells" \in DOMAIN Grouping!Without(g, cells)[i]
                                /\ Grouping!Without(g, cells)[i].cells = g[i].cells \ cells
<1> DEFINE t == Grouping!Without(g, cells)
<1>1. DOMAIN t = DOMAIN g /\ t = [i \in DOMAIN g |-> t[i]]
  BY DEF Grouping!Without
<1>2. \A i \in DOMAIN g : t[i] = [g[i] EXCEPT !.cells = g[i].cells \ cells]
  BY DEF Grouping!Without
<1> HIDE DEF t
<1>3. Grouping!IsList(t) /\ Len(t) = Len(g)
  BY <1>1, ChangedList DEF Grouping!AreGroups
<1>4. \A i \in DOMAIN g : "cells" \in DOMAIN t[i] /\ t[i].cells = g[i].cells \ cells
  BY <1>2 DEF Grouping!AreGroups
<1>5. QED
  BY <1>1, <1>3, <1>4 DEF t

LEMMA AddedGroupFits ==
  ASSUME NEW g, Grouped(g), NEW cells
  PROVE  Grouped(Grouping!AddedGroup(g, cells))
         /\ DOMAIN Grouping!AddedGroup(g, cells) = 1..(Len(g) + 1)
<1> DEFINE w == Grouping!Without(g, cells)
           e == Grouping!Group(Grouping!NextGroupName(g), cells, CHOOSE fx \in CellEffects : TRUE)
           t == Append(w, e)
<1>1. Grouping!AddedGroup(g, cells) = t
  BY DEF Grouping!AddedGroup
<1>2. /\ Grouping!IsList(w) /\ DOMAIN w = DOMAIN g /\ Len(w) = Len(g)
      /\ \A i \in DOMAIN g : "cells" \in DOMAIN w[i] /\ w[i].cells = g[i].cells \ cells
  BY WithoutFits DEF Grouped
<1>3. "cells" \in DOMAIN e /\ e.cells = cells
  BY DEF Grouping!Group
<1> HIDE DEF w, e
<1>4. /\ Grouping!IsList(t) /\ DOMAIN t = 1..(Len(g) + 1)
      /\ \A i \in DOMAIN g : t[i] = w[i]
      /\ t[Len(g) + 1] = e
  BY <1>2, AppendedList
<1>5. Len(g) \in Nat /\ DOMAIN g = 1..Len(g)
  BY ListsHaveLength DEF Grouped, Grouping!AreGroups
<1> HIDE DEF t
<1>6. \A i \in DOMAIN t : i \in DOMAIN g \/ i = Len(g) + 1
  BY <1>4, <1>5
<1>7. Grouping!AreGroups(t)
  BY <1>2, <1>3, <1>4, <1>6 DEF Grouping!AreGroups
<1>8. Grouping!Exclusive(t)
  <2> SUFFICES ASSUME NEW i \in DOMAIN t, NEW j \in DOMAIN t, i # j
               PROVE  t[i].cells \cap t[j].cells = {}
    BY DEF Grouping!Exclusive
  <2>1. CASE i \in DOMAIN g /\ j \in DOMAIN g
    BY <1>2, <1>4, <2>1 DEF Grouped, Grouping!Exclusive
  <2>2. CASE i \in DOMAIN g /\ j = Len(g) + 1
    BY <1>2, <1>3, <1>4, <2>2
  <2>3. CASE i = Len(g) + 1 /\ j \in DOMAIN g
    BY <1>2, <1>3, <1>4, <2>3
  <2>4. QED
    BY <1>6, <2>1, <2>2, <2>3
<1>9. QED
  BY <1>1, <1>4, <1>7, <1>8 DEF Grouped

LEMMA AssignedFits ==
  ASSUME NEW g, Grouped(g), NEW which \in DOMAIN g, NEW cells
  PROVE  Grouped(Grouping!Assigned(g, which, cells)) /\ DOMAIN Grouping!Assigned(g, which, cells) = DOMAIN g
<1> DEFINE w == Grouping!Without(g, cells)
           t == [w EXCEPT ![which] = [w[which] EXCEPT !.cells = cells]]
<1>1. Grouping!Assigned(g, which, cells) = t
  BY DEF Grouping!Assigned
<1>2. /\ Grouping!IsList(w) /\ DOMAIN w = DOMAIN g
      /\ \A i \in DOMAIN g : "cells" \in DOMAIN w[i] /\ w[i].cells = g[i].cells \ cells
  BY WithoutFits DEF Grouped
<1> HIDE DEF w
<1>3. DOMAIN t = DOMAIN g /\ t = [i \in DOMAIN g |-> t[i]]
  BY <1>2
<1>4. /\ "cells" \in DOMAIN t[which] /\ t[which].cells = cells
      /\ \A i \in DOMAIN g : i # which => t[i] = w[i]
  BY <1>2
<1> HIDE DEF t
<1>5. Grouping!AreGroups(t)
  BY <1>2, <1>3, <1>4, ChangedList DEF Grouping!AreGroups
<1>6. Grouping!Exclusive(t)
  <2> SUFFICES ASSUME NEW i \in DOMAIN g, NEW j \in DOMAIN g, i # j
               PROVE  t[i].cells \cap t[j].cells = {}
    BY <1>3 DEF Grouping!Exclusive
  <2>1. CASE i # which /\ j # which
    BY <1>2, <1>4, <2>1 DEF Grouped, Grouping!Exclusive
  <2>2. CASE i = which \/ j = which
    BY <1>2, <1>4, <2>2
  <2>3. QED
    BY <2>1, <2>2
<1>7. QED
  BY <1>1, <1>3, <1>5, <1>6 DEF Grouped

LEMMA RemovedFitsGroups ==
  ASSUME NEW g, Grouped(g), NEW which \in DOMAIN g
  PROVE  Grouped(Grouping!RemoveAt(g, which)) /\ DOMAIN Grouping!RemoveAt(g, which) = 1..(Len(g) - 1)
<1> DEFINE t == Grouping!RemoveAt(g, which)
<1>1. /\ Grouping!IsList(t) /\ DOMAIN t = 1..(Len(g) - 1)
      /\ \A k \in 1..(Len(g) - 1) : t[k] = IF k < which THEN g[k] ELSE g[k + 1]
  BY RemovedList DEF Grouped, Grouping!AreGroups
<1>2. Len(g) \in Nat /\ DOMAIN g = 1..Len(g)
  BY ListsHaveLength DEF Grouped, Grouping!AreGroups
<1> HIDE DEF t
<1> DEFINE from(k) == IF k < which THEN k ELSE k + 1
<1>3. \A k \in DOMAIN t : from(k) \in DOMAIN g /\ t[k] = g[from(k)]
  BY <1>1, <1>2
<1>4. \A k, n \in DOMAIN t : k # n => from(k) # from(n)
  BY <1>1, <1>2
<1> HIDE DEF from
<1>5. Grouping!AreGroups(t)
  BY <1>1, <1>3 DEF Grouping!AreGroups, Grouped
<1>6. Grouping!Exclusive(t)
  BY <1>3, <1>4 DEF Grouping!Exclusive, Grouped
<1>7. QED
  BY <1>1, <1>5, <1>6 DEF Grouped, t

(* A group whose keys stay.                                                    *)
LEMMA RelabelledFits ==
  ASSUME NEW g, Grouped(g), NEW which \in DOMAIN g, NEW e,
         "cells" \in DOMAIN e, e.cells = g[which].cells
  PROVE  Grouped([g EXCEPT ![which] = e]) /\ DOMAIN [g EXCEPT ![which] = e] = DOMAIN g
<1> DEFINE t == [g EXCEPT ![which] = e]
<1>1. DOMAIN t = DOMAIN g /\ t = [i \in DOMAIN g |-> t[i]]
  OBVIOUS
<1>2. \A i \in DOMAIN g : "cells" \in DOMAIN t[i] /\ t[i].cells = g[i].cells
  BY DEF Grouped, Grouping!AreGroups
<1> HIDE DEF t
<1>3. Grouping!AreGroups(t)
  BY <1>1, <1>2, ChangedList DEF Grouped, Grouping!AreGroups
<1>4. Grouping!Exclusive(t)
  BY <1>1, <1>2 DEF Grouped, Grouping!Exclusive
<1>5. QED
  BY <1>1, <1>3, <1>4 DEF Grouped, t

(* What a job carries is fit for the file and for the runtime.                 *)
IsJob(j) ==
    /\ j = [kind |-> j.kind, list |-> j.list, preset |-> j.preset, at |-> j.at]
    /\ j.kind \in {"save", "delete", "activate", "stop"} /\ j.at \in {"queued", "saved"}
    /\ Grouping!IsStored(j.list) /\ Grouping!IsPreset(j.preset) /\ Grouping!Valid(j.preset)
    /\ j.kind = "save" =>
         \A i \in DOMAIN j.list : j.list[i].key = j.preset.key => j.list[i] = j.preset
    /\ j.kind = "stop" => j.preset = Grouping!NoPreset

AllFit ==
    /\ Grouping!IsStored(file) /\ Grouping!IsStored(presets)
    /\ Grouping!IsPreset(current) /\ Grouping!Valid(current)
    /\ \A j \in jobs : IsJob(j)

ShownIsSaved ==
    /\ presets = file
    /\ ~dirty => \A i \in DOMAIN file : file[i].key = current.key => file[i] = current

(* While nothing was crossed there is one job at most. Until it has saved, the *)
(* page shows the file; then it has what the file now holds. An activation is  *)
(* that of the preset on the page.                                             *)
Undisturbed ==
    ~crossed =>
      /\ \A j, k \in jobs : j = k
      /\ (\A j \in jobs : j.at = "queued" \/ j.kind \in {"activate", "stop"}) => ShownIsSaved
      /\ \A j \in jobs : /\ j.at = "saved" /\ j.kind \in {"save", "delete"} => file = j.list
                         /\ j.kind = "activate" => j.preset = current

PageFits ==
    /\ listed \subseteq Keyboards /\ (device \in listed \/ (device = 0 /\ listed = {}))
    /\ chosen \in DOMAIN Grouping!Groups \cup {0}
    /\ selection \in [Keyboards -> SUBSET Cells]
    /\ dirty \in BOOLEAN /\ crossed \in BOOLEAN

GroupingInv == /\ AllFit /\ Undisturbed /\ PageFits
               /\ Grouping!LiveIsCurrent /\ Grouping!PanelSeesSelection

LEMMA DevicesAreNumbers == Keyboards \subseteq Nat /\ 0 \notin Keyboards
  BY GuiAssumption DEF Grouping!PresetsAssumption

LEMMA EmptyIsStored == Grouping!IsStored(<<>>)
  BY EmptyIsList DEF Grouping!IsStored, Grouping!UniqueKeys

LEMMA BareIsPreset ==
  ASSUME NEW k, NEW l
  PROVE  LET p == Grouping!Preset(k, l, Grouping!NoPrograms)
         IN Grouping!IsPreset(p) /\ Grouping!Valid(p)
<1>1. Grouped(<<>>)
  BY EmptyIsList DEF Grouped, Grouping!AreGroups, Grouping!Exclusive
<1>2. QED
  BY <1>1 DEF Grouped, Grouping!Preset, Grouping!NoPrograms, Grouping!IsPreset, Grouping!Valid

LEMMA NewIsPreset ==
  /\ Grouping!IsPreset(Grouping!NoPreset) /\ Grouping!Valid(Grouping!NoPreset)
  /\ \A taken : Grouping!IsPreset(Grouping!NewPreset(taken)) /\ Grouping!Valid(Grouping!NewPreset(taken))
  BY BareIsPreset DEF Grouping!NoPreset, Grouping!NewPreset

LEMMA HeadIsPreset ==
  ASSUME NEW list, Grouping!IsStored(list), list # <<>>
  PROVE  /\ 1 \in DOMAIN list /\ Head(list) = list[1]
         /\ Grouping!IsPreset(Head(list)) /\ Grouping!Valid(Head(list))
<1>1. Len(list) \in Nat /\ DOMAIN list = 1..Len(list) /\ list \in Seq({list[i] : i \in DOMAIN list})
  BY ListsHaveLength DEF Grouping!IsStored
<1>2. Len(list) \in Nat \ {0}
  BY <1>1, EmptySeq
<1>3. 1 \in DOMAIN list /\ Head(list) = list[1]
  BY <1>1, <1>2
<1>4. QED
  BY <1>3 DEF Grouping!IsStored

(* The device's groups and keys are shown.                                     *)
LEMMA ShowDeviceFits ==
  ASSUME Grouping!ShowDevice, Grouping!IsPreset(current'), device' \in Keyboards \cup {0}
  PROVE  chosen' \in DOMAIN Grouping!Groups' \cup {0} /\ Grouping!PanelSeesSelection'
<1>1. CASE device' = 0
  BY <1>1 DEF Grouping!ShowDevice, Grouping!PanelSeesSelection
<1>2. CASE device' # 0 /\ current'.programs[device'] = <<>>
  BY <1>2 DEF Grouping!ShowDevice, Grouping!PanelSeesSelection
<1>3. CASE device' # 0 /\ current'.programs[device'] # <<>>
  <2> DEFINE g == current'.programs[device']
  <2>1. Grouping!IsList(g)
    BY <1>3 DEF Grouping!IsPreset, Grouping!AreGroups
  <2>2. Len(g) \in Nat /\ DOMAIN g = 1..Len(g) /\ g \in Seq({g[i] : i \in DOMAIN g})
    BY <2>1, ListsHaveLength
  <2>3. Len(g) \in Nat \ {0}
    BY <1>3, <2>2, EmptySeq
  <2>4. 1 \in DOMAIN g
    BY <2>2, <2>3
  <2>5. QED
    BY <1>3, <2>4 DEF Grouping!ShowDevice, Grouping!PanelSeesSelection, Grouping!Groups
<1>4. QED
  BY <1>1, <1>2, <1>3

LEMMA PageStays ==
  ASSUME PageFits, Grouping!PanelSeesSelection,
         UNCHANGED <<listed, device, chosen, selection, panelKeys, current, dirty>>,
         crossed' \in BOOLEAN
  PROVE  PageFits' /\ Grouping!PanelSeesSelection'
  BY DEF PageFits, Grouping!PanelSeesSelection, Grouping!Groups

LEMMA CountedCrosses ==
  ASSUME GroupingInv, Grouping!Counted
  PROVE  crossed' \in BOOLEAN /\ (~crossed' => jobs = {} /\ ~crossed)
  BY DEF Grouping!Counted, GroupingInv, PageFits

LEMMA GroupingStart == Grouping!Init => GroupingInv
<1> SUFFICES ASSUME Grouping!Init PROVE GroupingInv
  OBVIOUS
<1>1. Grouping!IsStored(file) /\ presets = file /\ jobs = {}
  BY GuiAssumption DEF Grouping!Init, Grouping!PresetsAssumption
<1>2. Grouping!IsPreset(current) /\ Grouping!Valid(current)
  BY <1>1, NewIsPreset, HeadIsPreset DEF Grouping!Init
<1>3. \A i \in DOMAIN file : file[i].key = current.key => file[i] = current
  <2>1. CASE file = <<>>
    BY <2>1, EmptyIsList
  <2>2. CASE file # <<>>
    BY <1>1, <2>2, HeadIsPreset DEF Grouping!Init, Grouping!IsStored, Grouping!UniqueKeys
  <2>3. QED
    BY <2>1, <2>2
<1>4. Undisturbed
  BY <1>1, <1>3 DEF Undisturbed, ShownIsSaved
<1>5. PageFits /\ Grouping!PanelSeesSelection /\ Grouping!LiveIsCurrent
  BY DEF Grouping!Init, PageFits, Grouping!PanelSeesSelection, Grouping!LiveIsCurrent
<1>6. QED
  BY <1>1, <1>2, <1>4, <1>5 DEF GroupingInv, AllFit

(* An edit of the preset, by hand: it crosses whatever is under way.           *)
LEMMA EditFits ==
  ASSUME GroupingInv, NEW p, Grouping!IsPreset(p), Grouping!Valid(p), p.key = current.key,
         Grouping!Changed(p), Grouping!Counted, UNCHANGED <<file, presets, jobs, reused>>
  PROVE  AllFit' /\ Undisturbed' /\ Grouping!LiveIsCurrent'
<1>1. current' = p /\ dirty' = TRUE /\ Grouping!UpdateRunning(p)
  BY DEF Grouping!Changed
<1>2. AllFit'
  BY <1>1 DEF GroupingInv, AllFit
<1>3. Undisturbed'
  BY <1>1, CountedCrosses DEF GroupingInv, Undisturbed, ShownIsSaved
<1>4. Grouping!LiveIsCurrent'
  BY <1>1 DEF Grouping!UpdateRunning, Grouping!LiveIsCurrent
<1>5. QED
  BY <1>2, <1>3, <1>4

(* An input that leaves the presets alone.                                     *)
LEMMA LookingFits ==
  ASSUME GroupingInv, Grouping!Input,
         UNCHANGED <<file, presets, current, dirty, active, jobs>>
  PROVE  AllFit' /\ Undisturbed' /\ Grouping!LiveIsCurrent'
<1>1. AllFit'
  BY DEF GroupingInv, AllFit
<1>2. Undisturbed'
  BY CountedCrosses DEF Grouping!Input, GroupingInv, Undisturbed, ShownIsSaved
<1>3. Grouping!LiveIsCurrent'
  BY CountedCrosses DEF Grouping!Input, GroupingInv, Grouping!LiveIsCurrent
<1>4. QED
  BY <1>1, <1>2, <1>3

LEMMA CommitKeeps ==
  ASSUME GroupingInv, device # 0, NEW g, Grouped(g), NEW which \in DOMAIN g \cup {0},
         Grouping!Commit(g, which)
  PROVE  GroupingInv'
<1> DEFINE p == [current EXCEPT !.programs[device] = g]
<1>1. /\ Grouping!Changed(p) /\ chosen' = which /\ Grouping!Counted
      /\ UNCHANGED <<file, presets, listed, device, selection, panelKeys, jobs, reused>>
  BY DEF Grouping!Commit, Grouping!listVars, Grouping!Input
<1>2. device \in Keyboards
  BY DEF GroupingInv, PageFits
<1>3. /\ current = Grouping!Preset(current.key, current.label, current.programs)
      /\ current.programs = [d \in Keyboards |-> current.programs[d]]
      /\ \A d \in Keyboards : Grouped(current.programs[d])
  BY DEF GroupingInv, AllFit, Grouping!IsPreset, Grouping!Valid, Grouped
<1>4. p = Grouping!Preset(current.key, current.label, [current.programs EXCEPT ![device] = g])
  BY <1>3 DEF Grouping!Preset
<1> HIDE DEF p
<1> DEFINE gs == [current.programs EXCEPT ![device] = g]
<1>5. gs = [d \in Keyboards |-> gs[d]] /\ gs[device] = g /\ \A d \in Keyboards : Grouped(gs[d])
  BY <1>2, <1>3
<1> HIDE DEF gs
<1>6. p.key = current.key /\ p.label = current.label /\ p.programs = gs
  BY <1>4 DEF Grouping!Preset, gs
<1>7. Grouping!IsPreset(p) /\ Grouping!Valid(p)
  BY <1>4, <1>5, <1>6 DEF Grouping!IsPreset, Grouping!Valid, Grouped, gs
<1>8. AllFit' /\ Undisturbed' /\ Grouping!LiveIsCurrent'
  BY <1>1, <1>6, <1>7, EditFits
<1>9. current' = p /\ dirty' = TRUE
  BY <1>1 DEF Grouping!Changed
<1>10. PageFits' /\ Grouping!PanelSeesSelection'
  BY <1>1, <1>5, <1>6, <1>9, CountedCrosses
  DEF GroupingInv, PageFits, Grouping!PanelSeesSelection, Grouping!Groups
<1>11. QED
  BY <1>8, <1>10 DEF GroupingInv

(* What the buttons make of the groups.                                        *)
LEMMA GroupsAreGrouped ==
  ASSUME GroupingInv
  PROVE  Grouped(Grouping!Groups) /\ (chosen # 0 => device # 0 /\ chosen \in DOMAIN Grouping!Groups)
<1>1. Grouped(<<>>)
  BY EmptyIsList DEF Grouped, Grouping!AreGroups, Grouping!Exclusive
<1>2. Grouped(Grouping!Groups)
  BY <1>1 DEF GroupingInv, AllFit, PageFits, Grouping!IsPreset, Grouping!Valid, Grouped, Grouping!Groups
<1>3. device = 0 => DOMAIN Grouping!Groups = {}
  BY EmptyIsList DEF Grouping!Groups
<1>4. QED
  BY <1>2, <1>3 DEF GroupingInv, PageFits

LEMMA GroupKeeps ==
  ASSUME GroupingInv,
         \/ Grouping!Add \/ Grouping!Assign \/ Grouping!RemoveGroup
         \/ (\E n \in 1 .. 2 : Grouping!Rename(n)) \/ (\E e \in CellEffects : Grouping!SetEffect(e))
  PROVE  GroupingInv'
<1> DEFINE g == Grouping!Groups
<1>0. Grouped(g) /\ (chosen # 0 => device # 0 /\ chosen \in DOMAIN g)
  BY GroupsAreGrouped
<1>a. Len(g) \in Nat /\ DOMAIN g = 1..Len(g)
  BY <1>0, ListsHaveLength DEF Grouped, Grouping!AreGroups
<1> HIDE DEF g
<1>1. CASE Grouping!Add
  <2>1. device # 0 /\ Grouping!Commit(Grouping!AddedGroup(g, panelKeys), Len(g) + 1)
    BY <1>1 DEF Grouping!Add, g
  <2>2. /\ Grouped(Grouping!AddedGroup(g, panelKeys))
        /\ Len(g) + 1 \in DOMAIN Grouping!AddedGroup(g, panelKeys)
    BY <1>0, <1>a, AddedGroupFits
  <2>3. QED
    BY <2>1, <2>2, CommitKeeps
<1>2. CASE Grouping!Assign
  <2>1. chosen # 0 /\ Grouping!Commit(Grouping!Assigned(g, chosen, panelKeys), chosen)
    BY <1>2 DEF Grouping!Assign, g
  <2>2. /\ Grouped(Grouping!Assigned(g, chosen, panelKeys))
        /\ chosen \in DOMAIN Grouping!Assigned(g, chosen, panelKeys)
    BY <1>0, <2>1, AssignedFits
  <2>3. QED
    BY <1>0, <2>1, <2>2, CommitKeeps
<1>3. CASE Grouping!RemoveGroup
  <2> DEFINE which == IF chosen < Len(g) THEN chosen ELSE Len(g) - 1
  <2>1. chosen # 0 /\ Grouping!Commit(Grouping!RemoveAt(g, chosen), which)
    BY <1>3 DEF Grouping!RemoveGroup, g
  <2>2. /\ Grouped(Grouping!RemoveAt(g, chosen))
        /\ DOMAIN Grouping!RemoveAt(g, chosen) = 1..(Len(g) - 1)
    BY <1>0, <2>1, RemovedFitsGroups
  <2>3. which \in DOMAIN Grouping!RemoveAt(g, chosen) \cup {0}
    BY <1>0, <1>a, <2>1, <2>2
  <2>4. QED
    BY <1>0, <2>1, <2>2, <2>3, CommitKeeps
<1>4. ASSUME NEW e, chosen # 0, "cells" \in DOMAIN e, e.cells = g[chosen].cells,
             Grouping!Commit([g EXCEPT ![chosen] = e], chosen)
      PROVE  GroupingInv'
  <2>1. Grouped([g EXCEPT ![chosen] = e]) /\ chosen \in DOMAIN [g EXCEPT ![chosen] = e]
    BY <1>0, <1>4, RelabelledFits
  <2>2. QED
    BY <1>0, <1>4, <2>1, CommitKeeps
<1>5. chosen # 0 => "cells" \in DOMAIN g[chosen]
  BY <1>0 DEF Grouped, Grouping!AreGroups
<1>6. ASSUME NEW n \in 1 .. 2, Grouping!Rename(n) PROVE GroupingInv'
  <2>1. chosen # 0 /\ Grouping!Commit([g EXCEPT ![chosen] = [g[chosen] EXCEPT !.name = n]], chosen)
    BY <1>6 DEF Grouping!Rename, g
  <2>2. [g[chosen] EXCEPT !.name = n].cells = g[chosen].cells
        /\ "cells" \in DOMAIN [g[chosen] EXCEPT !.name = n]
    BY <1>5, <2>1
  <2>3. QED
    BY <1>4, <2>1, <2>2
<1>7. ASSUME NEW fx \in CellEffects, Grouping!SetEffect(fx) PROVE GroupingInv'
  <2>1. chosen # 0 /\ Grouping!Commit([g EXCEPT ![chosen] = [g[chosen] EXCEPT !.effect = fx]], chosen)
    BY <1>7 DEF Grouping!SetEffect, g
  <2>2. [g[chosen] EXCEPT !.effect = fx].cells = g[chosen].cells
        /\ "cells" \in DOMAIN [g[chosen] EXCEPT !.effect = fx]
    BY <1>5, <2>1
  <2>3. QED
    BY <1>4, <2>1, <2>2
<1>8. QED
  BY <1>1, <1>2, <1>3, <1>6, <1>7

(* Choosing groups, keys and devices changes no preset.                        *)
LEMMA LookingKeeps ==
  ASSUME GroupingInv,
         \/ \E which \in 1 .. InputsOf["grouping"] : Grouping!ChooseGroup(which)
         \/ \E cells \in SUBSET Cells : Grouping!SelectKeys(cells)
         \/ \E d \in Keyboards : Grouping!SelectDevice(d)
         \/ \E devs \in SUBSET Keyboards : Grouping!SetDevices(devs)
  PROVE  GroupingInv'
<1>0. Grouping!IsPreset(current) /\ GroupingInv
  BY DEF GroupingInv, AllFit
<1>1. ASSUME NEW which, Grouping!ChooseGroup(which) PROVE GroupingInv'
  <2>1. /\ which \in DOMAIN Grouping!Groups /\ chosen' = which /\ Grouping!Input
        /\ panelKeys' \in SUBSET Cells
        /\ selection' = [selection EXCEPT ![device] = panelKeys']
        /\ UNCHANGED <<file, presets, current, dirty, listed, device, active, jobs>>
    BY <1>1 DEF Grouping!ChooseGroup, Grouping!listVars
  <2>2. device # 0
    BY <2>1, EmptyIsList DEF Grouping!Groups
  <2>3. PageFits' /\ Grouping!PanelSeesSelection'
    BY <2>1, <2>2, CountedCrosses
    DEF GroupingInv, PageFits, Grouping!PanelSeesSelection, Grouping!Groups, Grouping!Input
  <2>4. QED
    BY <2>1, <2>3, LookingFits DEF GroupingInv
<1>2. ASSUME NEW cells \in SUBSET Cells, Grouping!SelectKeys(cells) PROVE GroupingInv'
  <2>1. /\ device # 0 /\ Grouping!Input /\ panelKeys' = cells
        /\ selection' = [selection EXCEPT ![device] = cells]
        /\ UNCHANGED <<file, presets, current, dirty, listed, device, chosen, active, jobs>>
    BY <1>2 DEF Grouping!SelectKeys, Grouping!listVars
  <2>2. PageFits' /\ Grouping!PanelSeesSelection'
    BY <2>1, CountedCrosses
    DEF GroupingInv, PageFits, Grouping!PanelSeesSelection, Grouping!Groups, Grouping!Input
  <2>3. QED
    BY <2>1, <2>2, LookingFits DEF GroupingInv
<1>3. ASSUME NEW d, Grouping!SelectDevice(d) PROVE GroupingInv'
  <2>1. /\ d \in listed /\ device' = d /\ Grouping!ShowDevice /\ Grouping!Input
        /\ UNCHANGED <<file, presets, current, dirty, listed, selection, active, jobs>>
    BY <1>3 DEF Grouping!SelectDevice
  <2>2. chosen' \in DOMAIN Grouping!Groups' \cup {0} /\ Grouping!PanelSeesSelection'
    BY <1>0, <2>1, ShowDeviceFits DEF GroupingInv, PageFits
  <2>3. PageFits'
    BY <2>1, <2>2, CountedCrosses DEF GroupingInv, PageFits, Grouping!Input
  <2>4. QED
    BY <2>1, <2>2, <2>3, LookingFits DEF GroupingInv
<1>4. ASSUME NEW devs \in SUBSET Keyboards, Grouping!SetDevices(devs) PROVE GroupingInv'
  <2>1. /\ listed' = devs /\ Grouping!ShowDevice /\ Grouping!Input
        /\ device' = IF device \in devs THEN device
                     ELSE IF devs = {} THEN 0 ELSE CHOOSE d \in devs : \A e \in devs : d <= e
        /\ selection' = [d \in Keyboards |-> IF d \in devs THEN selection[d] ELSE {}]
        /\ UNCHANGED <<file, presets, current, dirty, active, jobs>>
    BY <1>4 DEF Grouping!SetDevices
  <2>2. device' \in devs \/ (device' = 0 /\ devs = {})
    <3>1. devs # {} => \E d \in devs : \A e \in devs : d <= e
      BY DevicesAreNumbers, NatHasMin
    <3>2. QED
      BY <2>1, <3>1
  <2>3. chosen' \in DOMAIN Grouping!Groups' \cup {0} /\ Grouping!PanelSeesSelection'
    BY <1>0, <2>1, <2>2, ShowDeviceFits
  <2>4. selection' \in [Keyboards -> SUBSET Cells]
    BY <2>1 DEF GroupingInv, PageFits
  <2>5. PageFits'
    BY <2>1, <2>2, <2>3, <2>4, CountedCrosses DEF GroupingInv, PageFits, Grouping!Input
  <2>6. QED
    BY <2>1, <2>3, <2>5, LookingFits DEF GroupingInv
<1>5. QED
  BY <1>1, <1>2, <1>3, <1>4

LEMMA EditLabelKeeps ==
  ASSUME GroupingInv, NEW word, Grouping!EditLabel(word)
  PROVE  GroupingInv'
<1> DEFINE p == [current EXCEPT !.label = <<word, 0>>]
<1>1. /\ Grouping!Changed(p) /\ Grouping!Counted
      /\ UNCHANGED <<file, presets, listed, device, chosen, selection, panelKeys, jobs, reused>>
  BY DEF Grouping!EditLabel, Grouping!listVars, Grouping!Input
<1>2. current = Grouping!Preset(current.key, current.label, current.programs)
      /\ Grouping!IsPreset(current) /\ Grouping!Valid(current)
  BY DEF GroupingInv, AllFit, Grouping!IsPreset
<1>3. p = Grouping!Preset(current.key, <<word, 0>>, current.programs)
  BY <1>2 DEF Grouping!Preset
<1> HIDE DEF p
<1>4. p.key = current.key /\ p.label = <<word, 0>> /\ p.programs = current.programs
  BY <1>3 DEF Grouping!Preset
<1>5. Grouping!IsPreset(p) /\ Grouping!Valid(p)
  BY <1>2, <1>3, <1>4 DEF Grouping!IsPreset, Grouping!Valid
<1>6. AllFit' /\ Undisturbed' /\ Grouping!LiveIsCurrent'
  BY <1>1, <1>4, <1>5, EditFits
<1>7. current' = p /\ dirty' = TRUE
  BY <1>1 DEF Grouping!Changed
<1>8. PageFits' /\ Grouping!PanelSeesSelection'
  BY <1>1, <1>4, <1>7, CountedCrosses
  DEF GroupingInv, PageFits, Grouping!PanelSeesSelection, Grouping!Groups
<1>9. QED
  BY <1>6, <1>8 DEF GroupingInv

(* Another preset is shown.                                                    *)
LEMMA ShowFits ==
  ASSUME GroupingInv, NEW p, NEW c \in BOOLEAN, Grouping!IsPreset(p), Grouping!Show(p, c),
         UNCHANGED <<listed, device, selection>>, crossed' \in BOOLEAN
  PROVE  /\ current' = p /\ dirty' = c
         /\ PageFits' /\ Grouping!PanelSeesSelection'
<1>1. current' = p /\ dirty' = c /\ Grouping!ShowDevice
  BY DEF Grouping!Show
<1>2. chosen' \in DOMAIN Grouping!Groups' \cup {0} /\ Grouping!PanelSeesSelection'
  BY <1>1, ShowDeviceFits DEF GroupingInv, PageFits
<1>3. QED
  BY <1>1, <1>2 DEF GroupingInv, PageFits

LEMMA NewKeeps == GroupingInv /\ Grouping!New => GroupingInv'
<1> SUFFICES ASSUME GroupingInv, Grouping!New PROVE GroupingInv'
  OBVIOUS
<1> DEFINE p == Grouping!NewPreset(Grouping!KeysOf(presets))
<1>1. /\ Grouping!Show(p, TRUE) /\ Grouping!Counted
      /\ reused' = (reused \/ current'.key = active.key)
      /\ UNCHANGED <<file, presets, listed, device, selection, active, jobs>>
  BY DEF Grouping!New, Grouping!listVars
<1>2. Grouping!IsPreset(p) /\ Grouping!Valid(p)
  BY NewIsPreset
<1> HIDE DEF p
<1>3. current' = p /\ dirty' = TRUE /\ PageFits' /\ Grouping!PanelSeesSelection'
  BY <1>1, <1>2, ShowFits, CountedCrosses
<1>4. AllFit'
  BY <1>1, <1>2, <1>3 DEF GroupingInv, AllFit
<1>5. Undisturbed'
  BY <1>1, <1>3, CountedCrosses DEF GroupingInv, Undisturbed, ShownIsSaved
<1>6. Grouping!LiveIsCurrent'
  BY <1>1, <1>3 DEF Grouping!LiveIsCurrent
<1>7. QED
  BY <1>3, <1>4, <1>5, <1>6 DEF GroupingInv

LEMMA ChooseKeeps ==
  ASSUME GroupingInv, NEW i \in DOMAIN presets, Grouping!Choose(i)
  PROVE  GroupingInv'
<1>1. /\ Grouping!Show(presets[i], FALSE) /\ Grouping!Counted
      /\ UNCHANGED <<file, presets, listed, device, selection, active, jobs>>
  BY DEF Grouping!Choose, Grouping!listVars, Grouping!Input
<1>2. Grouping!IsPreset(presets[i]) /\ Grouping!Valid(presets[i]) /\ Grouping!UniqueKeys(presets)
  BY DEF GroupingInv, AllFit, Grouping!IsStored
<1>3. current' = presets[i] /\ dirty' = FALSE /\ PageFits' /\ Grouping!PanelSeesSelection'
  BY <1>1, <1>2, ShowFits, CountedCrosses
<1>4. AllFit'
  BY <1>1, <1>2, <1>3 DEF GroupingInv, AllFit
<1>5. Undisturbed'
  BY <1>1, <1>2, <1>3, CountedCrosses DEF GroupingInv, Undisturbed, ShownIsSaved, Grouping!UniqueKeys
<1>6. QED
  BY <1>3, <1>4, <1>5 DEF GroupingInv, Grouping!LiveIsCurrent
-----------------------------------------------------------------------------
(* The toolbar: a job more.                                                    *)
Job(kind, list, p, at) == [kind |-> kind, list |-> list, preset |-> p, at |-> at]

LEMMA SubmitKeeps ==
  ASSUME GroupingInv, NEW kind, NEW list, NEW p, Grouping!Submit(kind, list, p),
         IsJob(Job(kind, list, p, "queued")), kind = "activate" => p = current,
         Grouping!Input, UNCHANGED <<file, Grouping!pageVars, active>>
  PROVE  GroupingInv'
<1> DEFINE j == Job(kind, list, p, "queued")
<1>1. jobs' = jobs \cup {j}
  BY DEF Grouping!Submit, Job
<1>2. j.kind = kind /\ j.preset = p /\ j.at = "queued"
  BY DEF Job
<1> HIDE DEF j
<1>3. /\ UNCHANGED <<file, presets, current, dirty, listed, device, chosen, selection, panelKeys,
                     active, reused>>
      /\ crossed' \in BOOLEAN /\ (~crossed' => jobs = {} /\ ~crossed)
  BY CountedCrosses DEF Grouping!Input, Grouping!pageVars
<1>4. AllFit'
  BY <1>1, <1>3 DEF GroupingInv, AllFit, j
<1>5. Undisturbed'
  BY <1>1, <1>2, <1>3 DEF GroupingInv, Undisturbed, ShownIsSaved
<1>6. PageFits' /\ Grouping!PanelSeesSelection'
  BY <1>3, PageStays DEF GroupingInv
<1>7. QED
  BY <1>3, <1>4, <1>5, <1>6 DEF GroupingInv, Grouping!LiveIsCurrent

(* The list with the preset put in is one for the file.                        *)
LEMMA PutIsStored ==
  ASSUME NEW list, Grouping!IsStored(list), NEW p, Grouping!IsPreset(p), Grouping!Valid(p)
  PROVE  LET t == IF p.key \in Grouping!KeysOf(list)
                  THEN [i \in DOMAIN list |-> IF list[i].key = p.key THEN p ELSE list[i]]
                  ELSE Append(list, p)
         IN Grouping!IsStored(t) /\ \A i \in DOMAIN t : t[i].key = p.key => t[i] = p
<1>0. Grouping!IsList(list) /\ Grouping!UniqueKeys(list)
      /\ \A i \in DOMAIN list : Grouping!IsPreset(list[i]) /\ Grouping!Valid(list[i])
  BY DEF Grouping!IsStored
<1>1. CASE p.key \in Grouping!KeysOf(list)
  <2> DEFINE t == [i \in DOMAIN list |-> IF list[i].key = p.key THEN p ELSE list[i]]
  <2>1. /\ DOMAIN t = DOMAIN list /\ t = [i \in DOMAIN list |-> t[i]]
        /\ \A i \in DOMAIN t : t[i] = IF list[i].key = p.key THEN p ELSE list[i]
    OBVIOUS
  <2> HIDE DEF t
  <2>2. Grouping!IsList(t)
    BY <1>0, <2>1, ChangedList
  <2>3. Grouping!UniqueKeys(t)
    BY <1>0, <2>1 DEF Grouping!UniqueKeys
  <2>4. Grouping!IsStored(t) /\ \A i \in DOMAIN t : t[i].key = p.key => t[i] = p
    BY <1>0, <2>1, <2>2, <2>3 DEF Grouping!IsStored
  <2>5. QED
    BY <1>1, <2>4 DEF t
<1>2. CASE p.key \notin Grouping!KeysOf(list)
  <2> DEFINE t == Append(list, p)
  <2>1. /\ Grouping!IsList(t) /\ DOMAIN t = 1..(Len(list) + 1)
        /\ \A i \in DOMAIN list : t[i] = list[i]
        /\ t[Len(list) + 1] = p
    BY <1>0, AppendedList
  <2>2. Len(list) \in Nat /\ DOMAIN list = 1..Len(list)
    BY <1>0, ListsHaveLength
  <2> HIDE DEF t
  <2>3. \A i \in DOMAIN t : i \in DOMAIN list \/ i = Len(list) + 1
    BY <2>1, <2>2
  <2>4. \A i \in DOMAIN list : list[i].key # p.key
    BY <1>2 DEF Grouping!KeysOf
  <2>5. Grouping!UniqueKeys(t)
    BY <1>0, <2>1, <2>3, <2>4 DEF Grouping!UniqueKeys
  <2>6. Grouping!IsStored(t) /\ \A i \in DOMAIN t : t[i].key = p.key => t[i] = p
    BY <1>0, <2>1, <2>3, <2>4, <2>5 DEF Grouping!IsStored
  <2>7. QED
    BY <1>2, <2>6 DEF t
<1>3. QED
  BY <1>1, <1>2

LEMMA RestIsStored ==
  ASSUME NEW list, Grouping!IsStored(list), NEW i \in DOMAIN list
  PROVE  Grouping!IsStored(Grouping!RemoveAt(list, i))
<1> DEFINE t == Grouping!RemoveAt(list, i)
<1>0. Grouping!IsList(list) /\ Grouping!UniqueKeys(list)
      /\ \A k \in DOMAIN list : Grouping!IsPreset(list[k]) /\ Grouping!Valid(list[k])
  BY DEF Grouping!IsStored
<1>1. /\ Grouping!IsList(t) /\ DOMAIN t = 1..(Len(list) - 1)
      /\ \A k \in 1..(Len(list) - 1) : t[k] = IF k < i THEN list[k] ELSE list[k + 1]
  BY <1>0, RemovedList
<1>2. Len(list) \in Nat /\ DOMAIN list = 1..Len(list)
  BY <1>0, ListsHaveLength
<1> HIDE DEF t
<1> DEFINE from(k) == IF k < i THEN k ELSE k + 1
<1>3. \A k \in DOMAIN t : from(k) \in DOMAIN list /\ t[k] = list[from(k)]
  BY <1>1, <1>2
<1>4. \A k, n \in DOMAIN t : from(k) = from(n) => k = n
  BY <1>1, <1>2
<1> HIDE DEF from
<1>5. Grouping!UniqueKeys(t)
  BY <1>0, <1>3, <1>4 DEF Grouping!UniqueKeys
<1>6. QED
  BY <1>0, <1>1, <1>3, <1>5 DEF Grouping!IsStored, t

LEMMA SaveJobKeeps ==
  ASSUME GroupingInv, NEW p, Grouping!IsPreset(p), Grouping!SaveJob(p)
  PROVE  GroupingInv'
<1> DEFINE t == IF p.key \in Grouping!KeysOf(presets)
                THEN [i \in DOMAIN presets |-> IF presets[i].key = p.key THEN p ELSE presets[i]]
                ELSE Append(presets, p)
<1>1. /\ Grouping!Valid(p) /\ Grouping!Submit("save", t, p) /\ Grouping!Input
      /\ UNCHANGED <<file, Grouping!pageVars, active>>
  BY DEF Grouping!SaveJob
<1>2. Grouping!IsStored(t) /\ \A i \in DOMAIN t : t[i].key = p.key => t[i] = p
  BY <1>1, PutIsStored DEF GroupingInv, AllFit
<1> HIDE DEF t
<1>3. IsJob(Job("save", t, p, "queued"))
  BY <1>1, <1>2 DEF IsJob, Job
<1>4. QED
  BY <1>1, <1>3, SubmitKeeps

LEMMA SaveAsKeeps == GroupingInv /\ Grouping!SaveAs => GroupingInv'
<1> SUFFICES ASSUME GroupingInv, Grouping!SaveAs PROVE GroupingInv'
  OBVIOUS
<1>1. PICK k, l : Grouping!SaveJob(Grouping!Preset(k, l, current.programs))
  BY DEF Grouping!SaveAs
<1>2. Grouping!IsPreset(Grouping!Preset(k, l, current.programs))
  BY DEF GroupingInv, AllFit, Grouping!IsPreset, Grouping!Preset
<1>3. QED
  BY <1>1, <1>2, SaveJobKeeps

LEMMA StopIsJob == IsJob(Job("stop", <<>>, Grouping!NoPreset, "queued"))
  BY EmptyIsStored, NewIsPreset DEF IsJob, Job

(* A preset was deleted: the page shows the first that is left, or a new one,  *)
(* and stops the deleted one.                                                  *)
LEMMA AfterDeleteKeeps ==
  ASSUME GroupingInv, NEW list, NEW p, NEW done, Grouping!AfterDelete(list, p, done),
         Grouping!IsStored(list), crossed' \in BOOLEAN,
         ~crossed' => jobs \ done = {} /\ list = file
  PROVE  GroupingInv'
<1> DEFINE q == IF list = <<>> THEN Grouping!NewPreset({}) ELSE Head(list)
           j == Job("stop", <<>>, Grouping!NoPreset, "queued")
<1>1. /\ presets' = list /\ Grouping!Show(q, FALSE)
      /\ UNCHANGED <<file, listed, device, selection, active>>
  BY DEF Grouping!AfterDelete, Grouping!listVars
<1>2. \E new \in {{}, {j}} : jobs' = (jobs \ done) \cup new
  BY DEF Grouping!AfterDelete, Job
<1>3. IsJob(j) /\ j.kind = "stop" /\ j.at = "queued"
  BY StopIsJob DEF Job
<1> HIDE DEF j
<1>4. Grouping!IsPreset(q) /\ Grouping!Valid(q)
  BY NewIsPreset, HeadIsPreset
<1>5. \A i \in DOMAIN list : list[i].key = q.key => list[i] = q
  <2>1. CASE list = <<>>
    BY <2>1, EmptyIsList
  <2>2. CASE list # <<>>
    BY <2>2, HeadIsPreset DEF Grouping!IsStored, Grouping!UniqueKeys
  <2>3. QED
    BY <2>1, <2>2
<1> HIDE DEF q
<1>6. current' = q /\ dirty' = FALSE /\ PageFits' /\ Grouping!PanelSeesSelection'
  BY <1>1, <1>4, ShowFits
<1>7. AllFit'
  BY <1>1, <1>2, <1>3, <1>4, <1>6 DEF GroupingInv, AllFit
<1>8. Undisturbed'
  <2> SUFFICES ASSUME ~crossed'
               PROVE  /\ \A m, k \in jobs' : m = k
                      /\ ShownIsSaved'
                      /\ \A m \in jobs' : m = j
    BY <1>3 DEF Undisturbed
  <2>1. list = file /\ \A m \in jobs' : m = j
    BY <1>2
  <2>2. ShownIsSaved'
    BY <1>1, <1>5, <1>6, <2>1 DEF ShownIsSaved
  <2>3. QED
    BY <2>1, <2>2
<1>9. QED
  BY <1>6, <1>7, <1>8 DEF GroupingInv, Grouping!LiveIsCurrent

LEMMA DeleteKeeps == GroupingInv /\ Grouping!Delete => GroupingInv'
<1> SUFFICES ASSUME GroupingInv, Grouping!Delete PROVE GroupingInv'
  OBVIOUS
<1>1. Grouping!Input /\ crossed' \in BOOLEAN /\ (~crossed' => jobs = {} /\ ~crossed)
  BY CountedCrosses DEF Grouping!Delete, Grouping!Input
<1>2. Grouping!IsStored(presets)
  BY DEF GroupingInv, AllFit
<1>3. CASE Grouping!AfterDelete(presets, current, {})
  <2>1. ~crossed' => jobs \ {} = {} /\ presets = file
    BY <1>1 DEF GroupingInv, Undisturbed, ShownIsSaved
  <2>2. QED
    BY <1>1, <1>2, <1>3, <2>1, AfterDeleteKeeps
<1>4. ASSUME NEW i \in DOMAIN presets, Grouping!Submit("delete", Grouping!RemoveAt(presets, i), current),
             UNCHANGED <<file, Grouping!pageVars, active>>
      PROVE  GroupingInv'
  <2> DEFINE t == Grouping!RemoveAt(presets, i)
  <2>1. Grouping!IsStored(t)
    BY <1>2, RestIsStored
  <2> HIDE DEF t
  <2>2. IsJob(Job("delete", t, current, "queued"))
    BY <2>1 DEF IsJob, Job, GroupingInv, AllFit
  <2>3. QED
    BY <1>1, <1>4, <2>2, SubmitKeeps DEF t
<1>5. QED
  BY <1>3, <1>4 DEF Grouping!Delete

LEMMA ShowingKeeps ==
  ASSUME GroupingInv, Grouping!Activate \/ Grouping!Stop
  PROVE  GroupingInv'
<1>1. CASE Grouping!Activate
  <2>1. /\ Grouping!Submit("activate", <<>>, current) /\ Grouping!Input
        /\ UNCHANGED <<file, Grouping!pageVars, active>>
    BY <1>1 DEF Grouping!Activate
  <2>2. IsJob(Job("activate", <<>>, current, "queued"))
    BY EmptyIsStored DEF IsJob, Job, GroupingInv, AllFit
  <2>3. QED
    BY <2>1, <2>2, SubmitKeeps
<1>2. CASE Grouping!Stop
  <2>1. /\ Grouping!Submit("stop", <<>>, Grouping!NoPreset) /\ Grouping!Input
        /\ UNCHANGED <<file, Grouping!pageVars, active>>
    BY <1>2 DEF Grouping!Stop
  <2>2. QED
    BY <2>1, StopIsJob, SubmitKeeps
<1>3. QED
  BY <1>1, <1>2
-----------------------------------------------------------------------------
(* The jobs run, and report.                                                   *)

LEMMA RunJobKeeps ==
  ASSUME GroupingInv, NEW j \in jobs, Grouping!RunJob(j)
  PROVE  GroupingInv'
<1> DEFINE s == [j EXCEPT !.at = "saved"]
<1>1. j.at = "queued" /\ UNCHANGED <<presets, current, dirty, listed, device, chosen, selection,
                                     panelKeys, crossed, reused>>
  BY DEF Grouping!RunJob, Grouping!pageVars
<1>2. IsJob(j) /\ crossed' \in BOOLEAN
  BY <1>1 DEF GroupingInv, AllFit, PageFits
<1>3. s = Job(j.kind, j.list, j.preset, "saved")
  BY <1>2 DEF IsJob, Job
<1> HIDE DEF s
<1>4. s.kind = j.kind /\ s.list = j.list /\ s.preset = j.preset /\ s.at = "saved"
  BY <1>3 DEF Job
<1>5. IsJob(s)
  BY <1>2, <1>3, <1>4 DEF IsJob, Job
<1>6. PageFits' /\ Grouping!PanelSeesSelection'
  BY <1>1, <1>2, PageStays DEF GroupingInv
<1>7. ~crossed => jobs = {j} /\ ShownIsSaved
  BY <1>1 DEF GroupingInv, Undisturbed
<1>8. CASE j.kind \in {"save", "delete"} /\ file' = j.list /\ jobs' = Grouping!Moved(j, "saved")
           /\ UNCHANGED active
  <2>1. jobs' = (jobs \ {j}) \cup {s}
    BY <1>8 DEF Grouping!Moved, s
  <2>2. AllFit'
    BY <1>1, <1>2, <1>5, <1>8, <2>1 DEF GroupingInv, AllFit, IsJob
  <2>3. Undisturbed'
    BY <1>1, <1>4, <1>7, <1>8, <2>1 DEF Undisturbed
  <2>4. Grouping!LiveIsCurrent'
    BY <1>1, <1>8 DEF GroupingInv, Grouping!LiveIsCurrent
  <2>5. QED
    BY <1>6, <2>2, <2>3, <2>4 DEF GroupingInv
<1>9. CASE jobs' = jobs \ {j} /\ UNCHANGED <<file, active>>
  <2>1. AllFit'
    BY <1>1, <1>9 DEF GroupingInv, AllFit
  <2>2. Undisturbed'
    BY <1>1, <1>7, <1>9 DEF Undisturbed, ShownIsSaved
  <2>3. Grouping!LiveIsCurrent'
    BY <1>1, <1>9 DEF GroupingInv, Grouping!LiveIsCurrent
  <2>4. QED
    BY <1>6, <2>1, <2>2, <2>3 DEF GroupingInv
<1>10. CASE j.kind \in {"activate", "stop"} /\ active' = j.preset
            /\ jobs' = Grouping!Moved(j, "saved") /\ UNCHANGED file
  <2>1. jobs' = (jobs \ {j}) \cup {s}
    BY <1>10 DEF Grouping!Moved, s
  <2>2. AllFit'
    BY <1>1, <1>5, <1>10, <2>1 DEF GroupingInv, AllFit
  <2>3. ~crossed => (j.kind = "activate" => j.preset = current)
    BY DEF GroupingInv, Undisturbed
  <2>4. Undisturbed'
    BY <1>1, <1>4, <1>7, <1>10, <2>1, <2>3 DEF Undisturbed, ShownIsSaved
  <2>5. Grouping!LiveIsCurrent'
    BY <1>1, <1>2, <1>10, <2>3 DEF IsJob, Grouping!LiveIsCurrent
  <2>6. QED
    BY <1>6, <2>2, <2>4, <2>5 DEF GroupingInv
<1>11. QED
  BY <1>8, <1>9, <1>10 DEF Grouping!RunJob

LEMMA ReportKeeps ==
  ASSUME GroupingInv, NEW j \in jobs,
         Grouping!OnSaved(j) \/ Grouping!OnDeleted(j) \/ Grouping!OnActivated(j)
  PROVE  GroupingInv'
<1>1. IsJob(j) /\ crossed \in BOOLEAN
  BY DEF GroupingInv, AllFit, PageFits
<1>2. ~crossed => jobs \ {j} = {}
  BY DEF GroupingInv, Undisturbed
<1>3. CASE Grouping!OnSaved(j)
  <2>1. /\ j.at = "saved" /\ j.kind = "save" /\ jobs' = jobs \ {j} /\ presets' = j.list
        /\ Grouping!Show(j.preset, FALSE) /\ Grouping!UpdateRunning(j.preset)
        /\ UNCHANGED <<file, listed, device, selection, crossed, reused>>
    BY <1>3 DEF Grouping!OnSaved, Grouping!listVars
  <2>2. current' = j.preset /\ dirty' = FALSE /\ PageFits' /\ Grouping!PanelSeesSelection'
    BY <1>1, <2>1, ShowFits DEF IsJob
  <2>3. AllFit'
    BY <1>1, <2>1, <2>2 DEF GroupingInv, AllFit, IsJob
  <2>4. Undisturbed'
    <3>1. ~crossed => file = j.list
      BY <2>1 DEF GroupingInv, Undisturbed
    <3>2. \A i \in DOMAIN j.list : j.list[i].key = j.preset.key => j.list[i] = j.preset
      BY <1>1, <2>1 DEF IsJob
    <3>3. QED
      BY <1>2, <2>1, <2>2, <3>1, <3>2 DEF Undisturbed, ShownIsSaved
  <2>5. QED
    BY <2>2, <2>3, <2>4 DEF GroupingInv, Grouping!LiveIsCurrent
<1>4. CASE Grouping!OnDeleted(j)
  <2>1. /\ j.at = "saved" /\ j.kind = "delete" /\ UNCHANGED crossed
        /\ Grouping!AfterDelete(j.list, j.preset, {j})
    BY <1>4 DEF Grouping!OnDeleted
  <2>2. ~crossed => j.list = file
    BY <2>1 DEF GroupingInv, Undisturbed
  <2>3. QED
    BY <1>1, <1>2, <2>1, <2>2, AfterDeleteKeeps DEF IsJob
<1>5. CASE Grouping!OnActivated(j)
  <2>1. /\ j.kind \in {"activate", "stop"} /\ jobs' = jobs \ {j}
        /\ UNCHANGED <<file, presets, current, dirty, listed, device, chosen, selection, panelKeys,
                       active, crossed, reused>>
    BY <1>5 DEF Grouping!OnActivated, Grouping!pageVars
  <2>2. AllFit'
    BY <2>1 DEF GroupingInv, AllFit
  <2>3. ~crossed => ShownIsSaved
    BY <2>1 DEF GroupingInv, Undisturbed
  <2>4. Undisturbed'
    BY <1>2, <2>1, <2>3 DEF Undisturbed, ShownIsSaved
  <2>5. PageFits' /\ Grouping!PanelSeesSelection'
    BY <1>1, <2>1, PageStays DEF GroupingInv
  <2>6. QED
    BY <2>1, <2>2, <2>4, <2>5 DEF GroupingInv, Grouping!LiveIsCurrent
<1>6. QED
  BY <1>3, <1>4, <1>5

LEMMA GroupingInvKept == GroupingInv /\ Grouping!Next => GroupingInv'
<1> SUFFICES ASSUME GroupingInv, Grouping!Next PROVE GroupingInv'
  OBVIOUS
<1>1. CASE Grouping!Save
  BY <1>1, SaveJobKeeps DEF Grouping!Save, GroupingInv, AllFit
<1>2. CASE Grouping!Activate \/ Grouping!Stop
  BY <1>2, ShowingKeeps
<1>3. CASE \E j \in jobs : \/ Grouping!RunJob(j) \/ Grouping!OnSaved(j)
                           \/ Grouping!OnDeleted(j) \/ Grouping!OnActivated(j)
  BY <1>3, RunJobKeeps, ReportKeeps
<1>4. QED
  BY <1>1, <1>2, <1>3, GroupKeeps, LookingKeeps, EditLabelKeeps, NewKeeps, ChooseKeeps,
     SaveAsKeeps, DeleteKeeps
  DEF Grouping!Next

(* With nothing crossed the page is the file, and no edit makes a preset that  *)
(* cannot be saved.                                                            *)
(* Whether New took a key stays a truth value.                                 *)
LEMMA ReusedIsKept == reused \in BOOLEAN /\ Grouping!Next => reused' \in BOOLEAN
<1> SUFFICES ASSUME reused \in BOOLEAN, Grouping!Next PROVE reused' \in BOOLEAN
  OBVIOUS
<1>1. CASE \/ Grouping!Add \/ Grouping!Assign \/ Grouping!RemoveGroup
           \/ (\E n \in 1 .. 2 : Grouping!Rename(n)) \/ (\E e \in CellEffects : Grouping!SetEffect(e))
  <2>1. \E g, which : Grouping!Commit(g, which)
    BY <1>1 DEF Grouping!Add, Grouping!Assign, Grouping!RemoveGroup, Grouping!Rename, Grouping!SetEffect
  <2>2. QED
    BY <2>1 DEF Grouping!Commit, Grouping!Input
<1>2. CASE \/ \E which \in 1 .. InputsOf["grouping"] : Grouping!ChooseGroup(which)
           \/ \E cells \in SUBSET Cells : Grouping!SelectKeys(cells)
           \/ \E d \in Keyboards : Grouping!SelectDevice(d)
           \/ \E devs \in SUBSET Keyboards : Grouping!SetDevices(devs)
  BY <1>2 DEF Grouping!ChooseGroup, Grouping!SelectKeys, Grouping!SelectDevice, Grouping!SetDevices, Grouping!Input
<1>3. CASE Grouping!EditLabel("Own") \/ \E i \in DOMAIN presets : Grouping!Choose(i)
  BY <1>3 DEF Grouping!EditLabel, Grouping!Choose, Grouping!Input
<1>4. CASE Grouping!New
  BY <1>4 DEF Grouping!New
<1>5. CASE Grouping!Save \/ Grouping!SaveAs \/ Grouping!Delete \/ Grouping!Activate \/ Grouping!Stop
  BY <1>5 DEF Grouping!Save, Grouping!SaveJob, Grouping!SaveAs, Grouping!Delete, Grouping!Activate, Grouping!Stop, Grouping!Input
<1>6. CASE \E j \in jobs :
             Grouping!RunJob(j) \/ Grouping!OnSaved(j) \/ Grouping!OnDeleted(j) \/ Grouping!OnActivated(j)
  BY <1>6 DEF Grouping!RunJob, Grouping!OnSaved, Grouping!OnDeleted, Grouping!OnActivated
<1>7. QED
  BY <1>1, <1>2, <1>3, <1>4, <1>5, <1>6 DEF Grouping!Next

LEMMA GroupingTypes == GroupingInv /\ reused \in BOOLEAN => Grouping!TypeOK
<1> SUFFICES ASSUME GroupingInv, reused \in BOOLEAN PROVE Grouping!TypeOK
  OBVIOUS
<1>1. \A j \in jobs : j.kind \in {"save", "delete", "activate", "stop"} /\ j.at \in {"queued", "saved"}
  BY DEF GroupingInv, AllFit, IsJob
<1>2. QED
  BY <1>1 DEF GroupingInv, PageFits, Grouping!TypeOK

LEMMA GroupingAgrees == GroupingInv => Grouping!EffectsArePreserved
<1> SUFFICES ASSUME GroupingInv PROVE Grouping!EffectsArePreserved
  OBVIOUS
<1>1. Grouping!EditsStayValid
  BY DEF GroupingInv, AllFit, IsJob, Grouping!IsStored, Grouping!EditsStayValid
<1>2. Grouping!PageIsFile
  BY DEF GroupingInv, Undisturbed, ShownIsSaved, Grouping!PageIsFile
<1>3. QED
  BY <1>1, <1>2 DEF GroupingInv, Grouping!EffectsArePreserved

-----------------------------------------------------------------------------
(* All parts. A step is one of the part at work, or none.                      *)
PartsAgree ==
    /\ part = "window" => WindowInv
    /\ part = "lights" => LightsInv
    /\ part = "mouse" => MouseInv
    /\ part = "prefs" => PrefsInv
    /\ part = "loads" => LoadsInv
    /\ part = "monitor" => MonitorInv
    /\ part = "pages" => PagesInv
    /\ part = "editor" => EditorInv
    /\ part = "keys" => KeysInv
    /\ part = "form" => FormInv
    /\ part = "grouping" => GroupingInv /\ reused \in BOOLEAN

LEMMA PartsStart == GuiInit => PartsAgree
<1> USE DEF PartsAgree
<1>1. CASE WindowInit
  BY <1>1, WindowStart DEF WindowInit
<1>2. CASE LightsInit
  BY <1>2, LightsStart DEF LightsInit
<1>3. CASE MouseInit
  BY <1>3, MouseStart DEF MouseInit
<1>4. CASE PrefsInit
  BY <1>4, PrefsStart DEF PrefsInit
<1>5. CASE LoadsInit
  BY <1>5, LoadsStart DEF LoadsInit
<1>6. CASE MonitorInit
  BY <1>6, MonitorStart DEF MonitorInit
<1>7. CASE PagesInit
  BY <1>7, PagesStart DEF PagesInit
<1>8. CASE KeysInit
  BY <1>8, KeysStart DEF KeysInit
<1>9. CASE FormInit
  BY <1>9, FormStart DEF FormInit
<1>10. CASE GroupingInit
  BY <1>10, GroupingStart DEF GroupingInit, Grouping!Init
<1>11. CASE EditorInit
  BY <1>11, EditorStart DEF EditorInit
<1>12. QED
  BY <1>1, <1>2, <1>3, <1>4, <1>5, <1>6, <1>7, <1>8, <1>9, <1>10, <1>11 DEF GuiInit

LEMMA PartsStep == PartsAgree /\ GuiNext => PartsAgree'
<1> SUFFICES ASSUME PartsAgree, GuiNext PROVE PartsAgree'
  OBVIOUS
<1> USE DEF PartsAgree
<1>1. CASE WindowStep
  BY <1>1, WindowInvKept DEF WindowStep
<1>2. CASE LightsStep
  BY <1>2, LightsInvKept DEF LightsStep
<1>3. CASE MouseStep
  BY <1>3, MouseInvKept DEF MouseStep
<1>4. CASE PrefsStep
  BY <1>4, PrefsInvKept DEF PrefsStep
<1>5. CASE LoadsStep
  BY <1>5, LoadsInvKept DEF LoadsStep
<1>6. CASE MonitorStep
  BY <1>6, MonitorInvKept DEF MonitorStep
<1>7. CASE PagesStep
  BY <1>7, PagesInvKept DEF PagesStep
<1>8. CASE KeysStep
  BY <1>8, KeysInvKept DEF KeysStep
<1>9. CASE FormStep
  BY <1>9, FormInvKept DEF FormStep
<1>10. CASE GroupingStep
  BY <1>10, GroupingInvKept, ReusedIsKept DEF GroupingStep
<1>11. CASE EditorStep
  BY <1>11, EditorInvKept DEF EditorStep
<1>12. QED
  BY <1>1, <1>2, <1>3, <1>4, <1>5, <1>6, <1>7, <1>8, <1>9, <1>10, <1>11 DEF GuiNext

(* A step that changes nothing.                                                *)
LEMMA PartsIdle == PartsAgree /\ UNCHANGED allVars => PartsAgree'
<1> SUFFICES ASSUME PartsAgree, UNCHANGED allVars PROVE PartsAgree'
  OBVIOUS
<1> USE DEF PartsAgree, allVars, sharedVars
<1>1. part = "window" => WindowInv'
  BY DEF windowOwn, WindowInv, FlagsAgree, WindowTypes, ListIsCurrent, Window!TypeOK,
     Window!Quiet, Window!SelectionIsShown
<1>2. part = "lights" => LightsInv'
  BY DEF lightsOwn, LightsInv, Lights!TypeOK, TaskAgrees, SliderIsHeard, LabelIsNew
<1>3. part = "mouse" => MouseInv'
  BY DEF mouseOwn, MouseInv, Mouse!TypeOK, Mouse!MouseIsLegal, RateIsLegal
<1>4. part = "prefs" => PrefsInv'
  BY DEF prefsOwn, PrefsInv, Prefs!TypeOK, Prefs!AutostartIsTrue, Prefs!BoxIsTrue
<1>5. part = "loads" => LoadsInv'
  BY DEF loadsOwn, LoadsInv, CountersAgree, Loads!TypeOK, Loads!LoadsAreRecent
<1>6. part = "monitor" => MonitorInv'
  BY DEF monitorOwn, MonitorInv, Monitor!TypeOK, Monitor!OverlaySettingsAreKept,
     Monitor!FileIsConfig, Monitor!OverlayIsPlaced, Monitor!AppliedIsShown, Monitor!UserFilesStay
<1>7. part = "pages" => PagesInv'
  BY PagesIdle DEF pagesOwn
<1>8. part = "keys" => KeysInv'
  BY DEF keysOwn, KeysInv, Keys!TypeOK, Keys!SelectionIsTold, Keys!BandIsExact
<1>9. part = "form" => FormInv'
  BY DEF formOwn, FormInv, Filling, Form!EffectFormIsFaithful, Form!FormIsTrue,
     Form!LookingChangesNothing, Left
<1>10. part = "grouping" => GroupingInv' /\ reused' \in BOOLEAN
  BY DEF groupingOwn, GroupingInv, AllFit, Undisturbed, ShownIsSaved, PageFits,
     Grouping!LiveIsCurrent, Grouping!PanelSeesSelection, Grouping!Groups
<1>11. part = "editor" => EditorInv'
  BY EditorIdle
<1>12. QED
  BY <1>1, <1>2, <1>3, <1>4, <1>5, <1>6, <1>7, <1>8, <1>9, <1>10, <1>11

(* Every part keeps what it promises, from the start to the end of it.         *)
THEOREM GuiInvariance == GuiSpec => []PartsAgree
<1>1. PartsAgree /\ [GuiNext]_allVars => PartsAgree'
  BY PartsStep, PartsIdle
<1>2. QED
  BY PartsStart, <1>1, PTL DEF GuiSpec

(* The window: at most one service action runs, whether the window or the      *)
(* Daemon dialog started it; no page shows devices the manager does not have   *)
(* once the action is over; and the device the page shows is the chosen one    *)
(* (ui/main_window.py, ui/daemon_panel.py).                                    *)
THEOREM WindowIsTrueAlways == GuiSpec => []WindowIsTrue
<1>1. PartsAgree => WindowIsTrue
  BY WindowAgrees DEF PartsAgree, WindowIsTrue
<1>2. QED
  BY GuiInvariance, <1>1, PTL

(* The controls of a device: after the last write the brightness of the slider *)
(* is the device's unless a write failed, the label names what runs, and a     *)
(* mouse is given values of its sensor and of its list only                    *)
(* (ui/lighting_panel.py, ui/mouse_panel.py).                                  *)
THEOREM ControlsAreTrueAlways == GuiSpec => []ControlsAreTrue
<1>1. PartsAgree => ControlsAreTrue
  BY LightsAgree DEF PartsAgree, ControlsAreTrue, MouseInv
<1>2. QED
  BY GuiInvariance, <1>1, PTL

(* The settings: the overlay's survive their file and a user's style is never  *)
(* overwritten, a load is that of the last interval and of no earlier disk,    *)
(* and the autostart box says whether the entry is there (sysmon/config.py,    *)
(* ui/sysmon_page.py, sysmon/collector.py, settings.py, autostart.py).         *)
THEOREM SettingsAreTrueAlways == GuiSpec => []SettingsAreTrue
<1>1. PartsAgree => SettingsAreTrue
  BY DEF PartsAgree, SettingsAreTrue, MonitorInv, LoadsInv, PrefsInv
<1>2. QED
  BY GuiInvariance, <1>1, PTL

(* The effects page: however groups and presets are edited and jobs come in,   *)
(* the page and the file hold presets that can be saved and shown, the page is *)
(* the file when nothing was crossed, and edits show at once; the form of a    *)
(* group changes nothing it only shows, and the key grid tells of exactly the  *)
(* keys that are selected (ui/effects_page.py, ui/effects_groups.py,           *)
(* ui/key_effect_editor.py, ui/key_selector.py).                                 *)
THEOREM EffectsArePreservedAlways == GuiSpec => []EffectsArePreserved
<1>1. PartsAgree => EffectsArePreserved
  BY GroupingAgrees, KeysAgree DEF PartsAgree, EffectsArePreserved, FormInv
<1>2. QED
  BY GuiInvariance, <1>1, PTL

(* The types: every part keeps to the values its widgets and files can have    *)
(* (ui/macros_page.py, ui/macro_editor.py, ui/effects_page.py,                 *)
(* ui/key_selector.py, ui/key_effect_editor.py, ui/main_window.py,             *)
(* ui/lighting_panel.py, ui/mouse_panel.py, sysmon/collector.py,               *)
(* sysmon/config.py, sysmon/waybar.py, settings.py).                           *)
THEOREM GuiTypesAlways == GuiSpec => []GuiTypeOK
<1>1. PartsAgree => GuiTypeOK
  BY PagesTypes, EditorTypes, GroupingTypes, FormTypes, WindowAgrees, LightsAgree
  DEF PartsAgree, GuiTypeOK, KeysInv, MouseInv, PrefsInv, LoadsInv, CountersAgree, MonitorInv
<1>2. QED
  BY GuiInvariance, <1>1, PTL

(* The macros page: what an editor accepted while a device was selected stays  *)
(* until it is deleted, and the row an editor is open for stays its macro's; a *)
(* page without edits shows its file, and says so when a file that could not   *)
(* be loaded is still there; entries for one device are merged without         *)
(* spoiling a file that is valid; and an engine that runs and was told has     *)
(* what was saved, whenever files, engine and answers come in between          *)
(* (ui/macros_page.py, macros/model.py, macros/store.py, config_files.py).     *)
THEOREM MacroEditsPreservedAlways == GuiSpec => []MacroEditsArePreserved
<1>1. PartsAgree => MacroEditsArePreserved
  BY PagesArePreserved DEF PartsAgree, MacroEditsArePreserved
<1>2. QED
  BY GuiInvariance, <1>1, PTL

(* The macro editor: whatever the order of its inputs and dialogs, it accepts  *)
(* valid macros only, gives back a count nobody edited, reopens a step as it   *)
(* was, and offers a recording whole, its delays in range                      *)
(* (ui/macro_editor.py, ui/macro_repeat.py, ui/macro_review.py,                *)
(* macro_engine/recorder.py, macros/keycodes.py).                              *)
THEOREM EditorIsFaithfulAlways == GuiSpec => []EditorIsFaithful
<1>1. PartsAgree => EditorIsFaithful
  BY EditorAgrees DEF PartsAgree, EditorIsFaithful
<1>2. QED
  BY GuiInvariance, <1>1, PTL

(* The macros page: a macro goes to the device its editor was opened for, and  *)
(* is dropped for want of a device, only when that device left the list        *)
(* meanwhile, however the engine's lists come in while the editor is open      *)
(* (ui/macros_page.py).                                                        *)
THEOREM EditLandsAlways == GuiSpec => EditLandsOnItsDevice
<1>1. PartsAgree /\ [GuiNext]_allVars => (part = "pages" => Pages!EditLands)
  <2> SUFFICES ASSUME PartsAgree, [GuiNext]_allVars, part = "pages" PROVE Pages!EditLands
    OBVIOUS
  <2>1. PagesInv
    BY DEF PartsAgree
  <2>2. CASE PagesStep
    BY <2>1, <2>2, PagesAgree DEF PagesStep
  <2>3. CASE UNCHANGED allVars
    BY <2>1, <2>3, PagesAgree DEF allVars, pagesOwn
  <2>4. CASE GuiNext
    BY <2>2, <2>4
    DEF GuiNext, EditorStep, GroupingStep, KeysStep, FormStep, WindowStep, LightsStep, MouseStep,
        LoadsStep, MonitorStep, PrefsStep
  <2>5. QED
    BY <2>3, <2>4
<1>2. QED
  BY GuiInvariance, <1>1, PTL DEF GuiSpec, EditLandsOnItsDevice

=============================================================================
