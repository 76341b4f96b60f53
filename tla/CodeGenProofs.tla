---------------------------- MODULE CodeGenProofs ----------------------------
(***************************************************************************)
(* Theorems about CodeGen: of the entries of the cache of device functions *)
(* all but the first are alive, whenever the system catalogs invalidate    *)
(* it; what the quick check of the planner lets pass, the walker           *)
(* translates; and the lists that a plan is made of are complete.          *)
(*                                                                         *)
(* The expression of a walk is a sequence of clauses one after the other,  *)
(* and both facts are about all its nodes: that each can be translated is  *)
(* kept by concatenation, and the context is that of the nodes walked over *)
(* so far.  That the values are right is defined by folds over expressions *)
(* and stays with TLC.                                                     *)
(***************************************************************************)
EXTENDS CodeGen, WellFoundedInduction, TLAPS

\* A function that no catalog has, or that is looked up beyond an array
Bad(f) == CatalogOf(f) = 0 \/ Overread(f)

\* The function that an entry was made for
KeyOf(e) == [nsp |-> e.nsp, name |-> e.slot[1], args |-> e.slot[2]]

\* An entry says of its function what the catalogs say, whichever query looked
\* it up first.
EntrySound(e) ==
  /\ e.negative \in BOOLEAN /\ (e.negative <=> Bad(KeyOf(e)))
  /\ ~e.negative =>
       /\ e.flags = catalog_array[CatalogOf(KeyOf(e))].flags
       /\ CatalogEntry(KeyOf(e)).templ # "F:" => \E x \in e.decl : x.name = e.slot[1]

\* Alive, or the one that the last invalidation found half made.
Spared(e, i) == Live(e) \/ (i = 1 /\ e.epoch = epoch - 1)

\* The slots of functions are a list of such entries; what is known of the
\* types does not matter.
CacheOK(c) ==
  /\ c = [types |-> c.types, funcs |-> c.funcs]
  /\ c.funcs \in Seq(Range(c.funcs))
  /\ \A i \in 1..Len(c.funcs) : Spared(c.funcs[i], i) /\ EntrySound(c.funcs[i])

CacheInv == epoch \in Nat /\ CacheOK(cache)

\* A sequence has all its elements in any set that each of them is in.
LEMMA SeqIn ==
  ASSUME NEW S, NEW q \in Seq(S), NEW T, \A k \in 1..Len(q) : q[k] \in T
  PROVE  q \in Seq(T)
OBVIOUS

LEMMA AppendSeq ==
  ASSUME NEW S, NEW q \in Seq(S), NEW v
  PROVE  /\ Append(q, v) \in Seq(Range(Append(q, v)))
         /\ Len(q) \in Nat /\ Len(Append(q, v)) = Len(q) + 1
         /\ \A k \in 1..Len(q) : Append(q, v)[k] = q[k]
         /\ Append(q, v)[Len(q) + 1] = v
<1> DEFINE t == Append(q, v)
<1>1. q \in Seq(S \cup {v}) /\ v \in S \cup {v}
  BY SeqIn
<1>2. /\ t \in Seq(S \cup {v}) /\ Len(q) \in Nat /\ Len(t) = Len(q) + 1
      /\ \A k \in 1..Len(q) : t[k] = q[k]
      /\ t[Len(q) + 1] = v
  BY <1>1
<1> HIDE DEF t
<1>3. DOMAIN t = 1..Len(t)
  BY <1>2
<1>4. \A k \in 1..Len(t) : t[k] \in Range(t)
  BY <1>3 DEF Range
<1>5. t \in Seq(Range(t))
  BY <1>2, <1>4, SeqIn
<1> QED  BY <1>2, <1>5 DEF t

\* pgstrom_devtype_lookup leaves the functions alone.
LEMMA TypeLookup ==
  ASSUME NEW c, NEW t, CacheOK(c)
  PROVE  CacheOK(devtype_lookup(c, t))
<1> DEFINE d == devtype_lookup(c, t)
<1>1. d.funcs = c.funcs /\ d = [types |-> d.types, funcs |-> d.funcs]
  BY DEF CacheOK, devtype_lookup
<1> HIDE DEF d
<1>2. CacheOK(d)
  BY <1>1 DEF CacheOK
<1> QED  BY <1>2 DEF d

\* What the catalogs say depends on schema, name and arguments only.
LEMMA SameKey ==
  ASSUME NEW f, NEW g, f.nsp = g.nsp, f.name = g.name, f.args = g.args
  PROVE  /\ CatalogOf(f) = CatalogOf(g) /\ CatalogEntry(f) = CatalogEntry(g)
         /\ Overread(f) <=> Overread(g)
<1> DEFINE Place(s, n, a) ==
             IF s # "pg_catalog" THEN 0
             ELSE SelectInSeq(catalog_array,
                    LAMBDA k : \E p \in k.catalog : p.name = n /\ p.args = a)
           Entry(k, n, a) ==
             CHOOSE p \in catalog_array[k].catalog : p.name = n /\ p.args = a
<1>1. CatalogOf(f) = Place(f.nsp, f.name, f.args) /\ CatalogOf(g) = Place(g.nsp, g.name, g.args)
  BY DEF CatalogOf
<1>2. /\ CatalogEntry(f) = Entry(CatalogOf(f), f.name, f.args)
      /\ CatalogEntry(g) = Entry(CatalogOf(g), g.name, g.args)
  BY DEF CatalogEntry
<1> HIDE DEF Place, Entry
<1>3. CatalogOf(f) = CatalogOf(g)
  BY <1>1
<1>4. CatalogEntry(f) = CatalogEntry(g)
  BY <1>2, <1>3
<1>5. Overread(f) <=> Overread(g)
  BY <1>3 DEF Overread
<1> QED  BY <1>3, <1>4, <1>5

\* A set of numbers has a least one.
LEMMA Least ==
  ASSUME NEW T \in SUBSET Nat, T # {}
  PROVE  \E x \in T : \A y \in T : x <= y
<1> DEFINE R == OpToRel(<, Nat)
<1>1. IsWellFoundedOn(R, Nat)
  BY NatLessThanWellFounded, Zenon
<1>2. \A x, y \in Nat : x < y => <<x, y>> \in R
  BY DEF OpToRel
<1> HIDE DEF R
<1>3. PICK x \in T : \A y \in T : ~ (<<y, x>> \in R)
  BY <1>1, WFMin
<1>4. ASSUME NEW y \in T PROVE x <= y
  <2>1. x \in Nat /\ y \in Nat
    OBVIOUS
  <2>2. ~(y < x)
    BY <2>1, <1>2, <1>3
  <2> QED  BY <2>1, <2>2
<1> QED  BY <1>4

\* The entry of a catalog has the name that was asked for.
LEMMA EntryName ==
  ASSUME NEW f, CatalogOf(f) # 0
  PROVE  CatalogEntry(f).name = f.name
<1> DEFINE T == {i \in 1..Len(catalog_array) :
                   \E p \in catalog_array[i].catalog : p.name = f.name /\ p.args = f.args}
<1>1. CatalogOf(f) = IF f.nsp # "pg_catalog" THEN 0 ELSE IF T # {} THEN Min(T) ELSE 0
  BY DEF CatalogOf, SelectInSeq
<1>2. T # {} /\ CatalogOf(f) = Min(T)
  BY <1>1
<1>3. T \in SUBSET Nat
  BY DEF catalog_array
<1>4. Min(T) \in T
  <2> HIDE DEF T
  <2>1. \E x \in T : \A y \in T : x <= y
    BY <1>2, <1>3, Least
  <2> QED  BY <2>1 DEF Min
<1>5. \E p \in catalog_array[CatalogOf(f)].catalog : p.name = f.name /\ p.args = f.args
  <2> DEFINE i == Min(T)
  <2>1. i \in T /\ CatalogOf(f) = i
    BY <1>2, <1>4
  <2> HIDE DEF i
  <2> QED  BY <2>1
<1> QED  BY <1>5 DEF CatalogEntry

\* A new entry has the types that the lookup has just found.
LEMMA NewEntryLive == \A f : Live(PositiveEntry(f)) /\ Live(NegativeEntry(f))
BY DEF Live, Dangling, PositiveEntry, NegativeEntry, TypePtr

LEMMA NewEntrySound ==
  ASSUME NEW f
  PROVE  /\ Bad(f) => EntrySound(NegativeEntry(f))
         /\ ~Bad(f) => EntrySound(PositiveEntry(f))
<1> DEFINE g == [nsp |-> f.nsp, name |-> f.name, args |-> f.args]
<1>1. /\ CatalogOf(g) = CatalogOf(f) /\ CatalogEntry(g) = CatalogEntry(f)
      /\ Overread(g) <=> Overread(f)
  BY SameKey
<1>2. Bad(g) <=> Bad(f)
  BY <1>1 DEF Bad
<1>3. ASSUME Bad(f) PROVE EntrySound(NegativeEntry(f))
  <2> DEFINE e == NegativeEntry(f)
  <2>1. e.negative = TRUE /\ KeyOf(e) = g
    BY DEF NegativeEntry, KeyOf
  <2> HIDE DEF e, g
  <2> QED  BY <2>1, <1>2, <1>3 DEF EntrySound, e
<1>4. ASSUME ~Bad(f) PROVE EntrySound(PositiveEntry(f))
  <2> DEFINE e == PositiveEntry(f)
             p == CatalogEntry(f)
             s == [k \in 1..Len(f.args) |-> f.args[CatalogOf(f)]]
  <2>1. /\ e.negative = FALSE /\ KeyOf(e) = g /\ e.slot[1] = f.name
        /\ e.flags = catalog_array[CatalogOf(f)].flags
    BY DEF PositiveEntry, KeyOf
  <2>2. e.decl = SetupDecl(p, s)
    BY DEF PositiveEntry
  <2>3. p.name = f.name
    BY <1>4, EntryName DEF Bad
  <2>4. p.templ # "F:" => \E x \in e.decl : x.name = f.name
    <3> SUFFICES ASSUME p.templ # "F:" PROVE \E x \in e.decl : x.name = f.name
      OBVIOUS
    <3> DEFINE x == [name |-> p.name, args |-> s]
    <3> HIDE DEF p, s, e
    <3>1. x \in e.decl
      BY <2>2 DEF SetupDecl
    <3>2. x.name = f.name
      BY <2>3
    <3> HIDE DEF x
    <3> QED  BY <3>1, <3>2
  <2> HIDE DEF e, g
  <2> QED  BY <2>1, <2>4, <1>1, <1>2, <1>4 DEF EntrySound, e
<1> QED  BY <1>3, <1>4

\* pgstrom_devfunc_lookup_by_name adds an entry at the end.
LEMMA FuncInserted ==
  ASSUME NEW c, NEW f, CacheOK(c)
  PROVE  CacheOK(InsertFunc(c, f))
<1> DEFINE e == IF CatalogOf(f) = 0 \/ Overread(f) THEN NegativeEntry(f)
                ELSE PositiveEntry(f)
           d == InsertFunc(c, f)
<1>1. Live(e) /\ EntrySound(e)
  BY NewEntryLive, NewEntrySound DEF Bad
<1>2. d.funcs = Append(c.funcs, e) /\ d = [types |-> d.types, funcs |-> d.funcs]
  BY DEF InsertFunc
<1> HIDE DEF d, e
<1>3. /\ d.funcs \in Seq(Range(d.funcs))
      /\ Len(c.funcs) \in Nat /\ Len(d.funcs) = Len(c.funcs) + 1
      /\ \A k \in 1..Len(c.funcs) : d.funcs[k] = c.funcs[k]
      /\ d.funcs[Len(c.funcs) + 1] = e
  BY <1>2, AppendSeq DEF CacheOK
<1>4. ASSUME NEW k \in 1..Len(d.funcs) PROVE Spared(d.funcs[k], k) /\ EntrySound(d.funcs[k])
  <2>1. k \in 1..Len(c.funcs) \/ k = Len(c.funcs) + 1
    BY <1>3
  <2>2. CASE k \in 1..Len(c.funcs)
    <3>1. d.funcs[k] = c.funcs[k] /\ Spared(c.funcs[k], k) /\ EntrySound(c.funcs[k])
      BY <2>2, <1>3 DEF CacheOK
    <3> QED  BY <3>1
  <2>3. CASE k = Len(c.funcs) + 1
    BY <2>3, <1>1, <1>3 DEF Spared
  <2> QED  BY <2>1, <2>2, <2>3
<1>5. CacheOK(d)
  BY <1>2, <1>3, <1>4 DEF CacheOK
<1> QED  BY <1>5 DEF d

LEMMA FuncLookup ==
  ASSUME NEW c, NEW f, CacheOK(c)
  PROVE  CacheOK(devfunc_lookup(c, f).cache)
<1>1. devfunc_lookup(c, f).cache = IF Hits(c, f) = {} THEN InsertFunc(c, f) ELSE c
  BY DEF devfunc_lookup
<1> QED  BY <1>1, FuncInserted

\* An invalidation in a lookup leaves the entry of the function, or none: only
\* a function that is in the catalogs gets as far as a second read of them.
LEMMA StruckFuncs ==
  ASSUME NEW n, NEW q, NEW c \in Struck(n, q), n.tag \in Calls => q = LookedUp(n)
  PROVE  /\ c = [types |-> c.types, funcs |-> c.funcs]
         /\ \/ c.funcs = << >>
            \/ n.tag \in Calls /\ ~n.coll /\ ~Bad(n.f) /\ c.funcs = <<PositiveEntry(n.f)>>
<1>1. /\ c = [types |-> c.types, funcs |-> c.funcs]
      /\ c.funcs = IF n.tag \in Calls THEN <<PositiveEntry(n.f)>> ELSE << >>
      /\ From(q, n.tag \in Calls) # {}
  BY DEF Struck
<1>2. q # << >>
  BY <1>1 DEF From
<1>3. ASSUME n.tag \in Calls PROVE ~n.coll /\ ~Bad(n.f)
  BY <1>2, <1>3 DEF LookedUp, Bad, Calls, Leaves
<1> QED  BY <1>1, <1>3

\* A lookup keeps the cache as it is; an invalidation leaves nothing behind, or
\* the entry that was being made.
LEMMA CacheNext == CacheInv /\ [Next]_vars => CacheInv'
<1> SUFFICES ASSUME CacheInv, [Next]_vars PROVE CacheInv'
  OBVIOUS
<1>1. ASSUME NEW c, CacheOK(c), cache' = c, epoch' = epoch PROVE CacheInv'
  BY <1>1 DEF CacheInv, CacheOK, Spared, Live, Dangling, EntrySound, Bad, KeyOf
<1>2. ASSUME cache' = [types |-> cache'.types, funcs |-> << >>], epoch' = epoch + 1
      PROVE  CacheInv'
  <2>1. << >> \in Seq(Range(<< >>)) /\ Len(<< >>) = 0
    OBVIOUS
  <2>2. cache'.funcs = << >> /\ cache' = [types |-> cache'.types, funcs |-> cache'.funcs]
    BY <1>2
  <2>3. 1..0 = {}
    OBVIOUS
  <2>4. epoch' \in Nat
    BY <1>2 DEF CacheInv
  <2> QED  BY <2>1, <2>2, <2>3, <2>4 DEF CacheInv, CacheOK
<1>10. ASSUME NEW f, ~Bad(f), epoch' = epoch + 1, cache'.funcs = <<PositiveEntry(f)>>,
              cache' = [types |-> cache'.types, funcs |-> cache'.funcs]
       PROVE  CacheInv'
  <2>9. PICK e : e = PositiveEntry(f)
    OBVIOUS
  <2>1. EntrySound(e) /\ e.epoch = epoch
    <3>1. PositiveEntry(f).epoch = epoch
      BY DEF PositiveEntry
    <3> QED  BY <2>9, <3>1, <1>10, NewEntrySound
  <2>2. epoch \in Nat /\ epoch' \in Nat /\ epoch' - 1 = epoch
    BY <1>10 DEF CacheInv
  <2>3. /\ <<e>> \in Seq({e}) /\ DOMAIN <<e>> = 1..1 /\ Len(<<e>>) = 1
        /\ \A i \in 1..1 : i = 1 /\ <<e>>[i] = e
    OBVIOUS
  <2>4. Range(<<e>>) = {e}
    BY <2>3 DEF Range
  <2>5. cache'.funcs = <<e>>
    BY <2>9, <1>10
  <2>6. Spared(e, 1)'
    BY <2>1, <2>2 DEF Spared
  <2>7. EntrySound(e)'
    BY <2>1 DEF EntrySound, Bad, KeyOf
  <2>8. CacheOK(cache)'
    BY <2>3, <2>4, <2>5, <2>6, <2>7, <1>10 DEF CacheOK
  <2> QED  BY <2>2, <2>8 DEF CacheInv
<1>11. ASSUME NEW n, NEW q, cache' \in Struck(n, q), n.tag \in Calls => q = LookedUp(n),
              epoch' = epoch + 1
       PROVE  CacheInv'
  <2>1. /\ cache' = [types |-> cache'.types, funcs |-> cache'.funcs]
        /\ cache'.funcs = << >> \/ (~Bad(n.f) /\ cache'.funcs = <<PositiveEntry(n.f)>>)
    BY <1>11, StruckFuncs
  <2>2. CASE cache'.funcs = << >>
    BY <2>1, <2>2, <1>2, <1>11
  <2>3. CASE ~Bad(n.f) /\ cache'.funcs = <<PositiveEntry(n.f)>>
    BY <2>1, <2>3, <1>10, <1>11
  <2> QED  BY <2>1, <2>2, <2>3
<1>3. CASE CheckNode
  <2>1. cache' = CheckCache(Node) /\ epoch' = epoch
    BY <1>3 DEF CheckNode
  <2>2. CacheOK(CheckCache(Node))
    BY TypeLookup, FuncLookup DEF CacheInv, CheckCache
  <2> QED  BY <2>1, <2>2, <1>1
<1>4. CASE WalkLeaf
  <2>1. /\ cache' = cache \/ \E t : cache' = devtype_lookup(cache, t)
        /\ epoch' = epoch
    BY <1>4 DEF WalkLeaf
  <2>2. CASE cache' = cache
    BY <2>1, <2>2, <1>1 DEF CacheInv
  <2>3. ASSUME NEW t, cache' = devtype_lookup(cache, t) PROVE CacheInv'
    BY <2>1, <2>3, <1>1, TypeLookup DEF CacheInv
  <2> QED  BY <2>1, <2>2, <2>3
<1>5. CASE WalkCall
  <2>1. /\ cache' = cache \/ \E f : cache' = devfunc_lookup(cache, f).cache
        /\ epoch' = epoch
    BY <1>5 DEF WalkCall
  <2>2. CASE cache' = cache
    BY <2>1, <2>2, <1>1 DEF CacheInv
  <2>3. ASSUME NEW f, cache' = devfunc_lookup(cache, f).cache PROVE CacheInv'
    BY <2>1, <2>3, <1>1, FuncLookup DEF CacheInv
  <2> QED  BY <2>1, <2>2, <2>3
<1>6. CASE WalkBuiltin
  <2>1. /\ cache' = cache \/ \E t : cache' = devtype_lookup(cache, t)
        /\ epoch' = epoch
    BY <1>6 DEF WalkBuiltin
  <2>2. CASE cache' = cache
    BY <2>1, <2>2, <1>1 DEF CacheInv
  <2>3. ASSUME NEW t, cache' = devtype_lookup(cache, t) PROVE CacheInv'
    BY <2>1, <2>3, <1>1, TypeLookup DEF CacheInv
  <2> QED  BY <2>1, <2>2, <2>3
<1>7. CASE Invalidate
  BY <1>7, <1>2 DEF Invalidate
<1>8. CASE InvalidateInCheck
  <2>1. cache' \in Struck(Node, LookedUp(Node)) /\ epoch' = epoch + 1
    BY <1>8 DEF InvalidateInCheck
  <2> QED  BY <2>1, <1>11
<1>12. CASE InvalidateInWalk
  <2> DEFINE n == expr[at]
             null == n.tag = "NullTest" /\ ~n.argisrow
             type == IF null THEN expr[at + 1].type ELSE n.type
             q == IF null THEN <<type>> ELSE LookedUp(n)
  <2>1. cache' \in Struck(n, q) /\ epoch' = epoch + 1
    BY <1>12 DEF InvalidateInWalk
  <2>2. n.tag \in Calls => q = LookedUp(n)
    BY DEF Calls
  <2> HIDE DEF n, q
  <2> QED  BY <2>1, <2>2, <1>11
<1>9. CASE PlanQuery \/ PathRejected \/ CreatePlan \/ Declare \/ CopyPlan \/ BeginPlan
             \/ FollowFreed \/ Stopped \/ UNCHANGED vars
  <2>1. cache' = cache /\ epoch' = epoch
    BY <1>9 DEF PlanQuery, PathRejected, CreatePlan, Declare, CopyPlan, BeginPlan,
                FollowFreed, Stopped, vars
  <2> QED  BY <2>1, <1>1 DEF CacheInv
<1> QED  BY <1>3, <1>4, <1>5, <1>6, <1>7, <1>8, <1>12, <1>9 DEF Next

\* codegen_cache_invalidator, whenever it runs, in a lookup too, leaves at most
\* one entry in the slots of functions that it has freed, the first, and the
\* next invalidation removes it: for any queries and any number of
\* invalidations.
THEOREM OneFreedEntry == Spec => []FreedAtMostOne
<1>1. Init => CacheInv
  <2> SUFFICES ASSUME Init PROVE CacheInv
    OBVIOUS
  <2>1. << >> \in Seq(Range(<< >>)) /\ Len(<< >>) = 0 /\ 1..0 = {}
    OBVIOUS
  <2>2. cache.funcs = << >> /\ cache = [types |-> cache.types, funcs |-> cache.funcs]
    BY DEF Init
  <2>3. epoch \in Nat
    BY DEF Init
  <2> QED  BY <2>1, <2>2, <2>3 DEF CacheInv, CacheOK
<1>2. CacheInv => FreedAtMostOne
  BY DEF CacheInv, CacheOK, FreedAtMostOne, Spared
<1> QED  BY <1>1, <1>2, CacheNext, PTL DEF Spec

(***************************************************************************)
(* What a lookup returns.                                                  *)
(***************************************************************************)
LEMMA Found ==
  ASSUME NEW f, CacheInv
  PROVE  LET l == devfunc_lookup(cache, f)
         IN /\ EntrySound(l.entry) /\ l.entry.slot = <<f.name, f.args>> /\ l.entry.nsp = f.nsp
            /\ l.ok <=> ~l.entry.negative
<1> DEFINE H == Hits(cache, f)
           c2 == IF H = {} THEN InsertFunc(cache, f) ELSE cache
           i == IF H = {} THEN Len(c2.funcs) ELSE CHOOSE x \in H : \A y \in H : x <= y
           l == devfunc_lookup(cache, f)
<1>1. l.entry = c2.funcs[i] /\ l.ok = ~c2.funcs[i].negative
  BY DEF devfunc_lookup
<1>2. CacheOK(c2)
  BY FuncInserted DEF CacheInv
<1>3. CASE H = {}
  <2> DEFINE e == IF CatalogOf(f) = 0 \/ Overread(f) THEN NegativeEntry(f) ELSE PositiveEntry(f)
  <2>1. EntrySound(e)
    BY NewEntrySound DEF Bad
  <2>2. e.slot = <<f.name, f.args>> /\ e.nsp = f.nsp
    BY DEF NegativeEntry, PositiveEntry
  <2>3. c2.funcs = Append(cache.funcs, e)
    BY <1>3 DEF InsertFunc
  <2> HIDE DEF e
  <2>4. Append(cache.funcs, e)[Len(Append(cache.funcs, e))] = e
    BY AppendSeq DEF CacheInv, CacheOK
  <2>5. i = Len(c2.funcs)
    BY <1>3
  <2>6. c2.funcs[i] = e
    <3> HIDE DEF c2, i
    <3> QED  BY <2>3, <2>4, <2>5
  <2> HIDE DEF c2, i, l
  <2> QED  BY <1>1, <2>1, <2>2, <2>6 DEF l, EntrySound
<1>4. CASE H # {}
  <2>1. H \in SUBSET Nat /\ H \subseteq 1..Len(cache.funcs) /\ c2 = cache
    BY <1>4 DEF Hits
  <2>2. \E x \in H : \A y \in H : x <= y
    <3> HIDE DEF H
    <3> QED  BY <1>4, <2>1, Least
  <2>3. i = CHOOSE x \in H : \A y \in H : x <= y
    BY <1>4
  <2>4. i \in H
    <3> HIDE DEF H, i
    <3> QED  BY <2>2, <2>3
  <2> HIDE DEF i, c2, l
  <2>5. /\ i \in 1..Len(cache.funcs) /\ cache.funcs[i].slot = <<f.name, f.args>>
        /\ cache.funcs[i].nsp = f.nsp
    BY <2>4 DEF Hits
  <2>6. EntrySound(cache.funcs[i])
    BY <2>5 DEF CacheInv, CacheOK
  <2> QED  BY <1>1, <2>1, <2>5, <2>6 DEF l, EntrySound
<1> QED  BY <1>3, <1>4

\* A lookup finds just the functions that the catalogs have, whatever is in the
\* cache, and the libraries and the declaration they need.
LEMMA FoundIs ==
  ASSUME NEW f, CacheInv
  PROVE  LET l == devfunc_lookup(cache, f)
         IN /\ l.ok <=> ~Bad(f)
            /\ ~Bad(f) => /\ l.entry.flags = catalog_array[CatalogOf(f)].flags
                          /\ CatalogEntry(f).templ # "F:" =>
                               \E x \in l.entry.decl : x.name = f.name
<1> DEFINE l == devfunc_lookup(cache, f)
           e == l.entry
<1>1. EntrySound(e) /\ e.slot = <<f.name, f.args>> /\ e.nsp = f.nsp /\ (l.ok <=> ~e.negative)
  BY Found
<1> HIDE DEF l
<1> DEFINE g == KeyOf(e)
<1>2. g.nsp = f.nsp /\ g.name = f.name /\ g.args = f.args /\ e.slot[1] = f.name
  BY <1>1 DEF KeyOf
<1>3. /\ CatalogOf(g) = CatalogOf(f) /\ CatalogEntry(g) = CatalogEntry(f)
      /\ Overread(g) <=> Overread(f)
  <2> HIDE DEF g
  <2> QED  BY <1>2, SameKey
<1>4. Bad(g) <=> Bad(f)
  BY <1>3 DEF Bad
<1> QED  BY <1>1, <1>2, <1>3, <1>4 DEF EntrySound, l

\* A node that the walker translates, its arguments apart
Avail(n) ==
  \/ n.tag \in Leaves /\ ~n.coll /\ IsDevType(n.type)
       /\ (n.tag = "Param" => n.kind = "extern")
  \/ n.tag \in Calls /\ ~n.coll /\ ~Bad(n.f)
  \/ n.tag = "NullTest" /\ ~n.argisrow
  \/ n.tag = "BooleanTest"

\* The quick check does not depend on the cache.
LEMMA QuickCheck ==
  ASSUME NEW n, CacheInv
  PROVE  NodeAvailable(n) <=> Avail(n)
<1>1. devfunc_lookup(cache, n.f).ok <=> ~Bad(n.f)
  BY FoundIs
<1> QED  BY <1>1 DEF NodeAvailable, Avail, Runs

(***************************************************************************)
(* Expressions.                                                            *)
(***************************************************************************)
Translatable(s) ==
  /\ \A k \in 1..Len(s) : Avail(s[k]) \/ s[k].tag = "Bool"
  /\ \A k \in 1..Len(s) :
       s[k].tag = "NullTest" => k < Len(s) /\ IsDevType(s[k + 1].type)

LEMMA Concatenated ==
  ASSUME NEW S, NEW s \in Seq(S), NEW t \in Seq(S)
  PROVE  /\ s \o t \in Seq(S) /\ Len(s \o t) = Len(s) + Len(t)
         /\ \A k \in 1..Len(s) : (s \o t)[k] = s[k]
         /\ \A k \in 1..Len(t) : (s \o t)[Len(s) + k] = t[k]
OBVIOUS

LEMMA Joined ==
  ASSUME NEW S, NEW s \in Seq(S), NEW t \in Seq(S)
  PROVE  /\ s \o t \in Seq(S) /\ Len(s \o t) = Len(s) + Len(t)
         /\ Range(s \o t) = Range(s) \cup Range(t)
         /\ Translatable(s) /\ Translatable(t) => Translatable(s \o t)
<1> DEFINE u == s \o t
           m == Len(s)
           n == Len(t)
<1>1. /\ u \in Seq(S) /\ Len(u) = m + n /\ m \in Nat /\ n \in Nat
      /\ \A k \in 1..m : u[k] = s[k]
      /\ \A k \in 1..n : u[m + k] = t[k]
  BY Concatenated
<1>2. DOMAIN u = 1..(m + n) /\ DOMAIN s = 1..m /\ DOMAIN t = 1..n
  BY <1>1
<1> HIDE DEF u, m, n
<1>3. ASSUME NEW k \in 1..(m + n)
      PROVE  k \in 1..m \/ (k - m \in 1..n /\ k = m + (k - m))
  BY <1>1
<1>4. \A k \in 1..m : k \in 1..(m + n)
  BY <1>1
<1>5. \A k \in 1..n : m + k \in 1..(m + n)
  BY <1>1
<1>6. Range(u) = Range(s) \cup Range(t)
  <2>1. Range(s) \cup Range(t) \subseteq Range(u)
    BY <1>1, <1>2, <1>4, <1>5 DEF Range
  <2>2. ASSUME NEW k \in 1..(m + n) PROVE u[k] \in Range(s) \cup Range(t)
    <3>1. CASE k \in 1..m
      BY <3>1, <1>1, <1>2 DEF Range
    <3>2. CASE k - m \in 1..n /\ k = m + (k - m)
      <4> DEFINE j == k - m
      <4>1. j \in 1..n /\ k = m + j
        BY <3>2
      <4> HIDE DEF j
      <4>2. u[k] = t[j]
        BY <4>1, <1>1
      <4> QED  BY <4>1, <4>2, <1>2 DEF Range
    <3> QED  BY <3>1, <3>2, <1>3
  <2> QED  BY <2>1, <2>2, <1>2 DEF Range
<1>7. ASSUME Translatable(s), Translatable(t) PROVE Translatable(u)
  <2>1. ASSUME NEW k \in 1..(m + n)
        PROVE  /\ Avail(u[k]) \/ u[k].tag = "Bool"
               /\ u[k].tag = "NullTest" => k < m + n /\ IsDevType(u[k + 1].type)
    <3>1. CASE k \in 1..m
      <4>1. /\ u[k] = s[k] /\ (Avail(s[k]) \/ s[k].tag = "Bool")
            /\ s[k].tag = "NullTest" => k < m /\ IsDevType(s[k + 1].type)
        BY <3>1, <1>1, <1>7 DEF Translatable, m
      <4>2. k < m => k < m + n /\ k + 1 \in 1..m
        BY <3>1, <1>1
      <4>3. k < m => u[k + 1] = s[k + 1]
        BY <4>2, <1>1
      <4> QED  BY <4>1, <4>2, <4>3
    <3>2. CASE k - m \in 1..n /\ k = m + (k - m)
      <4> DEFINE j == k - m
      <4>1. j \in 1..n /\ k = m + j
        BY <3>2
      <4> HIDE DEF j
      <4>2. /\ u[k] = t[j] /\ (Avail(t[j]) \/ t[j].tag = "Bool")
            /\ t[j].tag = "NullTest" => j < n /\ IsDevType(t[j + 1].type)
        BY <4>1, <1>1, <1>7 DEF Translatable, n
      <4>3. j < n => k < m + n /\ j + 1 \in 1..n /\ k + 1 = m + (j + 1)
        BY <4>1, <1>1
      <4>4. j < n => u[k + 1] = t[j + 1]
        BY <4>3, <1>1
      <4> QED  BY <4>2, <4>3, <4>4
    <3> QED  BY <3>1, <3>2, <1>3
  <2> QED  BY <2>1, <1>1 DEF Translatable
<1> QED  BY <1>1, <1>6, <1>7 DEF u, m, n

\* Induction over the numbers of a set
LEMMA SetInduction ==
  ASSUME NEW T \in SUBSET Nat, 0 \in T, \A n \in T : n + 1 \in T
  PROVE  T = Nat
<1> SUFFICES ASSUME T # Nat PROVE FALSE
  OBVIOUS
<1> DEFINE R == OpToRel(<, Nat)
<1>1. Nat \ T # {} /\ Nat \ T \subseteq Nat
  OBVIOUS
<1>2. IsWellFoundedOn(R, Nat)
  BY NatLessThanWellFounded, Zenon
<1>3. \A x, y \in Nat : x < y => <<x, y>> \in R
  BY DEF OpToRel
<1> HIDE DEF R
<1>4. PICK x \in Nat \ T : \A y \in Nat \ T : ~ (<<y, x>> \in R)
  BY <1>1, <1>2, WFMin
<1>5. x # 0 /\ x - 1 \in Nat /\ x - 1 < x
  OBVIOUS
<1>6. x - 1 \in T
  BY <1>3, <1>4, <1>5
<1> QED  BY <1>5, <1>6

\* g begins with a and goes on with the function G of the index and the value
\* before.
Follows(g, a, G, n, S) ==
  /\ g \in [0..n -> S] /\ g[0] = a
  /\ \A k \in 1..n : g[k] = G[<<k, g[k - 1]>>]

LEMMA Recursion ==
  ASSUME NEW n \in Nat, NEW S, NEW a \in S, NEW G \in [(1..n) \X S -> S]
  PROVE  \E g : Follows(g, a, G, n, S)
<1> DEFINE T == {m \in Nat : m <= n => \E g : Follows(g, a, G, m, S)}
<1>1. 0 \in T
  <2>1. Follows([k \in 0..0 |-> a], a, G, 0, S)
    BY DEF Follows
  <2> QED  BY <2>1
<1>2. ASSUME NEW m \in T PROVE m + 1 \in T
  <2> SUFFICES ASSUME m + 1 <= n PROVE \E g : Follows(g, a, G, m + 1, S)
    OBVIOUS
  <2>1. m \in Nat /\ m + 1 \in 1..n /\ m \in 0..m
    OBVIOUS
  <2>2. PICK g : Follows(g, a, G, m, S)
    BY <2>1
  <2> DEFINE c == G[<<m + 1, g[m]>>]
             h == [k \in 0..(m + 1) |-> IF k = m + 1 THEN c ELSE g[k]]
  <2>3. g[m] \in S
    BY <2>1, <2>2 DEF Follows
  <2>4. c \in S
    <3>1. <<m + 1, g[m]>> \in (1..n) \X S
      BY <2>1, <2>3
    <3> QED  BY <3>1
  <2> HIDE DEF c
  <2>5. h \in [0..(m + 1) -> S] /\ h[0] = a
    BY <2>1, <2>2, <2>4 DEF Follows
  <2>6. ASSUME NEW k \in 1..(m + 1) PROVE h[k] = G[<<k, h[k - 1]>>]
    <3>1. CASE k = m + 1
      <4>1. h[k] = c /\ h[k - 1] = g[m]
        BY <3>1, <2>1
      <4> QED  BY <4>1, <3>1 DEF c
    <3>2. CASE k # m + 1
      <4>1. k \in 1..m /\ k - 1 # m + 1 /\ k - 1 \in 0..(m + 1) /\ k \in 0..(m + 1)
        BY <3>2, <2>1
      <4>2. h[k] = g[k] /\ h[k - 1] = g[k - 1]
        BY <4>1, <3>2
      <4> QED  BY <4>1, <4>2, <2>2 DEF Follows
    <3> QED  BY <3>1, <3>2
  <2>7. Follows(h, a, G, m + 1, S)
    BY <2>5, <2>6 DEF Follows
  <2> QED  BY <2>7
<1>3. n \in T
  <2>1. T \in SUBSET Nat
    OBVIOUS
  <2> HIDE DEF T
  <2> QED  BY <2>1, <1>1, <1>2, SetInduction
<1> QED  BY <1>3

\* What FlattenSeq makes of clauses that can be translated
LEMMA Flattened ==
  ASSUME NEW N, NEW q \in Seq(Seq(N)), Len(q) > 0,
         \A i \in 1..Len(q) : Translatable(q[i]) /\ Len(q[i]) > 0
  PROVE  /\ FlattenSeq(q) \in Seq(N) /\ Len(FlattenSeq(q)) > 0
         /\ Translatable(FlattenSeq(q))
         /\ Range(FlattenSeq(q)) = UNION {Range(q[i]) : i \in 1..Len(q)}
<1> DEFINE l == Len(q)
           n == l - 1
           V == {s \in Seq(N) : Translatable(s) /\ Len(s) > 0}
           G == [p \in (1..n) \X V |-> p[2] \o q[p[1] + 1]]
           a == q[1]
<1>1. l \in Nat /\ n \in Nat /\ l = n + 1 /\ l # 0
  OBVIOUS
<1>2. \A i \in 1..l : q[i] \in Seq(N)
  OBVIOUS
<1>3. \A i \in 1..l : q[i] \in V
  BY <1>2
<1>4. \A s, u \in V : s \o u \in V
  <2> SUFFICES ASSUME NEW s \in V, NEW u \in V PROVE s \o u \in V
    OBVIOUS
  <2>1. s \in Seq(N) /\ u \in Seq(N) /\ Translatable(s) /\ Translatable(u)
    OBVIOUS
  <2>2. /\ s \o u \in Seq(N) /\ Len(s \o u) = Len(s) + Len(u) /\ Translatable(s \o u)
    BY <2>1, Joined
  <2>3. Len(s) + Len(u) > 0
    <3>1. Len(s) \in Nat /\ Len(u) \in Nat /\ Len(s) > 0
      BY <2>1
    <3> QED  BY <3>1
  <2> QED  BY <2>2, <2>3
<1>5. ASSUME NEW s \in V PROVE s \in Seq(N) /\ Translatable(s) /\ Len(s) > 0
  OBVIOUS
<1> HIDE DEF V
<1>6. \A k \in 1..n : k + 1 \in 1..l
  BY <1>1
<1>7. G \in [(1..n) \X V -> V]
  BY <1>3, <1>4, <1>6
<1>8. \A k \in 1..n, s \in V : G[<<k, s>>] = s \o q[k + 1]
  OBVIOUS
<1>9. a \in V
  BY <1>1, <1>3
<1> HIDE DEF G, n, a, l
<1>10. PICK g : Follows(g, a, G, n, V)
  BY <1>1, <1>7, <1>9, Recursion
<1> DEFINE h == [i \in 1..l |-> g[i - 1]]
<1>11. \A i \in 1..l : h[i] = IF i = 1 THEN q[i] ELSE h[i - 1] \o q[i]
  <2> SUFFICES ASSUME NEW i \in 1..l PROVE h[i] = IF i = 1 THEN q[i] ELSE h[i - 1] \o q[i]
    OBVIOUS
  <2>1. h[i] = g[i - 1]
    OBVIOUS
  <2>2. CASE i = 1
    BY <2>1, <2>2, <1>10 DEF Follows, a
  <2>3. CASE i # 1
    <3> DEFINE k == i - 1
    <3>1. k \in 1..n /\ k \in 1..l /\ k - 1 \in 0..n /\ i = k + 1
      BY <2>3, <1>1
    <3>2. h[k] = g[k - 1] /\ h[i] = g[k]
      BY <3>1, <2>1
    <3> HIDE DEF k, h
    <3>3. g[k] = G[<<k, g[k - 1]>>] /\ g[k - 1] \in V
      BY <3>1, <1>10 DEF Follows
    <3>4. g[k] = g[k - 1] \o q[k + 1]
      BY <3>1, <3>3, <1>8
    <3>5. h[i] = h[k] \o q[i]
      BY <3>1, <3>2, <3>4
    <3> QED  BY <2>3, <3>5 DEF k
  <2> QED  BY <2>2, <2>3
<1>12. h = [i \in 1..l |-> IF i = 1 THEN q[i] ELSE h[i - 1] \o q[i]]
  <2>1. h = [i \in 1..l |-> h[i]]
    OBVIOUS
  <2> HIDE DEF h
  <2> QED  BY <2>1, <1>11
<1> HIDE DEF h
<1>13. \E e : /\ e = [i \in 1..l |-> IF i = 1 THEN q[i] ELSE e[i - 1] \o q[i]]
              /\ FlattenSeq(q) = e[l]
  BY <1>1, <1>12, Zenon DEF FlattenSeq, l
<1>14. PICK e : /\ e = [i \in 1..l |-> IF i = 1 THEN q[i] ELSE e[i - 1] \o q[i]]
                /\ FlattenSeq(q) = e[l]
  BY <1>13
<1>15. \A i \in 1..l : e[i] = IF i = 1 THEN q[i] ELSE e[i - 1] \o q[i]
  BY <1>14
<1> DEFINE R(m) == UNION {Range(q[i]) : i \in 1..m}
           T == {m \in Nat : m <= n => e[m + 1] \in V /\ Range(e[m + 1]) = R(m + 1)}
<1>16. 0 \in T
  <2>1. e[1] = q[1]
    <3>1. 1 \in 1..l
      BY <1>1
    <3> QED  BY <3>1, <1>15
  <2>2. 1..1 = {1} /\ 0 + 1 = 1
    OBVIOUS
  <2>3. Range(q[1]) = R(0 + 1)
    BY <2>2
  <2>4. e[0 + 1] \in V /\ Range(e[0 + 1]) = R(0 + 1)
    BY <2>1, <2>2, <2>3, <1>1, <1>3
  <2> QED  BY <2>4
<1>17. ASSUME NEW m \in T PROVE m + 1 \in T
  <2> SUFFICES ASSUME m + 1 <= n
               PROVE  e[(m + 1) + 1] \in V /\ Range(e[(m + 1) + 1]) = R((m + 1) + 1)
    OBVIOUS
  <2> DEFINE k == m + 1
             j == k + 1
  <2>1. m \in Nat /\ m <= n /\ k \in 1..l /\ j \in 1..l /\ j # 1 /\ j - 1 = k
    BY <1>1
  <2>2. e[k] \in V /\ Range(e[k]) = R(k)
    BY <2>1
  <2>3. 1..j = 1..k \cup {j}
    <3>1. k \in Nat /\ j = k + 1
      BY <2>1
    <3> HIDE DEF k, j, T
    <3> QED  BY <3>1
  <2> HIDE DEF k, j, T
  <2>4. e[j] = e[k] \o q[j]
    BY <2>1, <1>15
  <2>5. e[j] \in V
    BY <2>1, <2>2, <2>4, <1>3, <1>4
  <2>6. Range(e[j]) = Range(e[k]) \cup Range(q[j])
    <3>1. e[k] \in Seq(N) /\ q[j] \in Seq(N)
      BY <2>1, <2>2, <1>2, <1>5
    <3> QED  BY <3>1, <2>4, Joined
  <2>7. R(j) = R(k) \cup Range(q[j])
    BY <2>3
  <2>8. e[j] \in V /\ Range(e[j]) = R(j)
    BY <2>2, <2>5, <2>6, <2>7
  <2> QED  BY <2>8 DEF j, k
<1>18. n \in T
  <2>1. T \in SUBSET Nat
    OBVIOUS
  <2> HIDE DEF T
  <2> QED  BY <2>1, <1>1, <1>16, <1>17, SetInduction
<1>19. e[l] \in V /\ Range(e[l]) = R(l)
  BY <1>1, <1>18
<1> QED  BY <1>5, <1>14, <1>19 DEF l

Nodes(ks) == UNION {Range(clauses[k]) : k \in Range(ks)}
VarsOf(S) == {n \in S : n.tag = "Var"}

\* Clauses, one after the other and below an AND unless there is just one
LEMMA AndShape ==
  ASSUME NEW ks \in Seq(1..Len(clauses)), Len(ks) > 0, Len(clauses) \in Nat,
         \A i \in 1..Len(clauses) : clauses[i] \in Seq(Range(clauses[i])) /\ Len(clauses[i]) > 0,
         \A i \in 1..Len(ks) : Translatable(clauses[ks[i]])
  PROVE  /\ AndClause(ks) \in Seq(Range(AndClause(ks))) /\ Len(AndClause(ks)) > 0
         /\ Translatable(AndClause(ks)) /\ VarsOf(Range(AndClause(ks))) = VarsOf(Nodes(ks))
<1> DEFINE q == [i \in 1..Len(ks) |-> clauses[ks[i]]]
           b == FlattenSeq(q)
           w == AndNode(Len(ks))
           N == Nodes(ks) \cup {w}
           x == AndClause(ks)
<1>1. /\ DOMAIN ks = 1..Len(ks) /\ Len(ks) \in Nat
      /\ \A i \in 1..Len(ks) : ks[i] \in 1..Len(clauses) /\ ks[i] \in Range(ks)
  BY DEF Range
<1>2. \A i \in 1..Len(ks) : clauses[ks[i]] \in Seq(N)
  <2> SUFFICES ASSUME NEW i \in 1..Len(ks) PROVE clauses[ks[i]] \in Seq(N)
    OBVIOUS
  <2> DEFINE c == clauses[ks[i]]
  <2>1. c \in Seq(Range(c)) /\ Range(c) \subseteq N
    BY <1>1 DEF Nodes
  <2> HIDE DEF c, N
  <2>2. \A k \in 1..Len(c) : c[k] \in N
    BY <2>1
  <2>3. c \in Seq(N)
    BY <2>1, <2>2, SeqIn
  <2> QED  BY <2>3 DEF c
<1>3. q \in Seq(Seq(N)) /\ Len(q) = Len(ks) /\ \A i \in 1..Len(ks) : q[i] = clauses[ks[i]]
  <2> HIDE DEF N
  <2> QED  BY <1>1, <1>2
<1>4. \A i \in 1..Len(q) : Translatable(q[i]) /\ Len(q[i]) > 0
  <2> HIDE DEF q
  <2> QED  BY <1>1, <1>3
<1>5. UNION {Range(q[i]) : i \in 1..Len(q)} = Nodes(ks)
  <2>1. Range(ks) = {ks[i] : i \in 1..Len(ks)}
    BY <1>1 DEF Range
  <2> HIDE DEF q
  <2>2. {Range(q[i]) : i \in 1..Len(q)} = {Range(clauses[k]) : k \in Range(ks)}
    <3>1. ASSUME NEW i \in 1..Len(q) PROVE \E k \in Range(ks) : Range(q[i]) = Range(clauses[k])
      <4>1. i \in 1..Len(ks) /\ q[i] = clauses[ks[i]] /\ ks[i] \in Range(ks)
        BY <1>1, <1>3, Zenon
      <4> QED  BY <4>1
    <3>2. ASSUME NEW k \in Range(ks) PROVE \E i \in 1..Len(q) : Range(q[i]) = Range(clauses[k])
      <4>1. PICK i \in 1..Len(ks) : k = ks[i]
        BY <2>1
      <4>2. i \in 1..Len(q) /\ q[i] = clauses[k]
        BY <4>1, <1>3, Zenon
      <4> QED  BY <4>2
    <3> DEFINE A == {Range(q[i]) : i \in 1..Len(q)}
               B == {Range(clauses[k]) : k \in Range(ks)}
    <3>3. \A y \in A : y \in B
      BY <3>1
    <3>4. \A y \in B : y \in A
      BY <3>2
    <3> QED  BY <3>3, <3>4
  <2> QED  BY <2>2 DEF Nodes
<1>6. /\ b \in Seq(N) /\ Len(b) > 0 /\ Translatable(b) /\ Range(b) = Nodes(ks)
  <2> HIDE DEF q, N
  <2>1. Len(q) > 0
    BY <1>3, Zenon
  <2>2. q \in Seq(Seq(N)) /\ \A i \in 1..Len(q) : Translatable(q[i]) /\ Len(q[i]) > 0
    BY <1>3, <1>4, Zenon
  <2>3. /\ FlattenSeq(q) \in Seq(N) /\ Len(FlattenSeq(q)) > 0 /\ Translatable(FlattenSeq(q))
        /\ Range(FlattenSeq(q)) = UNION {Range(q[i]) : i \in 1..Len(q)}
    BY <2>1, <2>2, Flattened, Zenon
  <2> QED  BY <2>3, <1>5
<1>7. <<w>> \in Seq(N) /\ Len(<<w>>) = 1 /\ Range(<<w>>) = {w}
  <2>1. w \in N
    OBVIOUS
  <2> HIDE DEF w, N
  <2>2. DOMAIN <<w>> = {1} /\ <<w>>[1] = w
    OBVIOUS
  <2> QED  BY <2>1, <2>2 DEF Range
<1>8. w.tag = "Bool"
  BY DEF AndNode
<1> HIDE DEF w, q, b, N
<1>9. Translatable(<<w>>)
  <2>1. \A k \in 1..Len(<<w>>) : <<w>>[k] = w
    OBVIOUS
  <2> QED  BY <2>1, <1>8 DEF Translatable
<1>10. x = IF Len(ks) = 1 THEN b ELSE <<w>> \o b
  BY DEF AndClause, b, q, w
<1> HIDE DEF x
<1>11. /\ x \in Seq(N) /\ Len(x) > 0 /\ Translatable(x)
       /\ Range(x) = Nodes(ks) \/ Range(x) = {w} \cup Nodes(ks)
  <2>1. CASE Len(ks) = 1
    BY <2>1, <1>6, <1>10
  <2>2. CASE Len(ks) # 1
    <3>1. x = <<w>> \o b
      BY <2>2, <1>10
    <3>2. /\ x \in Seq(N) /\ Len(x) = Len(<<w>>) + Len(b) /\ Translatable(x)
          /\ Range(x) = Range(<<w>>) \cup Range(b)
      <4> DEFINE s == <<w>>
      <4>1. s \in Seq(N) /\ b \in Seq(N) /\ Translatable(s) /\ Translatable(b) /\ x = s \o b
        BY <3>1, <1>6, <1>7, <1>9
      <4> HIDE DEF s
      <4>2. /\ s \o b \in Seq(N) /\ Len(s \o b) = Len(s) + Len(b)
            /\ Range(s \o b) = Range(s) \cup Range(b) /\ Translatable(s \o b)
        BY <4>1, Joined
      <4> QED  BY <4>1, <4>2, Zenon DEF s
    <3>3. Len(x) > 0
      <4>1. Len(b) \in Nat
        BY <1>6
      <4> QED  BY <4>1, <3>2, <1>6, <1>7
    <3> QED  BY <3>2, <3>3, <1>6, <1>7
  <2> QED  BY <2>1, <2>2
<1>12. x \in Seq(Range(x))
  <2>1. \A k \in 1..Len(x) : x[k] \in Range(x)
    BY <1>11 DEF Range
  <2> QED  BY <2>1, <1>11, SeqIn
<1>13. VarsOf(Range(x)) = VarsOf(Nodes(ks))
  BY <1>8, <1>11 DEF VarsOf
<1> QED  BY <1>11, <1>12, <1>13 DEF x

\* order_qual_clauses keeps the clauses.
LEMMA Reordered ==
  ASSUME NEW n \in Nat, NEW d \in Seq(1..n), NEW p \in Bijection(Range(d), Range(d))
  PROVE  LET ks == [i \in 1..Len(d) |-> p[d[i]]]
         IN ks \in Seq(1..n) /\ Len(ks) = Len(d) /\ Range(ks) = Range(d)
<1> DEFINE ks == [i \in 1..Len(d) |-> p[d[i]]]
           S == Range(d)
<1>1. p \in [S -> S] /\ \A w \in S : \E v \in S : p[v] = w
  BY DEF Bijection, Surjection
<1>2. S \subseteq 1..n /\ S = {d[i] : i \in 1..Len(d)} /\ Len(d) \in Nat
  BY DEF Range
<1> HIDE DEF S
<1>3. \A i \in 1..Len(d) : p[d[i]] \in S
  BY <1>1, <1>2
<1>4. ks \in Seq(1..n) /\ Len(ks) = Len(d)
  BY <1>2, <1>3
<1>5. Range(ks) = {p[d[i]] : i \in 1..Len(d)}
  BY <1>2 DEF Range
<1>6. {p[d[i]] : i \in 1..Len(d)} = S
  <2>1. ASSUME NEW w \in S PROVE \E i \in 1..Len(d) : p[d[i]] = w
    <3>1. PICK v \in S : p[v] = w
      BY <1>1
    <3>2. PICK i \in 1..Len(d) : v = d[i]
      BY <1>2
    <3> QED  BY <3>1, <3>2
  <2> QED  BY <2>1, <1>3
<1> QED  BY <1>4, <1>5, <1>6 DEF S

(***************************************************************************)
(* The clauses.                                                            *)
(***************************************************************************)
ClausesOK == clauses = << >> \/ clauses \in ClauseLists
AllAvail(e) == \A k \in 1..Len(e) : Avail(e[k])

\* The clauses that were found to run on a device, and the nodes of the one in
\* hand that were looked at
SplitInv ==
  /\ ClausesOK /\ dev \in Seq(1..Len(clauses))
  /\ \A i \in 1..Len(dev) : AllAvail(clauses[dev[i]])
  /\ pc = "check" => cur \in Nat \ {0}
  /\ pc = "check" /\ cur <= Len(clauses) =>
       at \in 1..Len(clauses[cur]) /\ \A k \in 1..(at - 1) : Avail(clauses[cur][k])

LEMMA ClauseShape ==
  ASSUME ClausesOK
  PROVE  /\ Len(clauses) \in Nat
         /\ \A i \in 1..Len(clauses) :
              /\ clauses[i] \in Seq(Range(clauses[i])) /\ Len(clauses[i]) \in Nat
              /\ Len(clauses[i]) > 0
<1>1. CASE clauses = << >>
  <2>1. Len(clauses) = 0 /\ 1..0 = {}
    BY <1>1
  <2> QED  BY <2>1
<1>2. CASE clauses \in ClauseLists
  <2>1. /\ clauses \in Seq(Range(clauses))
        /\ \A e \in Range(clauses) : e \in Seq(Range(e)) /\ e # << >>
    BY <1>2, ClausesAssumption
  <2>2. Len(clauses) \in Nat /\ \A i \in 1..Len(clauses) : clauses[i] \in Range(clauses)
    BY <2>1 DEF Range
  <2>3. ASSUME NEW e \in Range(clauses) PROVE Len(e) \in Nat /\ Len(e) > 0
    BY <2>1
  <2> QED  BY <2>1, <2>2, <2>3
<1> QED  BY <1>1, <1>2 DEF ClausesOK

LEMMA ClauseTranslatable ==
  ASSUME ClausesOK, NEW i \in 1..Len(clauses), AllAvail(clauses[i])
  PROVE  Translatable(clauses[i])
<1> DEFINE e == clauses[i]
<1>1. clauses \in ClauseLists
  <2>1. CASE clauses = << >>
    <3>1. 1..Len(clauses) = {}
      BY <2>1
    <3> QED  BY <3>1
  <2> QED  BY <2>1 DEF ClausesOK
<1>2. e \in Range(clauses)
  <2>1. clauses \in Seq(Range(clauses))
    BY <1>1, ClausesAssumption
  <2> QED  BY <2>1 DEF Range
<1>3. \A k \in 1..Len(e) :
        /\ e[k].tag \in Leaves \cup Calls \cup TestNodes \cup {"Bool"}
        /\ e[k].tag \in TestNodes => e[k].type = "bool" /\ k < Len(e)
        /\ e[k].tag \in Calls =>
             /\ e[k].type = e[k].f.ret
             /\ CatalogOf(e[k].f) # 0 => IsDevType(e[k].f.ret)
  <2> HIDE DEF e
  <2> QED  BY <1>1, <1>2, ClausesAssumption
<1>4. Len(e) \in Nat /\ \A k \in 1..Len(e) : Avail(e[k])
  BY ClauseShape DEF AllAvail
<1> HIDE DEF e
<1>5. ASSUME NEW k \in 1..Len(e) PROVE IsDevType(e[k].type)
  <2>1. CASE e[k].tag \in Leaves
    BY <2>1, <1>4 DEF Avail, Leaves, Calls
  <2>2. CASE e[k].tag \in Calls
    <3>1. ~Bad(e[k].f)
      BY <2>2, <1>4 DEF Avail, Leaves, Calls
    <3> QED  BY <3>1, <2>2, <1>3 DEF Bad
  <2>3. CASE e[k].tag \in TestNodes
    BY <2>3, <1>3 DEF IsDevType, DevTypes
  <2>4. CASE e[k].tag = "Bool"
    BY <2>4, <1>4 DEF Avail, Leaves, Calls
  <2> QED  BY <2>1, <2>2, <2>3, <2>4, <1>3
<1>6. ASSUME NEW k \in 1..Len(e), e[k].tag = "NullTest"
      PROVE  k < Len(e) /\ IsDevType(e[k + 1].type)
  <2>1. k < Len(e)
    BY <1>3, <1>6 DEF TestNodes
  <2>2. k + 1 \in 1..Len(e)
    BY <2>1, <1>4
  <2> QED  BY <2>1, <2>2, <1>5
<1> QED  BY <1>4, <1>6 DEF Translatable, e

LEMMA CheckSplits ==
  ASSUME CacheInv, SplitInv, pc = "check", cur <= Len(clauses), clauses' = clauses,
         CheckOn(NodeAvailable(Node)) \/ CheckBroken
  PROVE  SplitInv' /\ pc' # "assert"
<1> DEFINE e == clauses[cur]
<1>1. /\ pc = "check" /\ cur <= Len(clauses) /\ clauses' = clauses
      /\ cur \in Nat \ {0} /\ ClausesOK /\ dev \in Seq(1..Len(clauses))
      /\ \A i \in 1..Len(dev) : AllAvail(clauses[dev[i]])
      /\ at \in 1..Len(e) /\ \A k \in 1..(at - 1) : Avail(e[k])
  BY DEF SplitInv
<1>2. /\ Len(clauses) \in Nat /\ cur \in 1..Len(clauses) /\ Len(e) \in Nat
      /\ \A i \in 1..Len(clauses) : Len(clauses[i]) \in Nat /\ Len(clauses[i]) > 0
  BY <1>1, ClauseShape
<1>3. Node = e[at]
  BY DEF Node
<1>4. NodeAvailable(Node) <=> Avail(e[at])
  BY <1>3, QuickCheck
<1>5. ClausesOK'
  BY <1>1 DEF ClausesOK
<1>6. CASE pc' = "ub" /\ UNCHANGED <<cur, at, dev, host>>
  <2>1. pc' # "check" /\ pc' # "assert" /\ dev' = dev
    BY <1>6
  <2> QED  BY <2>1, <1>1, <1>5 DEF SplitInv, AllAvail, Avail, Bad
<1> DEFINE Same(d) == d \in Seq(1..Len(clauses)) /\ \A i \in 1..Len(d) : AllAvail(clauses[d[i]])
<1>7. ASSUME pc' = "check", cur' = cur + 1, at' = 1, Same(dev')
      PROVE  SplitInv'
  <2>1. cur' \in Nat \ {0}
    BY <1>1, <1>7
  <2>2. cur' <= Len(clauses) => 1 \in 1..Len(clauses[cur'])
    <3>1. cur' <= Len(clauses) => cur' \in 1..Len(clauses)
      BY <2>1, <1>2
    <3> QED  BY <3>1, <1>2
  <2>3. 1..(1 - 1) = {}
    OBVIOUS
  <2> QED  BY <2>1, <2>2, <2>3, <1>1, <1>5, <1>7 DEF SplitInv, AllAvail, Avail, Bad
<1>8. CASE pc' = "check" /\ ~NodeAvailable(Node)
  <2>1. cur' = cur + 1 /\ at' = 1 /\ dev' = dev
    BY <1>8 DEF CheckOn, CheckBroken
  <2>2. Same(dev')
    BY <2>1, <1>1
  <2> QED  BY <2>1, <2>2, <1>7, <1>8
<1>9. CASE pc' = "check" /\ NodeAvailable(Node) /\ at = Len(e)
  <2>1. cur' = cur + 1 /\ at' = 1 /\ dev' = Append(dev, cur)
    BY <1>9 DEF CheckOn, CheckBroken
  <2>2. AllAvail(e)
    <3>1. \A k \in 1..Len(e) : k \in 1..(at - 1) \/ k = at
      BY <1>2, <1>9
    <3> QED  BY <3>1, <1>1, <1>4, <1>9 DEF AllAvail
  <2>3. /\ Len(dev) \in Nat /\ dev' \in Seq(1..Len(clauses)) /\ Len(dev') = Len(dev) + 1
        /\ dev'[Len(dev) + 1] = cur /\ \A i \in 1..Len(dev) : dev'[i] = dev[i]
    BY <2>1, <1>1, <1>2
  <2>4. \A i \in 1..Len(dev') : i \in 1..Len(dev) \/ i = Len(dev) + 1
    BY <2>3
  <2>5. Same(dev')
    BY <2>2, <2>3, <2>4, <1>1
  <2> QED  BY <2>1, <2>5, <1>7, <1>9
<1>10. CASE pc' = "check" /\ NodeAvailable(Node) /\ at # Len(e)
  <2>1. cur' = cur /\ at' = at + 1 /\ dev' = dev
    BY <1>10 DEF CheckOn, CheckBroken
  <2>2. at' \in 1..Len(e) /\ \A k \in 1..(at' - 1) : k \in 1..(at - 1) \/ k = at
    BY <2>1, <1>1, <1>2, <1>10
  <2>3. \A k \in 1..(at' - 1) : Avail(e[k])
    BY <2>2, <1>1, <1>4, <1>10
  <2>4. clauses'[cur'] = e
    BY <2>1, <1>1
  <2> HIDE DEF e
  <2>5. (at \in 1..Len(clauses[cur]))' /\ (\A k \in 1..(at - 1) : Avail(clauses[cur][k]))'
    BY <2>2, <2>3, <2>4 DEF Avail, Bad
  <2>6. (dev \in Seq(1..Len(clauses)))' /\ (\A i \in 1..Len(dev) : AllAvail(clauses[dev[i]]))'
    <3>1. (dev \in Seq(1..Len(clauses)))'
      BY <2>1, <1>1
    <3>2. ASSUME NEW i \in 1..Len(dev) PROVE AllAvail(clauses[dev[i]])'
      <4>1. PICK x : x = clauses[dev[i]]
        OBVIOUS
      <4>2. AllAvail(x)
        BY <4>1, <1>1
      <4>3. AllAvail(x)'
        BY <4>2 DEF AllAvail, Avail, Bad
      <4>4. clauses'[dev'[i]] = x
        BY <4>1, <2>1, <1>1
      <4> QED  BY <4>3, <4>4 DEF AllAvail, Avail, Bad
    <3> QED  BY <3>1, <3>2, <2>1
  <2>7. (pc = "check" => cur \in Nat \ {0})'
    BY <2>1, <1>1
  <2> QED  BY <2>5, <2>6, <2>7, <1>5, <1>10, Zenon DEF SplitInv
<1>11. \/ pc' = "check"
       \/ pc' = "ub" /\ UNCHANGED <<cur, at, dev, host>>
  BY DEF CheckOn, CheckBroken
<1> QED  BY <1>6, <1>8, <1>9, <1>10, <1>11

\* The other steps leave the split alone.
LEMMA SplitNext ==
  ASSUME CacheInv, SplitInv, [Next]_vars
  PROVE  SplitInv'
<1>1. CASE CheckNode \/ InvalidateInCheck
  <2>1. /\ pc = "check" /\ cur <= Len(clauses) /\ clauses' = clauses
        /\ CheckOn(NodeAvailable(Node)) \/ CheckBroken
    BY <1>1 DEF CheckNode, InvalidateInCheck
  <2> QED  BY <2>1, CheckSplits
<1>2. CASE PlanQuery
  <2>1. /\ clauses' \in ClauseLists /\ cur' = 1 /\ at' = 1 /\ dev' = << >> /\ pc' = "check"
    BY <1>2 DEF PlanQuery
  <2>2. ClausesOK'
    BY <2>1 DEF ClausesOK
  <2>3. /\ Len(clauses') \in Nat
        /\ \A i \in 1..Len(clauses') : Len(clauses'[i]) \in Nat /\ Len(clauses'[i]) > 0
    <3>1. /\ clauses' \in Seq(Range(clauses'))
          /\ \A e \in Range(clauses') : e \in Seq(Range(e)) /\ e # << >>
      BY <2>1, ClausesAssumption
    <3>2. \A i \in 1..Len(clauses') : clauses'[i] \in Range(clauses')
      BY <3>1 DEF Range
    <3>3. ASSUME NEW e \in Range(clauses') PROVE Len(e) \in Nat /\ Len(e) > 0
      BY <3>1
    <3> QED  BY <3>1, <3>2, <3>3
  <2>4. dev' \in Seq(1..Len(clauses')) /\ Len(dev') = 0 /\ 1..0 = {} /\ 1..(1 - 1) = {}
    BY <2>1
  <2>5. 1 <= Len(clauses') => 1 \in 1..Len(clauses'[1])
    <3>1. 1 <= Len(clauses') => 1 \in 1..Len(clauses')
      BY <2>3
    <3> QED  BY <3>1, <2>3
  <2> QED  BY <2>1, <2>2, <2>4, <2>5 DEF SplitInv, AllAvail, Avail, Bad
<1>3. CASE \/ PathRejected \/ CreatePlan \/ WalkLeaf \/ WalkCall \/ WalkBuiltin \/ Declare
           \/ CopyPlan \/ BeginPlan \/ Invalidate \/ InvalidateInWalk \/ FollowFreed
           \/ Stopped \/ UNCHANGED vars
  <2>1. /\ clauses' = clauses /\ dev' = dev
        /\ pc' # "check" \/ UNCHANGED <<cur, at, pc>>
    BY <1>3 DEF PathRejected, CreatePlan, WalkLeaf, WalkCall, WalkBuiltin, Declare, CopyPlan,
       BeginPlan, Invalidate, InvalidateInWalk, FollowFreed, Stopped, vars, splitVars, Advance,
       WalkFails, WalkBroken
  <2> QED  BY <2>1 DEF SplitInv, ClausesOK, AllAvail, Avail, Bad
<1> QED  BY <1>1, <1>2, <1>3 DEF Next

(***************************************************************************)
(* The context of the walker.                                              *)
(***************************************************************************)
\* list_append_unique_ptr, and the number that the node has in the list
LEMMA Unique ==
  ASSUME NEW l, l \in Seq(Range(l)), NEW x
  PROVE  LET r == AppendUnique(l, x)
         IN /\ r \in Seq(Range(r)) /\ Range(r) = Range(l) \cup {x}
            /\ \A i \in 1..Len(r) : i \in 1..Len(l) \/ i = IndexOf(r, x)
<1> DEFINE r == AppendUnique(l, x)
           j == Len(l) + 1
<1>1. CASE x \in Range(l)
  <2>1. r = l
    BY <1>1 DEF AppendUnique
  <2> QED  BY <2>1, <1>1
<1>2. CASE x \notin Range(l)
  <2>1. r = Append(l, x)
    BY <1>2 DEF AppendUnique
  <2> HIDE DEF r
  <2>2. /\ r \in Seq(Range(r)) /\ Len(l) \in Nat /\ Len(r) = j
        /\ \A k \in 1..Len(l) : r[k] = l[k]
        /\ r[j] = x
    BY <2>1, AppendSeq
  <2>3. DOMAIN r = 1..j /\ DOMAIN l = 1..Len(l) /\ j \in 1..j
    BY <2>2
  <2>4. \A k \in 1..j : k \in 1..Len(l) \/ k = j
    BY <2>2
  <2>5. \A k \in 1..Len(l) : k \in 1..j
    BY <2>2
  <2> HIDE DEF j
  <2>6. Range(r) = Range(l) \cup {x}
    BY <2>2, <2>3, <2>4, <2>5 DEF Range
  <2>7. \A k \in 1..Len(l) : r[k] # x
    BY <2>2, <2>3, <1>2 DEF Range
  <2>8. IndexOf(r, x) = j
    <3>1. \A k \in 1..Len(r) : r[k] = x <=> k = j
      BY <2>2, <2>3, <2>4, <2>7
    <3>2. j \in 1..Len(r)
      BY <2>2, <2>3
    <3> DEFINE y == CHOOSE k \in 1..Len(r) : r[k] = x
    <3>3. y \in 1..Len(r) /\ r[y] = x
      BY <3>1, <3>2
    <3>4. IndexOf(r, x) = y
      BY DEF IndexOf
    <3> HIDE DEF y
    <3> QED  BY <3>1, <3>3, <3>4
  <2> QED  BY <2>2, <2>4, <2>6, <2>8 DEF r
<1> QED  BY <1>1, <1>2

LEMMA RangeAppend ==
  ASSUME NEW l, l \in Seq(Range(l)), NEW x
  PROVE  Append(l, x) \in Seq(Range(Append(l, x))) /\ Range(Append(l, x)) = Range(l) \cup {x}
<1> DEFINE r == Append(l, x)
           j == Len(l) + 1
<1>1. /\ r \in Seq(Range(r)) /\ Len(l) \in Nat /\ Len(r) = j
      /\ \A k \in 1..Len(l) : r[k] = l[k]
      /\ r[j] = x
  BY AppendSeq
<1> HIDE DEF r
<1>2. DOMAIN r = 1..j /\ DOMAIN l = 1..Len(l) /\ j \in 1..j
  BY <1>1
<1>3. \A k \in 1..j : k \in 1..Len(l) \/ k = j
  BY <1>1
<1>4. \A k \in 1..Len(l) : k \in 1..j
  BY <1>1
<1> HIDE DEF j
<1>5. Range(r) = Range(l) \cup {x}
  BY <1>1, <1>2, <1>3, <1>4 DEF Range
<1> QED  BY <1>1, <1>5 DEF r

\* The lists are lists.
Lists(c) ==
  /\ c = [types |-> c.types, funcs |-> c.funcs, params |-> c.params, vars |-> c.vars,
          flags |-> c.flags, str |-> c.str]
  /\ c.types \in Seq(Range(c.types)) /\ c.funcs \in Seq(Range(c.funcs))
  /\ c.params \in Seq(Range(c.params)) /\ c.vars \in Seq(Range(c.vars))
  /\ c.str \in Seq(Range(c.str))

\* Every entry of the lists of variables and parameters is referred to.
Numbered(c) ==
  /\ \A i \in 1..Len(c.vars) : KVar(i) \in Range(c.str)
  /\ \A i \in 1..Len(c.params) : KParam(i) \in Range(c.str)

\* Their types are tracked, by a pointer of some epoch.
Typed(c) ==
  /\ \A p \in Range(c.types) : p = [epoch |-> p.epoch, type |-> p.type]
  /\ \A n \in Range(c.vars) \cup Range(c.params) : \E p \in Range(c.types) : p.type = n.type

\* Libraries and declaration of a function are noted.
Tracked(c, f) ==
  /\ catalog_array[CatalogOf(f)].flags \subseteq c.flags
  /\ CatalogEntry(f).templ # "F:" =>
       \E d \in Range(c.funcs) : \E x \in d.decl : x.name = f.name

\* The context after the first m nodes of e
ContextOf(c, e, m) ==
  /\ Lists(c) /\ Numbered(c) /\ Typed(c)
  /\ Range(c.vars) = VarsOf({e[k] : k \in 1..m})
  /\ \A k \in 1..m : e[k].tag \in Calls => Tracked(c, e[k].f)

LEMMA NextNode ==
  ASSUME NEW e, NEW m \in Nat
  PROVE  /\ \A k \in 1..(m + 1) : k \in 1..m \/ k = m + 1
         /\ {e[k] : k \in 1..(m + 1)} = {e[k] : k \in 1..m} \cup {e[m + 1]}
<1>1. \A k \in 1..(m + 1) : k \in 1..m \/ k = m + 1
  OBVIOUS
<1>2. (\A k \in 1..m : k \in 1..(m + 1)) /\ m + 1 \in 1..(m + 1)
  OBVIOUS
<1> QED  BY <1>1, <1>2

LEMMA LeafEmitted ==
  ASSUME NEW c, NEW e, NEW m \in Nat, ContextOf(c, e, m), e[m + 1].tag \in Leaves
  PROVE  ContextOf(EmitLeaf(c, e[m + 1]), e, m + 1)
<1> DEFINE n == e[m + 1]
           d == EmitLeaf(c, n)
           tp == TypePtr(n.type)
           vs == AppendUnique(c.vars, n)
           ps == AppendUnique(c.params, n)
           ts == AppendUnique(c.types, tp)
           i == IndexOf(vs, n)
           j == IndexOf(ps, n)
<1>1. /\ c = [types |-> c.types, funcs |-> c.funcs, params |-> c.params, vars |-> c.vars,
              flags |-> c.flags, str |-> c.str]
      /\ c.types \in Seq(Range(c.types)) /\ c.funcs \in Seq(Range(c.funcs))
      /\ c.params \in Seq(Range(c.params)) /\ c.vars \in Seq(Range(c.vars))
      /\ c.str \in Seq(Range(c.str))
  BY DEF ContextOf, Lists
<1>2. /\ Numbered(c) /\ Typed(c) /\ Range(c.vars) = VarsOf({e[k] : k \in 1..m})
      /\ \A k \in 1..m : e[k].tag \in Calls => Tracked(c, e[k].f)
  BY DEF ContextOf
<1>3. n.tag \in Leaves /\ n.tag \notin Calls
  BY DEF Leaves, Calls
<1>4. /\ ts \in Seq(Range(ts)) /\ Range(ts) = Range(c.types) \cup {tp}
  BY <1>1, Unique
<1>5. /\ vs \in Seq(Range(vs)) /\ Range(vs) = Range(c.vars) \cup {n}
      /\ \A k \in 1..Len(vs) : k \in 1..Len(c.vars) \/ k = i
  BY <1>1, Unique
<1>6. /\ ps \in Seq(Range(ps)) /\ Range(ps) = Range(c.params) \cup {n}
      /\ \A k \in 1..Len(ps) : k \in 1..Len(c.params) \/ k = j
  BY <1>1, Unique
<1>7. tp = [epoch |-> tp.epoch, type |-> tp.type] /\ tp.type = n.type
  BY DEF TypePtr
<1>8. /\ d = [types |-> d.types, funcs |-> d.funcs, params |-> d.params, vars |-> d.vars,
              flags |-> d.flags, str |-> d.str]
      /\ d.types = ts /\ d.funcs = c.funcs /\ d.flags = c.flags
      /\ \/ /\ n.tag = "Var" /\ d.vars = vs /\ d.params = c.params
            /\ d.str = Append(c.str, KVar(i))
         \/ /\ n.tag # "Var" /\ d.vars = c.vars /\ d.params = ps
            /\ d.str = Append(c.str, KParam(j))
  <2> HIDE DEF n, tp
  <2>1. CASE n.tag = "Var"
    <3>1. d = [types |-> ts, funcs |-> c.funcs, params |-> c.params, vars |-> vs,
               flags |-> c.flags, str |-> Append(c.str, KVar(i))]
      <4> HIDE DEF ts, vs, i
      <4> QED  BY <2>1, <1>1 DEF EmitLeaf, ts, vs, i, tp
    <3> HIDE DEF d, ts, vs, i
    <3> QED  BY <3>1, <2>1
  <2>2. CASE n.tag # "Var"
    <3>1. d = [types |-> ts, funcs |-> c.funcs, params |-> ps, vars |-> c.vars,
               flags |-> c.flags, str |-> Append(c.str, KParam(j))]
      <4> HIDE DEF ts, ps, j
      <4> QED  BY <2>2, <1>1 DEF EmitLeaf, ts, ps, j, tp
    <3> HIDE DEF d, ts, ps, j
    <3> QED  BY <3>1, <2>2
  <2> QED  BY <2>1, <2>2
<1> HIDE DEF n, d, tp, vs, ps, ts, i, j
<1> DEFINE v == IF n.tag = "Var" THEN KVar(i) ELSE KParam(j)
<1>9. d.str = Append(c.str, v)
  BY <1>8
<1>10. d.str \in Seq(Range(d.str)) /\ Range(d.str) = Range(c.str) \cup {v}
  <2> HIDE DEF v
  <2> QED  BY <1>1, <1>9, RangeAppend
<1>11. Lists(d)
  BY <1>1, <1>4, <1>5, <1>6, <1>8, <1>10 DEF Lists
<1>12. Numbered(d)
  <2>1. ASSUME NEW k \in 1..Len(d.vars) PROVE KVar(k) \in Range(d.str)
    <3>1. CASE k \in 1..Len(c.vars)
      <4> HIDE DEF v
      <4> QED  BY <3>1, <1>2, <1>10 DEF Numbered
    <3>2. CASE k \notin 1..Len(c.vars)
      <4>1. n.tag = "Var" /\ k = i
        BY <3>2, <1>5, <1>8
      <4> QED  BY <4>1, <1>10
    <3> QED  BY <3>1, <3>2
  <2>2. ASSUME NEW k \in 1..Len(d.params) PROVE KParam(k) \in Range(d.str)
    <3>1. CASE k \in 1..Len(c.params)
      <4> HIDE DEF v
      <4> QED  BY <3>1, <1>2, <1>10 DEF Numbered
    <3>2. CASE k \notin 1..Len(c.params)
      <4>1. n.tag # "Var" /\ k = j
        BY <3>2, <1>6, <1>8
      <4> QED  BY <4>1, <1>10
    <3> QED  BY <3>1, <3>2
  <2> QED  BY <2>1, <2>2 DEF Numbered
<1>13. Typed(d)
  <2>1. Range(d.vars) \cup Range(d.params) \subseteq Range(c.vars) \cup Range(c.params) \cup {n}
    BY <1>5, <1>6, <1>8
  <2>2. Range(d.types) = Range(c.types) \cup {tp}
    BY <1>4, <1>8
  <2>3. \A p \in Range(d.types) : p = [epoch |-> p.epoch, type |-> p.type]
    BY <2>2, <1>2, <1>7 DEF Typed
  <2>4. ASSUME NEW x \in Range(d.vars) \cup Range(d.params)
        PROVE  \E p \in Range(d.types) : p.type = x.type
    <3>1. CASE x = n
      BY <3>1, <2>2, <1>7
    <3>2. CASE x # n
      <4>1. x \in Range(c.vars) \cup Range(c.params)
        BY <3>2, <2>1
      <4>2. PICK p \in Range(c.types) : p.type = x.type
        BY <4>1, <1>2 DEF Typed
      <4> QED  BY <4>2, <2>2
    <3> QED  BY <3>1, <3>2
  <2> QED  BY <2>3, <2>4 DEF Typed
<1>14. Range(d.vars) = VarsOf({e[k] : k \in 1..(m + 1)})
  <2>1. {e[k] : k \in 1..(m + 1)} = {e[k] : k \in 1..m} \cup {n}
    BY NextNode DEF n
  <2> DEFINE A == {e[k] : k \in 1..m}
             B == {e[k] : k \in 1..(m + 1)}
  <2>2. B = A \cup {n} /\ Range(c.vars) = VarsOf(A)
    BY <2>1, <1>2
  <2> HIDE DEF A, B
  <2>3. Range(d.vars) = VarsOf(B)
    BY <2>2, <1>5, <1>8 DEF VarsOf
  <2> QED  BY <2>3 DEF B
<1>15. ASSUME NEW k \in 1..(m + 1), e[k].tag \in Calls PROVE Tracked(d, e[k].f)
  <2>1. k \in 1..m
    BY <1>3, <1>15, NextNode DEF n
  <2>2. Tracked(c, e[k].f)
    BY <2>1, <1>2, <1>15
  <2> QED  BY <2>2, <1>8 DEF Tracked
<1>16. ContextOf(d, e, m + 1)
  BY <1>11, <1>12, <1>13, <1>14, <1>15 DEF ContextOf
<1> QED  BY <1>16 DEF d, n

\* A call that adds to the functions and to the libraries
LEMMA CallAdded ==
  ASSUME NEW c, NEW e, NEW m \in Nat, ContextOf(c, e, m), e[m + 1].tag \notin Leaves,
         NEW d, NEW x, d.str = Append(c.str, x),
         d = [types |-> c.types, funcs |-> d.funcs, params |-> c.params, vars |-> c.vars,
              flags |-> d.flags, str |-> d.str],
         d.funcs \in Seq(Range(d.funcs)), Range(c.funcs) \subseteq Range(d.funcs),
         c.flags \subseteq d.flags, e[m + 1].tag \in Calls => Tracked(d, e[m + 1].f)
  PROVE  ContextOf(d, e, m + 1)
<1>1. /\ c.types \in Seq(Range(c.types))
      /\ c.params \in Seq(Range(c.params)) /\ c.vars \in Seq(Range(c.vars))
      /\ c.str \in Seq(Range(c.str))
  BY DEF ContextOf, Lists
<1>2. /\ Numbered(c) /\ Typed(c) /\ Range(c.vars) = VarsOf({e[k] : k \in 1..m})
      /\ \A k \in 1..m : e[k].tag \in Calls => Tracked(c, e[k].f)
  BY DEF ContextOf
<1>3. d.types = c.types /\ d.params = c.params /\ d.vars = c.vars
  OBVIOUS
<1>4. d.str \in Seq(Range(d.str)) /\ Range(d.str) = Range(c.str) \cup {x}
  BY <1>1, RangeAppend
<1>5. Lists(d)
  BY <1>1, <1>3, <1>4 DEF Lists
<1>6. Numbered(d)
  BY <1>2, <1>3, <1>4 DEF Numbered
<1>7. Typed(d)
  BY <1>2, <1>3 DEF Typed
<1>8. Range(d.vars) = VarsOf({e[k] : k \in 1..(m + 1)})
  <2> DEFINE A == {e[k] : k \in 1..m}
             B == {e[k] : k \in 1..(m + 1)}
  <2>1. B = A \cup {e[m + 1]} /\ Range(c.vars) = VarsOf(A)
    BY <1>2, NextNode
  <2> HIDE DEF A, B
  <2>2. Range(d.vars) = VarsOf(B)
    BY <2>1, <1>3 DEF VarsOf, Leaves
  <2> QED  BY <2>2 DEF B
<1>9. ASSUME NEW k \in 1..(m + 1), e[k].tag \in Calls PROVE Tracked(d, e[k].f)
  <2>1. CASE k = m + 1
    BY <2>1, <1>9
  <2>2. CASE k \in 1..m
    <3>1. Tracked(c, e[k].f)
      BY <2>2, <1>2, <1>9
    <3> QED  BY <3>1 DEF Tracked
  <2> QED  BY <2>1, <2>2, NextNode
<1> QED  BY <1>5, <1>6, <1>7, <1>8, <1>9 DEF ContextOf

LEMMA CallEmitted ==
  ASSUME NEW c, NEW e, NEW m \in Nat, ContextOf(c, e, m), e[m + 1].tag \in Calls,
         CacheInv, ~Bad(e[m + 1].f)
  PROVE  ContextOf(EmitCall(c, e[m + 1], devfunc_lookup(cache, e[m + 1].f)), e, m + 1)
<1> DEFINE n == e[m + 1]
           l == devfunc_lookup(cache, n.f)
           d == EmitCall(c, n, l)
           y == [ptr |-> l.ptr, decl |-> l.entry.decl]
           x == Call(l.entry.name, n.n)
           fs == AppendUnique(c.funcs, y)
<1>1. /\ l.entry.flags = catalog_array[CatalogOf(n.f)].flags
      /\ CatalogEntry(n.f).templ # "F:" => \E z \in l.entry.decl : z.name = n.f.name
  BY FoundIs
<1> HIDE DEF l
<1>2. /\ c = [types |-> c.types, funcs |-> c.funcs, params |-> c.params, vars |-> c.vars,
              flags |-> c.flags, str |-> c.str]
      /\ c.funcs \in Seq(Range(c.funcs))
  BY DEF ContextOf, Lists
<1>3. fs \in Seq(Range(fs)) /\ Range(fs) = Range(c.funcs) \cup {y}
  <2> HIDE DEF y
  <2> QED  BY <1>2, Unique
<1>4. d = [types |-> c.types, funcs |-> fs, params |-> c.params, vars |-> c.vars,
           flags |-> c.flags \cup l.entry.flags, str |-> Append(c.str, x)]
  <2> DEFINE g == c.flags \cup l.entry.flags
             o == Append(c.str, x)
  <2>1. d = [c EXCEPT !.funcs = fs, !.flags = g, !.str = o]
    BY DEF EmitCall
  <2> HIDE DEF d, fs, g, o
  <2>2. d = [types |-> c.types, funcs |-> fs, params |-> c.params, vars |-> c.vars,
             flags |-> g, str |-> o]
    BY <2>1, <1>2
  <2> QED  BY <2>2 DEF g, o
<1>5. y.decl = l.entry.decl
  OBVIOUS
<1> HIDE DEF d, fs, x, y, n
<1>6. /\ d.funcs = fs /\ d.str = Append(c.str, x) /\ d.flags = c.flags \cup l.entry.flags
      /\ d = [types |-> c.types, funcs |-> d.funcs, params |-> c.params, vars |-> c.vars,
              flags |-> d.flags, str |-> d.str]
  BY <1>4
<1>7. Tracked(d, n.f)
  <2>1. catalog_array[CatalogOf(n.f)].flags \subseteq d.flags
    BY <1>1, <1>6
  <2>2. y \in Range(d.funcs)
    BY <1>3, <1>6
  <2> QED  BY <2>1, <2>2, <1>1, <1>5 DEF Tracked
<1>8. n.tag \notin Leaves /\ n.tag \in Calls
  BY DEF Leaves, Calls, n
<1>9. ContextOf(d, e, m + 1)
  BY <1>3, <1>6, <1>7, <1>8, CallAdded DEF n
<1> QED  BY <1>9 DEF d, n, l

LEMMA BuiltinEmitted ==
  ASSUME NEW c, NEW e, NEW m \in Nat, ContextOf(c, e, m),
         e[m + 1].tag \in TestNodes \cup {"Bool"}
  PROVE  ContextOf(EmitBuiltin(c, e[m + 1]), e, m + 1)
<1> DEFINE n == e[m + 1]
           d == EmitBuiltin(c, n)
           y == [ptr |-> [epoch |-> epoch, i |-> 0],
                 decl |-> {[name |-> BuiltinName(n), args |-> [k \in 1..n.n |-> "bool"]]}]
           x == Call(BuiltinName(n), n.n)
           fs == IF n.tag = "Bool" /\ n.op # "not" THEN Append(c.funcs, y) ELSE c.funcs
<1>1. /\ c = [types |-> c.types, funcs |-> c.funcs, params |-> c.params, vars |-> c.vars,
              flags |-> c.flags, str |-> c.str]
      /\ c.funcs \in Seq(Range(c.funcs))
  BY DEF ContextOf, Lists
<1>2. fs \in Seq(Range(fs)) /\ Range(c.funcs) \subseteq Range(fs)
  <2> HIDE DEF y
  <2> QED  BY <1>1, RangeAppend
<1>3. d = [types |-> c.types, funcs |-> fs, params |-> c.params, vars |-> c.vars,
           flags |-> c.flags, str |-> Append(c.str, x)]
  <2> HIDE DEF x, y
  <2> QED  BY <1>1 DEF EmitBuiltin, x, y
<1> HIDE DEF d, fs, x, y, n
<1>4. /\ d.funcs = fs /\ d.str = Append(c.str, x) /\ d.flags = c.flags
      /\ d = [types |-> c.types, funcs |-> d.funcs, params |-> c.params, vars |-> c.vars,
              flags |-> d.flags, str |-> d.str]
  BY <1>3
<1>5. n.tag \notin Leaves /\ n.tag \notin Calls
  BY DEF Leaves, Calls, TestNodes, n
<1>6. ContextOf(d, e, m + 1)
  BY <1>2, <1>4, <1>5, CallAdded DEF n
<1> QED  BY <1>6 DEF d, n

(***************************************************************************)
(* The walk.                                                               *)
(***************************************************************************)
Walking == pc \in {"walk", "declare"} \/ Planned

\* The nodes that were walked over
Done == IF pc = "walk" THEN at - 1 ELSE Len(expr)

\* The expression has the variables of the device clauses, and the walker
\* translates what is left of it.
ExprInv ==
  Walking =>
    /\ expr \in Seq(Range(expr)) /\ Len(expr) > 0 /\ Translatable(expr)
    /\ VarsOf(Range(expr)) = VarsOf(Nodes(dev))
    /\ pc = "walk" => at \in 1..Len(expr)

\* The context is that of the nodes walked over; a plan has it as it was when
\* its types were known to be of the present epoch.
CtxInv ==
  /\ Walking => ContextOf(ctx, expr, Done)
  /\ pc = "planned" => plan = [source |-> plan.source, ctx |-> plan.ctx, atts |-> plan.atts,
                               host |-> plan.host]
  /\ Planned => /\ plan.source = ctx.str /\ plan.ctx = ctx /\ plan.atts = Attrs(dev)
                /\ \A p \in Range(ctx.types) : ~Dangling(p)

WalkInv == ExprInv /\ CtxInv /\ pc # "assert"

\* A context or an expression that does not change
LEMMA SameContext ==
  ASSUME UNCHANGED <<ctx, expr>>, NEW m, ContextOf(ctx, expr, m), Done' = m
  PROVE  ContextOf(ctx, expr, Done)'
BY DEF ContextOf, Lists, Numbered, Typed, Tracked, VarsOf, KVar, KParam

\* A step of the walker
LEMMA WalkedOn ==
  ASSUME WalkInv, pc = "walk", Advance, UNCHANGED <<expr, clauses, dev>>,
         ContextOf(ctx', expr, at)
  PROVE  WalkInv'
<1>1. /\ expr \in Seq(Range(expr)) /\ Len(expr) > 0 /\ Translatable(expr)
      /\ VarsOf(Range(expr)) = VarsOf(Nodes(dev)) /\ at \in 1..Len(expr) /\ Len(expr) \in Nat
  BY DEF WalkInv, ExprInv, Walking
<1>2. \/ pc' = "declare" /\ at = Len(expr)
      \/ pc' = "walk" /\ at' = at + 1 /\ at # Len(expr)
  BY DEF Advance
<1>3. Done' = at /\ pc' # "planned" /\ pc' # "assert"
  BY <1>1, <1>2 DEF Done
<1>4. pc' = "walk" => at' \in 1..Len(expr)
  BY <1>1, <1>2
<1>5. (expr \in Seq(Range(expr)) /\ Len(expr) > 0 /\ Translatable(expr))'
  BY <1>1 DEF Translatable, Avail, Bad
<1>6. (VarsOf(Range(expr)) = VarsOf(Nodes(dev)))'
  BY <1>1 DEF VarsOf, Nodes
<1>7. ExprInv'
  BY <1>4, <1>5, <1>6 DEF ExprInv
<1>8. ContextOf(ctx, expr, Done)'
  BY <1>3 DEF ContextOf, Lists, Numbered, Typed, Tracked, VarsOf, KVar, KParam
<1>9. CtxInv'
  BY <1>3, <1>8 DEF CtxInv, Planned
<1> QED  BY <1>3, <1>7, <1>9 DEF WalkInv

LEMMA WalkNode ==
  ASSUME WalkInv, pc = "walk"
  PROVE  /\ at - 1 \in Nat /\ (at - 1) + 1 = at /\ at \in 1..Len(expr)
         /\ ContextOf(ctx, expr, at - 1)
         /\ Avail(expr[at]) \/ expr[at].tag = "Bool"
         /\ expr[at].tag = "NullTest" => IsDevType(expr[at + 1].type)
<1>1. at \in 1..Len(expr) /\ Translatable(expr) /\ expr \in Seq(Range(expr))
  BY DEF WalkInv, ExprInv, Walking
<1>2. at - 1 \in Nat /\ (at - 1) + 1 = at
  BY <1>1
<1>3. ContextOf(ctx, expr, at - 1)
  BY DEF WalkInv, CtxInv, Walking, Done
<1> QED  BY <1>1, <1>2, <1>3 DEF Translatable

LEMMA WalkLeafStep ==
  ASSUME WalkInv, WalkLeaf
  PROVE  WalkInv'
<1> DEFINE n == expr[at]
           m == at - 1
<1>1. pc = "walk" /\ n.tag \in Leaves /\ UNCHANGED <<expr, clauses, dev>>
  BY DEF WalkLeaf, splitVars
<1>2. /\ m \in Nat /\ m + 1 = at /\ ContextOf(ctx, expr, m)
      /\ Avail(n) \/ n.tag = "Bool"
  BY <1>1, WalkNode
<1>3. ~n.coll /\ IsDevType(n.type) /\ (n.tag = "Param" => n.kind = "extern")
  BY <1>1, <1>2 DEF Avail, Leaves, Calls
<1>4. ctx' = EmitLeaf(ctx, n) /\ Advance
  BY <1>3 DEF WalkLeaf, Runs
<1> HIDE DEF m
<1>5. ContextOf(EmitLeaf(ctx, expr[m + 1]), expr, m + 1)
  BY <1>1, <1>2, LeafEmitted
<1>6. ContextOf(ctx', expr, at)
  BY <1>2, <1>4, <1>5
<1> QED  BY <1>1, <1>4, <1>6, WalkedOn

LEMMA WalkCallStep ==
  ASSUME CacheInv, WalkInv, WalkCall
  PROVE  WalkInv'
<1> DEFINE n == expr[at]
           m == at - 1
           l == devfunc_lookup(cache, n.f)
<1>1. pc = "walk" /\ n.tag \in Calls /\ UNCHANGED <<expr, clauses, dev, plan>>
  BY DEF WalkCall, splitVars
<1>2. /\ m \in Nat /\ m + 1 = at /\ ContextOf(ctx, expr, m)
      /\ Avail(n) \/ n.tag = "Bool"
  BY <1>1, WalkNode
<1>3. ~n.coll /\ ~Bad(n.f)
  BY <1>1, <1>2 DEF Avail, Leaves, Calls
<1>4. l.ok
  BY <1>3, FoundIs
<1>5. \/ pc' = "ub"
      \/ ctx' = EmitCall(ctx, n, l) /\ Advance
  <2> HIDE DEF l
  <2> QED  BY <1>3, <1>4 DEF WalkCall, WalkBroken, l
<1>6. CASE pc' = "ub"
  BY <1>6 DEF WalkInv, ExprInv, CtxInv, Walking, Planned
<1>7. CASE ctx' = EmitCall(ctx, n, l) /\ Advance
  <2> HIDE DEF m, l
  <2>1. ContextOf(EmitCall(ctx, expr[m + 1], devfunc_lookup(cache, expr[m + 1].f)), expr, m + 1)
    BY <1>1, <1>2, <1>3, CallEmitted
  <2>2. ContextOf(ctx', expr, at)
    BY <2>1, <1>2, <1>7 DEF l
  <2> QED  BY <2>2, <1>1, <1>7, WalkedOn
<1> QED  BY <1>5, <1>6, <1>7

LEMMA WalkBuiltinStep ==
  ASSUME WalkInv, WalkBuiltin
  PROVE  WalkInv'
<1> DEFINE n == expr[at]
           m == at - 1
<1>1. pc = "walk" /\ n.tag \in TestNodes \cup {"Bool"} /\ UNCHANGED <<expr, clauses, dev>>
  BY DEF WalkBuiltin, splitVars
<1>2. /\ m \in Nat /\ m + 1 = at /\ ContextOf(ctx, expr, m)
      /\ Avail(n) \/ n.tag = "Bool"
      /\ n.tag = "NullTest" => IsDevType(expr[at + 1].type)
  BY <1>1, WalkNode
<1>3. n.tag = "NullTest" => ~n.argisrow
  BY <1>2 DEF Avail, Leaves, Calls
<1>4. ctx' = EmitBuiltin(ctx, n) /\ Advance
  BY <1>2, <1>3 DEF WalkBuiltin
<1> HIDE DEF m
<1>5. ContextOf(EmitBuiltin(ctx, expr[m + 1]), expr, m + 1)
  BY <1>1, <1>2, BuiltinEmitted
<1>6. ContextOf(ctx', expr, at)
  BY <1>2, <1>4, <1>5
<1> QED  BY <1>1, <1>4, <1>6, WalkedOn

\* An invalidation in a lookup of the walker: what it found is tracked all the
\* same.
LEMMA StruckStep ==
  ASSUME CacheInv, WalkInv, InvalidateInWalk
  PROVE  WalkInv'
<1> DEFINE n == expr[at]
           m == at - 1
           null == n.tag = "NullTest" /\ ~n.argisrow
           type == IF null THEN expr[at + 1].type ELSE n.type
           q == IF null THEN <<type>> ELSE LookedUp(n)
           l == devfunc_lookup(cache, n.f)
<1>1. pc = "walk" /\ UNCHANGED <<expr, clauses, dev>> /\ cache' \in Struck(n, q)
  BY DEF InvalidateInWalk, splitVars
<1>2. /\ m \in Nat /\ m + 1 = at /\ ContextOf(ctx, expr, m)
      /\ Avail(n) \/ n.tag = "Bool"
      /\ n.tag = "NullTest" => IsDevType(expr[at + 1].type)
  BY <1>1, WalkNode
<1>3. n.tag \in Leaves \/ n.tag \in Calls \/ n.tag \in TestNodes \cup {"Bool"}
  BY <1>2 DEF Avail, TestNodes
<1>4. n.tag \in TestNodes \cup {"Bool"} => null
  <2>1. q # << >>
    <3> HIDE DEF n, q
    <3> QED  BY <1>1 DEF Struck, From
  <2> QED  BY <2>1 DEF LookedUp, TestNodes, Leaves, Calls
<1>5. n.tag \in Calls => ~Bad(n.f)
  BY <1>2 DEF Avail, Leaves, Calls
<1>6. n.tag \notin Calls => IsDevType(type)
  BY <1>2, <1>3, <1>4 DEF Avail, Leaves, Calls
<1>7. \/ pc' = "ub"
      \/ /\ ctx' = IF n.tag \in Leaves THEN EmitLeaf(ctx, n)
                   ELSE IF n.tag \in Calls THEN EmitCall(ctx, n, l) ELSE EmitBuiltin(ctx, n)
         /\ Advance
  <2> HIDE DEF l
  <2> QED  BY <1>6 DEF InvalidateInWalk, WalkBroken, l
<1>8. CASE pc' = "ub"
  BY <1>8 DEF WalkInv, ExprInv, CtxInv, Walking, Planned
<1> HIDE DEF m, l
<1>9. CASE /\ ctx' = IF n.tag \in Leaves THEN EmitLeaf(ctx, n)
                     ELSE IF n.tag \in Calls THEN EmitCall(ctx, n, l) ELSE EmitBuiltin(ctx, n)
           /\ Advance
  <2>1. CASE n.tag \in Leaves
    <3>1. ContextOf(EmitLeaf(ctx, expr[m + 1]), expr, m + 1)
      BY <2>1, <1>2, LeafEmitted
    <3> QED  BY <3>1, <2>1, <1>1, <1>2, <1>9, WalkedOn
  <2>2. CASE n.tag \in Calls
    <3>1. ContextOf(EmitCall(ctx, expr[m + 1], devfunc_lookup(cache, expr[m + 1].f)), expr, m + 1)
      BY <2>2, <1>2, <1>5, CallEmitted
    <3>2. n.tag \notin Leaves
      BY <2>2 DEF Leaves, Calls
    <3>3. ContextOf(ctx', expr, at)
      BY <3>1, <3>2, <2>2, <1>2, <1>9 DEF l
    <3> QED  BY <3>3, <1>1, <1>9, WalkedOn
  <2>3. CASE n.tag \in TestNodes \cup {"Bool"}
    <3>1. ContextOf(EmitBuiltin(ctx, expr[m + 1]), expr, m + 1)
      BY <2>3, <1>2, BuiltinEmitted
    <3>2. n.tag \notin Leaves /\ n.tag \notin Calls
      BY <2>3 DEF Leaves, Calls, TestNodes
    <3> QED  BY <3>1, <3>2, <1>1, <1>2, <1>9, WalkedOn
  <2> QED  BY <2>1, <2>2, <2>3, <1>3
<1> QED  BY <1>7, <1>8, <1>9

\* The walk begins with an empty context.
LEMMA EmptyOK == \A e : ContextOf(EmptyContext, e, 0)
<1> SUFFICES ASSUME NEW e PROVE ContextOf(EmptyContext, e, 0)
  OBVIOUS
<1> DEFINE c == EmptyContext
<1>1. /\ c = [types |-> c.types, funcs |-> c.funcs, params |-> c.params, vars |-> c.vars,
              flags |-> c.flags, str |-> c.str]
      /\ c.types = << >> /\ c.funcs = << >> /\ c.params = << >> /\ c.vars = << >>
      /\ c.str = << >>
  BY DEF EmptyContext
<1> HIDE DEF c
<1>2. << >> \in Seq(Range(<< >>)) /\ Len(<< >>) = 0 /\ 1..0 = {}
  OBVIOUS
<1>3. Range(<< >>) = {}
  BY DEF Range
<1>4. Lists(c)
  BY <1>1, <1>2 DEF Lists
<1>5. Numbered(c) /\ Typed(c)
  BY <1>1, <1>2, <1>3 DEF Numbered, Typed
<1>6. Range(c.vars) = VarsOf({e[k] : k \in 1..0})
  BY <1>1, <1>2, <1>3 DEF VarsOf
<1> QED  BY <1>2, <1>4, <1>5, <1>6 DEF ContextOf, c

LEMMA CreatePlanStep ==
  ASSUME SplitInv, WalkInv, CreatePlan
  PROVE  WalkInv'
<1>1. ctx' = EmptyContext /\ at' = 1 /\ clauses' = clauses /\ dev' = dev /\ pc = "check"
  BY DEF CreatePlan, splitVars
<1>2. CASE dev = << >>
  <2>1. /\ pc' = "planned"
        /\ plan' = [source |-> NULL, ctx |-> EmptyContext, atts |-> {}, host |-> host]
    BY <1>2 DEF CreatePlan
  <2>2. plan'.source = NULL
    BY <2>1
  <2>3. ~Planned'
    BY <2>2 DEF Planned
  <2>4. plan' = [source |-> plan'.source, ctx |-> plan'.ctx, atts |-> plan'.atts,
                 host |-> plan'.host]
    BY <2>1
  <2> QED  BY <2>1, <2>3, <2>4 DEF WalkInv, ExprInv, CtxInv, Walking
<1>3. CASE dev # << >>
  <2>1. /\ pc' = "walk"
        /\ \E p \in Bijection(Range(dev), Range(dev)) :
             expr' = AndClause([i \in 1..Len(dev) |-> p[dev[i]]])
    BY <1>3 DEF CreatePlan
  <2>2. PICK p \in Bijection(Range(dev), Range(dev)) :
          expr' = AndClause([i \in 1..Len(dev) |-> p[dev[i]]])
    BY <2>1
  <2> DEFINE ks == [i \in 1..Len(dev) |-> p[dev[i]]]
  <2>3. /\ ClausesOK /\ dev \in Seq(1..Len(clauses))
        /\ \A i \in 1..Len(dev) : AllAvail(clauses[dev[i]])
    BY DEF SplitInv
  <2>4. /\ Len(clauses) \in Nat
        /\ \A i \in 1..Len(clauses) :
             clauses[i] \in Seq(Range(clauses[i])) /\ Len(clauses[i]) > 0
    BY <2>3, ClauseShape
  <2>5. ks \in Seq(1..Len(clauses)) /\ Len(ks) = Len(dev) /\ Range(ks) = Range(dev)
    BY <2>3, <2>4, Reordered
  <2>6. Len(dev) \in Nat /\ Len(dev) > 0
    BY <2>3, <1>3
  <2> HIDE DEF ks
  <2>7. ASSUME NEW i \in 1..Len(ks) PROVE Translatable(clauses[ks[i]])
    <3>1. ks[i] \in Range(dev) /\ ks[i] \in 1..Len(clauses)
      BY <2>5 DEF Range
    <3>2. PICK k \in 1..Len(dev) : ks[i] = dev[k]
      BY <3>1, <2>3 DEF Range
    <3>3. AllAvail(clauses[ks[i]])
      BY <3>2, <2>3
    <3> QED  BY <3>1, <3>3, <2>3, ClauseTranslatable
  <2>8. /\ expr' \in Seq(Range(expr')) /\ Len(expr') > 0 /\ Translatable(expr')
        /\ VarsOf(Range(expr')) = VarsOf(Nodes(ks))
    <3>1. Len(ks) > 0
      BY <2>5, <2>6
    <3>2. expr' = AndClause(ks)
      BY <2>2 DEF ks
    <3> QED  BY <3>1, <3>2, <2>4, <2>5, <2>7, AndShape
  <2>9. Nodes(ks) = Nodes(dev)
    BY <2>5 DEF Nodes
  <2>10. at' \in 1..Len(expr')
    <3>1. Len(expr') \in Nat
      BY <2>8
    <3> QED  BY <3>1, <2>8, <1>1
  <2>11. (expr \in Seq(Range(expr)) /\ Len(expr) > 0 /\ Translatable(expr))'
    BY <2>8 DEF Translatable, Avail, Bad
  <2>12. (VarsOf(Range(expr)) = VarsOf(Nodes(dev)))'
    BY <2>8, <2>9, <1>1 DEF VarsOf, Nodes
  <2>13. ExprInv'
    BY <2>10, <2>11, <2>12 DEF ExprInv
  <2>14. Done' = 0
    BY <2>1, <1>1 DEF Done
  <2>15. ContextOf(ctx', expr', 0)
    BY <1>1, EmptyOK
  <2>16. ContextOf(ctx, expr, Done)'
    BY <2>14, <2>15 DEF ContextOf, Lists, Numbered, Typed, Tracked, VarsOf, KVar, KParam
  <2>17. CtxInv'
    BY <2>1, <2>16 DEF CtxInv, Planned
  <2> QED  BY <2>1, <2>13, <2>17 DEF WalkInv
<1> QED  BY <1>2, <1>3

\* pgstrom_codegen_declarations makes the plan.
LEMMA DeclareStep ==
  ASSUME WalkInv, Declare
  PROVE  WalkInv'
<1>1. /\ pc = "declare" /\ UNCHANGED <<expr, ctx, clauses, dev, at, epoch>>
  BY DEF Declare, splitVars, walkVars
<1>2. CASE pc' = "ub"
  BY <1>2 DEF WalkInv, ExprInv, CtxInv, Walking, Planned
<1>3. CASE pc' # "ub"
  <2>1. /\ pc' = "planned" /\ \A p \in Range(ctx.types) : ~Dangling(p)
        /\ plan' = [source |-> ctx.str, ctx |-> ctx, atts |-> Attrs(dev), host |-> host]
    BY <1>3 DEF Declare
  <2>2. /\ expr \in Seq(Range(expr)) /\ Len(expr) > 0 /\ Translatable(expr)
        /\ VarsOf(Range(expr)) = VarsOf(Nodes(dev)) /\ ContextOf(ctx, expr, Len(expr))
    BY <1>1 DEF WalkInv, ExprInv, CtxInv, Walking, Done
  <2>3. ExprInv'
    <3>1. (expr \in Seq(Range(expr)) /\ Len(expr) > 0 /\ Translatable(expr))'
      BY <2>2, <1>1 DEF Translatable, Avail, Bad
    <3>2. (VarsOf(Range(expr)) = VarsOf(Nodes(dev)))'
      BY <2>2, <1>1 DEF VarsOf, Nodes
    <3> QED  BY <3>1, <3>2, <2>1 DEF ExprInv
  <2>4. Done' = Len(expr)
    BY <2>1, <1>1 DEF Done
  <2>5. ContextOf(ctx, expr, Done)'
    BY <2>2, <2>4, <1>1 DEF ContextOf, Lists, Numbered, Typed, Tracked, VarsOf, KVar, KParam
  <2>6. /\ plan'.source = ctx.str /\ plan'.ctx = ctx /\ plan'.atts = Attrs(dev)
        /\ plan' = [source |-> plan'.source, ctx |-> plan'.ctx, atts |-> plan'.atts,
                    host |-> plan'.host]
    BY <2>1
  <2>7. Attrs(dev)' = Attrs(dev)
    BY <1>1 DEF Attrs
  <2>8. (\A p \in Range(ctx.types) : ~Dangling(p))'
    BY <2>1, <1>1 DEF Dangling
  <2>9. CtxInv'
    BY <2>5, <2>6, <2>7, <2>8, <1>1 DEF CtxInv
  <2> QED  BY <2>1, <2>3, <2>9 DEF WalkInv
<1> QED  BY <1>2, <1>3

LEMMA WalkNext ==
  ASSUME CacheInv, SplitInv, WalkInv, [Next]_vars
  PROVE  WalkInv'
<1>1. CASE PlanQuery \/ PathRejected \/ BeginPlan \/ CheckNode \/ InvalidateInCheck
             \/ FollowFreed
  <2>1. pc' \in {"check", "idle", "ub"}
    BY <1>1 DEF PlanQuery, PathRejected, BeginPlan, CheckNode, InvalidateInCheck, FollowFreed,
                CheckOn, CheckBroken
  <2> QED  BY <2>1 DEF WalkInv, ExprInv, CtxInv, Walking, Planned
<1>2. CASE CopyPlan
  <2>1. pc = "planned" /\ pc' = "planned" /\ plan' = [plan EXCEPT !.source = NoSource]
    BY <1>2 DEF CopyPlan
  <2>2. plan = [source |-> plan.source, ctx |-> plan.ctx, atts |-> plan.atts,
                host |-> plan.host]
    BY <2>1 DEF WalkInv, CtxInv
  <2>3. /\ plan'.source = NoSource
        /\ plan' = [source |-> plan'.source, ctx |-> plan'.ctx, atts |-> plan'.atts,
                    host |-> plan'.host]
    BY <2>1, <2>2
  <2>4. ~Planned'
    BY <2>3 DEF Planned, NoSource
  <2> QED  BY <2>1, <2>3, <2>4 DEF WalkInv, ExprInv, CtxInv, Walking
<1>3. CASE Invalidate \/ Stopped \/ UNCHANGED vars
  <2>1. /\ UNCHANGED <<expr, ctx, clauses, dev, at, plan, pc>>
        /\ epoch' = epoch \/ pc # "planned"
    BY <1>3 DEF Invalidate, Stopped, vars, splitVars, walkVars
  <2>2. (Walking' <=> Walking) /\ (Planned' <=> Planned) /\ Done' = Done
    BY <2>1 DEF Walking, Planned, Done, NoSource
  <2>3. Walking => (expr \in Seq(Range(expr)) /\ Len(expr) > 0 /\ Translatable(expr))'
    BY <2>1 DEF WalkInv, ExprInv, Translatable, Avail, Bad
  <2>4. Walking => (VarsOf(Range(expr)) = VarsOf(Nodes(dev)))'
    BY <2>1 DEF WalkInv, ExprInv, VarsOf, Nodes
  <2>5. Walking => (pc = "walk" => at \in 1..Len(expr))'
    BY <2>1 DEF WalkInv, ExprInv
  <2>6. ExprInv'
    BY <2>2, <2>3, <2>4, <2>5 DEF ExprInv
  <2>7. ASSUME Walking PROVE ContextOf(ctx, expr, Done)'
    <3>1. ContextOf(ctx, expr, Done)
      BY <2>7 DEF WalkInv, CtxInv
    <3>2. PICK m : m = Done
      OBVIOUS
    <3>3. ContextOf(ctx, expr, m) /\ Done' = m
      BY <3>1, <3>2, <2>2
    <3> QED  BY <3>3, <2>1, SameContext
  <2>8. Attrs(dev)' = Attrs(dev)
    BY <2>1 DEF Attrs
  <2>9. ASSUME Planned PROVE (\A p \in Range(ctx.types) : ~Dangling(p))'
    <3>1. epoch' = epoch /\ \A p \in Range(ctx.types) : ~Dangling(p)
      BY <2>1, <2>9 DEF Planned, WalkInv, CtxInv
    <3> QED  BY <3>1, <2>1 DEF Dangling
  <2>10. CtxInv'
    BY <2>1, <2>2, <2>7, <2>8, <2>9 DEF WalkInv, CtxInv
  <2> QED  BY <2>1, <2>6, <2>10 DEF WalkInv
<1> QED
  BY <1>1, <1>2, <1>3, WalkLeafStep, WalkCallStep, WalkBuiltinStep, StruckStep, CreatePlanStep,
     DeclareStep
  DEF Next

LEMMA GenInit == Init => CacheInv /\ SplitInv /\ WalkInv
<1> SUFFICES ASSUME Init PROVE CacheInv /\ SplitInv /\ WalkInv
  OBVIOUS
<1>1. << >> \in Seq(Range(<< >>)) /\ Len(<< >>) = 0 /\ 1..0 = {}
  OBVIOUS
<1>2. CacheInv
  <2>1. cache.funcs = << >> /\ cache = [types |-> cache.types, funcs |-> cache.funcs]
    BY DEF Init
  <2>2. epoch \in Nat
    BY DEF Init
  <2> QED  BY <2>1, <2>2, <1>1 DEF CacheInv, CacheOK
<1>3. SplitInv
  <2>1. dev = << >> /\ clauses = << >> /\ pc = "idle"
    BY DEF Init
  <2>2. dev \in Seq(1..Len(clauses)) /\ Len(dev) = 0
    BY <2>1
  <2> QED  BY <2>1, <2>2, <1>1 DEF SplitInv, ClausesOK
<1>4. WalkInv
  BY DEF Init, WalkInv, ExprInv, CtxInv, Walking, Planned
<1> QED  BY <1>2, <1>3, <1>4

LEMMA GenNext ==
  CacheInv /\ SplitInv /\ WalkInv /\ [Next]_vars => CacheInv' /\ SplitInv' /\ WalkInv'
BY CacheNext, SplitNext, WalkNext

\* "Assert(expr_code != NULL)": a clause that
\* pgstrom_codegen_available_expression let pass the walker translates to the
\* end, for all clauses that the parser can make, with the cache emptied and
\* filled in between as it may be.
THEOREM NeverAsserts == Spec => []WalkSucceeds
<1>1. WalkInv => WalkSucceeds
  BY DEF WalkInv, WalkSucceeds
<1> QED  BY <1>1, GenInit, GenNext, PTL DEF Spec

LEMMA ListsDone == WalkInv => ListsComplete
<1> SUFFICES ASSUME WalkInv, Planned PROVE ListsComplete
  BY DEF ListsComplete
<1> DEFINE c == plan.ctx
<1>1. /\ expr \in Seq(Range(expr)) /\ VarsOf(Range(expr)) = VarsOf(Nodes(dev))
      /\ ContextOf(ctx, expr, Len(expr)) /\ plan.source = ctx.str /\ c = ctx
      /\ plan.atts = Attrs(dev) /\ \A p \in Range(ctx.types) : ~Dangling(p)
  BY DEF WalkInv, ExprInv, CtxInv, Walking, Planned, Done
<1>2. /\ Numbered(c) /\ Typed(c) /\ Range(c.vars) = VarsOf({expr[k] : k \in 1..Len(expr)})
      /\ \A k \in 1..Len(expr) : expr[k].tag \in Calls => Tracked(c, expr[k].f)
  <2> HIDE DEF c
  <2> QED  BY <1>1 DEF ContextOf
<1>3. Range(expr) = {expr[k] : k \in 1..Len(expr)}
  <2>1. DOMAIN expr = 1..Len(expr)
    BY <1>1
  <2> QED  BY <2>1 DEF Range
<1> HIDE DEF c
<1>4. plan.atts = {v.att : v \in Range(c.vars)}
  <2>1. Range(c.vars) = VarsOf(Nodes(dev))
    BY <1>1, <1>2, <1>3
  <2>2. Attrs(dev) = {v.att : v \in VarsOf(Nodes(dev))}
    BY DEF Attrs, VarsOf, Nodes
  <2> QED  BY <2>1, <2>2, <1>1
<1>5. /\ \A i \in 1..Len(c.vars) : KVar(i) \in Range(plan.source)
      /\ \A i \in 1..Len(c.params) : KParam(i) \in Range(plan.source)
  BY <1>1, <1>2 DEF Numbered
<1>6. ASSUME NEW n \in Range(c.vars) \cup Range(c.params)
      PROVE  TypePtr(n.type) \in Range(c.types)
  <2>1. PICK p \in Range(c.types) : p.type = n.type
    BY <1>2 DEF Typed
  <2>2. p = [epoch |-> p.epoch, type |-> p.type]
    BY <2>1, <1>2 DEF Typed
  <2>3. p.epoch = epoch
    BY <1>1 DEF Dangling
  <2>4. p = TypePtr(n.type)
    BY <2>1, <2>2, <2>3 DEF TypePtr
  <2> QED  BY <2>4
<1>7. ASSUME NEW x \in Range(expr), x.tag \in Calls
      PROVE  Tracked(c, x.f)
  BY <1>2, <1>3, <1>7
<1> QED  BY <1>4, <1>5, <1>6, <1>7 DEF ListsComplete, Tracked, c

\* The lists that codegen_expression_walker hands to
\* pgstrom_codegen_declarations and to the scan are those of the expression:
\* the attributes of the column store are those of the variables, every
\* variable and parameter is referred to and has its type tracked, and each
\* call of a function of the catalogs has its libraries flagged and its
\* declaration, if the catalogs give it one, tracked, although the walker looks
\* it up in a cache that other queries filled and invalidations emptied.  Of
\* the types of calls and the functions of tests for NULL it says nothing.
THEOREM ListsKept == Spec => []ListsComplete
BY GenInit, GenNext, ListsDone, PTL DEF Spec
=============================================================================
