------------------------------ MODULE CodeGen ------------------------------
(***************************************************************************)
(* From the qualifiers of a scan to a kernel: the planner splits them into *)
(* device and host clauses (gpuscan_add_scan_path), chooses the path or    *)
(* not, and generates the code of the device clauses (gpuscan_create_plan, *)
(* codegen.c), by way of a cache of device types and functions that an     *)
(* invalidation of the system catalogs may empty whenever the catalogs are *)
(* read.                                                                   *)
(*                                                                         *)
(* An expression is the sequence of its nodes in preorder, each with its   *)
(* number of arguments: the order in which the walker visits them.  The    *)
(* generated code is the sequence of the references and calls emitted.     *)
(***************************************************************************)
EXTENDS Integers, Sequences, FiniteSets, SequencesExt

CONSTANTS
  ClauseLists,  \* baserestrictinfo of the queries
  MaxPlans,     \* bound: queries
  MaxInval,     \* bound: invalidations
  Rows,         \* rows: attribute -> value, to judge plans by
  NULL

VARIABLES
  cache,        \* [types, funcs]: devtype_info_slot, devfunc_info_slot
  epoch,        \* resets of devinfo_memcxt
  clauses,      \* of the query that is planned
  cur, at,      \* the clause and the node in hand
  dev, host,    \* dev_quals, host_quals: indexes of clauses
  expr,         \* the expression that the walker is in
  ctx,          \* codegen_walker_context
  plan,         \* GpuScanPlan
  plans,        \* queries so far
  pc

splitVars == <<clauses, cur, dev, host>>
walkVars == <<expr, ctx>>
vars == <<cache, epoch, splitVars, at, walkVars, plan, plans, pc>>

(***************************************************************************)
(* Catalogs.  Of the functions, one entry for every template and shape of  *)
(* arguments.                                                              *)
(***************************************************************************)
DevTypes ==
  {"bool", "int2", "int4", "int8", "float4", "float8", "date", "time",
   "timestamp", "timestamptz", "bpchar", "varchar", "numeric", "bytea",
   "text"}

Fn(name, args, templ) == [name |-> name, args |-> args, templ |-> templ,
                          devname |-> name]

devfunc_common_catalog ==
  {Fn("int4", <<"int2">>, "c:"), Fn("int4eq", <<"int4", "int4">>, "b:"),
   Fn("int4lt", <<"int4", "int4">>, "b:"),
   Fn("int42eq", <<"int4", "int2">>, "b:"),
   Fn("int4div", <<"int4", "int4">>, "div"), Fn("int4up", <<"int4">>, "l:"),
   Fn("int4abs", <<"int4">>, "f:"), Fn("pi", << >>, "const")}
devfunc_numericlib_catalog ==
  {Fn("numeric_eq", <<"numeric", "numeric">>, "F:"),
   [Fn("int4", <<"numeric">>, "F:") EXCEPT !.devname = "numeric_int4"]}
devfunc_timelib_catalog ==
  {Fn("date_eq", <<"date", "date">>, "b:"),
   [Fn("date", <<"timestamp">>, "F:") EXCEPT !.devname = "timestamp_date"]}
devfunc_textlib_catalog ==
  {Fn("texteq", <<"text", "text">>, "F:")}

\* catalog_array, and the library that the functions of each need
catalog_array ==
  <<[catalog |-> devfunc_common_catalog, flags |-> {}],
    [catalog |-> devfunc_numericlib_catalog, flags |-> {"numericlib"}],
    [catalog |-> devfunc_timelib_catalog, flags |-> {"timelib"}],
    [catalog |-> devfunc_textlib_catalog, flags |-> {"textlib"}]>>

(***************************************************************************)
(* The cache.  A pointer is the epoch of its memory and what it points at; *)
(* it dangles once the epoch is over.  An entry has the epoch of its own   *)
(* memory, and pointers to the types of the function.                      *)
(***************************************************************************)
Dangling(p) == p.epoch # epoch
TypePtr(t) == [epoch |-> epoch, type |-> t]

\* pgstrom_devtype_lookup: a new entry also looks up bool, for the functions
\* that test it for NULL.
devtype_lookup(c, t) ==
  IF t \in c.types THEN c ELSE [c EXCEPT !.types = @ \cup {t, "bool"}]
IsDevType(t) == t \in DevTypes

\* The catalog that has the function, from 1; 0 if none has.
CatalogOf(f) ==
  IF f.nsp # "pg_catalog" THEN 0
  ELSE SelectInSeq(catalog_array,
         LAMBDA k : \E p \in k.catalog : p.name = f.name /\ p.args = f.args)
CatalogEntry(f) ==
  CHOOSE p \in catalog_array[CatalogOf(f)].catalog :
    p.name = f.name /\ p.args = f.args

\* The types of the arguments are looked up at the index of the catalog
\* instead of the argument: beyond the end of the array for a short list.
Overread(f) == CatalogOf(f) > Len(f.args) /\ f.args # << >>

\* The entries that pass for the function: of its slot, by name, and by the
\* number of arguments that the entry got.
Hits(c, f) ==
  {i \in 1..Len(c.funcs) :
     /\ c.funcs[i].slot = <<f.name, f.args>>
     /\ c.funcs[i].nsp = f.nsp
     /\ c.funcs[i].name = f.name
     /\ c.funcs[i].nargs = Len(f.args)}

NegativeEntry(f) ==
  [slot |-> <<f.name, f.args>>, nsp |-> f.nsp, name |-> f.name, nargs |-> 0,
   negative |-> TRUE, flags |-> {}, decl |-> {}, epoch |-> epoch, ptrs |-> {}]

\* The declaration that the template gives: a function of the name in SQL
\* with the arguments of the entry.  "F:" names a function of a library and
\* declares nothing.
SetupDecl(p, args) ==
  IF p.templ = "F:" THEN {} ELSE {[name |-> p.name, args |-> args]}

PositiveEntry(f) ==
  LET p == CatalogEntry(f)
      argtype == f.args[CatalogOf(f)]
      args == [k \in 1..Len(f.args) |-> argtype]
      used == {f.ret} \cup Range(args)
      name == IF p.templ = "F:" THEN p.devname ELSE p.name
  IN [slot |-> <<f.name, f.args>>, nsp |-> f.nsp, name |-> name,
      nargs |-> Len(f.args), negative |-> FALSE,
      flags |-> catalog_array[CatalogOf(f)].flags,
      decl |-> SetupDecl(p, args), epoch |-> epoch,
      ptrs |-> {TypePtr(t) : t \in used}]

\* pgstrom_devfunc_lookup_by_name, on a miss.  After an array was read beyond
\* its end nothing is said of the cache.
InsertFunc(c, f) ==
  LET e == IF CatalogOf(f) = 0 \/ Overread(f) THEN NegativeEntry(f) ELSE PositiveEntry(f)
      types == FoldLeft(devtype_lookup, c,
                        SetToSeq({p.type : p \in e.ptrs})).types
  IN [types |-> types, funcs |-> Append(c.funcs, e)]

\* The cache after pgstrom_devfunc_lookup, the entry it returns, and what may
\* go wrong in it: an array read beyond its end, or an Assert that follows
\* the return type of a negative entry.
devfunc_lookup(c, f) ==
  LET hits == Hits(c, f)
      c2 == IF hits = {} THEN InsertFunc(c, f) ELSE c
      i == IF hits = {} THEN Len(c2.funcs)
           ELSE CHOOSE i \in hits : \A j \in hits : i <= j
  IN [cache |-> c2, entry |-> c2.funcs[i],
      ptr |-> [epoch |-> c2.funcs[i].epoch, i |-> i],
      ok |-> ~c2.funcs[i].negative,
      ub |-> \/ hits = {} /\ Overread(f)
             \/ hits # {} /\ c2.funcs[i].negative]

(***************************************************************************)
(* Planner: gpuscan_add_scan_path and                                      *)
(* pgstrom_codegen_available_expression, one node at a time.               *)
(***************************************************************************)
Leaves == {"Const", "Param", "Var"}
\* A DistinctExpr is taken for the OpExpr that it looks like.
Calls == {"Func", "Op", "Distinct"}
TestNodes == {"NullTest", "BooleanTest"}

\* Clauses as the parser makes them: a test is boolean and has an argument, a
\* call has the type of its function, and that of a function of the catalogs
\* is known, "Assert(entry->func_rettype != NULL)".
ASSUME ClausesAssumption ==
  \A list \in ClauseLists :
    /\ list \in Seq(Range(list))
    /\ \A e \in Range(list) :
         /\ e \in Seq(Range(e)) /\ e # << >>
         /\ \A k \in 1..Len(e) :
              /\ e[k].tag \in Leaves \cup Calls \cup TestNodes \cup {"Bool"}
              /\ e[k].tag \in TestNodes => e[k].type = "bool" /\ k < Len(e)
              /\ e[k].tag \in Calls =>
                   /\ e[k].type = e[k].f.ret
                   /\ CatalogOf(e[k].f) # 0 => IsDevType(e[k].f.ret)

\* A new query with PG-Strom enabled.
PlanQuery ==
  /\ pc = "idle" /\ plans < MaxPlans
  /\ \E cl \in ClauseLists : clauses' = cl
  /\ plans' = plans + 1
  /\ cur' = 1 /\ at' = 1 /\ dev' = << >> /\ host' = << >>
  /\ plan' = NULL
  /\ pc' = "check"
  /\ UNCHANGED <<cache, epoch, walkVars>>

Node == clauses[cur][at]

\* Slip: parameters of nested loops pass.
NodeAvailableAnyParam(n) ==
  \/ n.tag \in Leaves /\ ~n.coll /\ IsDevType(n.type)
  \/ n.tag \in Calls /\ ~n.coll /\ devfunc_lookup(cache, n.f).ok
  \/ n.tag = "NullTest" /\ ~n.argisrow
  \/ n.tag = "BooleanTest"

\* A leaf whose type is looked at: no collation, no parameter of a nested
\* loop.
Runs(n) == ~n.coll /\ (n.tag = "Param" => n.kind = "extern")

\* Does the node, its arguments apart, run on a device?  A BoolExpr does not.
NodeAvailable(n) ==
  \/ n.tag \in Leaves /\ Runs(n) /\ IsDevType(n.type)
  \/ n.tag \in Calls /\ ~n.coll /\ devfunc_lookup(cache, n.f).ok
  \/ n.tag = "NullTest" /\ ~n.argisrow
  \/ n.tag = "BooleanTest"

\* What looking at a node leaves in the cache.
CheckCache(n) ==
  IF n.tag \in Leaves /\ Runs(n) THEN devtype_lookup(cache, n.type)
  ELSE IF n.tag \in Calls /\ ~n.coll THEN devfunc_lookup(cache, n.f).cache
  ELSE cache

\* On to the next node, or the clause goes to one of the lists.
CheckOn(available) ==
  /\ pc' = "check"
  /\ IF ~available
     THEN /\ host' = Append(host, cur)
          /\ cur' = cur + 1 /\ at' = 1 /\ UNCHANGED dev
     ELSE IF at = Len(clauses[cur])
     THEN /\ dev' = Append(dev, cur)
          /\ cur' = cur + 1 /\ at' = 1 /\ UNCHANGED host
     ELSE at' = at + 1 /\ UNCHANGED <<cur, dev, host>>
CheckBroken == pc' = "ub" /\ UNCHANGED <<cur, at, dev, host>>

CheckNode ==
  /\ pc = "check" /\ cur <= Len(clauses)
  /\ cache' = CheckCache(Node)
  /\ IF Node.tag \in Calls /\ ~Node.coll /\ devfunc_lookup(cache, Node.f).ub
     THEN CheckBroken
     ELSE CheckOn(NodeAvailable(Node))
  /\ UNCHANGED <<epoch, clauses, walkVars, plan, plans>>

\* The path is as good as its costs say: the planner takes it or another.
PathRejected ==
  /\ pc = "check" /\ cur > Len(clauses)
  /\ pc' = "idle"
  /\ UNCHANGED <<cache, epoch, splitVars, at, walkVars, plan, plans>>

Attrs(ks) == {n.att : n \in {m \in UNION {Range(clauses[k]) : k \in Range(ks)} :
                               m.tag = "Var"}}

EmptyContext == [types |-> << >>, funcs |-> << >>, params |-> << >>,
                 vars |-> << >>, flags |-> {}, str |-> << >>]

AndNode(n) == [tag |-> "Bool", n |-> n, op |-> "and", coll |-> FALSE]

\* make_andclause, unless there is just one clause
AndClause(ks) ==
  LET body == FlattenSeq([i \in 1..Len(ks) |-> clauses[ks[i]]])
  IN IF Len(ks) = 1 THEN body ELSE <<AndNode(Len(ks))>> \o body

\* gpuscan_create_plan: order_qual_clauses sorts the clauses by cost; without
\* device clauses there is no source.
CreatePlan ==
  /\ pc = "check" /\ cur > Len(clauses)
  /\ ctx' = EmptyContext /\ at' = 1
  /\ IF dev = << >>
     THEN /\ plan' = [source |-> NULL, ctx |-> EmptyContext, atts |-> {},
                      host |-> host]
          /\ pc' = "planned" /\ expr' = << >>
     ELSE /\ \E p \in Bijection(Range(dev), Range(dev)) :
               expr' = AndClause([i \in 1..Len(dev) |-> p[dev[i]]])
          /\ pc' = "walk" /\ UNCHANGED plan
  /\ UNCHANGED <<cache, epoch, splitVars, plans>>

(***************************************************************************)
(* codegen_expression_walker, one node at a time.                          *)
(***************************************************************************)
\* list_append_unique_ptr
AppendUnique(list, x) == IF x \in Range(list) THEN list ELSE Append(list, x)
IndexOf(list, x) == CHOOSE i \in 1..Len(list) : list[i] = x

KParam(i) == [k |-> "param", i |-> i, n |-> 0]
KVar(i) == [k |-> "var", i |-> i, n |-> 0]
Call(name, n) == [k |-> "call", name |-> name, n |-> n]

\* Slip: constants of one type share an entry.
EmitLeafByType(c, n) ==
  LET ps == IF \E p \in Range(c.params) : p.type = n.type THEN c.params
            ELSE Append(c.params, n)
      vs == AppendUnique(c.vars, n)
      i == CHOOSE i \in 1..Len(ps) : ps[i].type = n.type
      d == [c EXCEPT !.types = AppendUnique(@, TypePtr(n.type))]
  IN IF n.tag = "Var"
     THEN [d EXCEPT !.vars = vs, !.str = Append(@, KVar(IndexOf(vs, n)))]
     ELSE [d EXCEPT !.params = ps, !.str = Append(@, KParam(i))]

\* A constant, parameter or variable: the type is tracked, and the node is
\* numbered by its place in the list of those in use.
EmitLeaf(c, n) ==
  LET ps == AppendUnique(c.params, n)
      vs == AppendUnique(c.vars, n)
      d == [c EXCEPT !.types = AppendUnique(@, TypePtr(n.type))]
  IN IF n.tag = "Var"
     THEN [d EXCEPT !.vars = vs, !.str = Append(@, KVar(IndexOf(vs, n)))]
     ELSE [d EXCEPT !.params = ps, !.str = Append(@, KParam(IndexOf(ps, n)))]

\* Slip: the libraries that the function needs are not noted.
EmitCallNoFlags(c, n, l) ==
  [c EXCEPT !.funcs = AppendUnique(@, [ptr |-> l.ptr, decl |-> l.entry.decl]),
            !.str = Append(@, Call(l.entry.name, n.n))]
\* A call of a function of the catalogs: it is tracked, with its libraries.
EmitCall(c, n, l) ==
  [c EXCEPT !.funcs = AppendUnique(@, [ptr |-> l.ptr, decl |-> l.entry.decl]),
            !.flags = @ \cup l.entry.flags,
            !.str = Append(@, Call(l.entry.name, n.n))]

\* NullTest, BooleanTest and BoolExpr call functions that are built in, or
\* made on the spot: AND and OR are tracked, the others are not.
BuiltinName(n) ==
  CASE n.tag = "NullTest" -> n.op
    [] n.tag = "BooleanTest" -> n.op
    [] n.tag = "Bool" -> "boolop_" \o n.op
EmitBuiltin(c, n) ==
  LET made == [ptr |-> [epoch |-> epoch, i |-> 0],
               decl |-> {[name |-> BuiltinName(n),
                          args |-> [k \in 1..n.n |-> "bool"]]}]
      d == [c EXCEPT !.str = Append(@, Call(BuiltinName(n), n.n))]
  IN IF n.tag = "Bool" /\ n.op # "not"
     THEN [d EXCEPT !.funcs = Append(@, made)] ELSE d

\* The walk ends with the last node; the caller asserts that it did not fail.
Advance == IF at = Len(expr) THEN pc' = "declare" /\ UNCHANGED at
           ELSE pc' = "walk" /\ at' = at + 1
WalkFails == pc' = "assert" /\ UNCHANGED <<at, ctx>>
WalkBroken == pc' = "ub" /\ UNCHANGED <<at, ctx>>

WalkLeaf ==
  /\ pc = "walk" /\ expr[at].tag \in Leaves
  /\ LET n == expr[at]
     IN /\ cache' = IF Runs(n) THEN devtype_lookup(cache, n.type) ELSE cache
        /\ IF Runs(n) /\ IsDevType(n.type)
           THEN ctx' = EmitLeaf(ctx, n) /\ Advance
           ELSE WalkFails
  /\ UNCHANGED <<epoch, splitVars, expr, plan, plans>>

\* For a FuncExpr a collation trips an Assert and a function that is not
\* found is followed all the same.
WalkCall ==
  /\ pc = "walk" /\ expr[at].tag \in Calls
  /\ LET n == expr[at]
         l == devfunc_lookup(cache, n.f)
     IN IF n.coll THEN WalkFails /\ UNCHANGED cache
        ELSE /\ cache' = l.cache
             /\ IF l.ub \/ (n.tag = "Func" /\ ~l.ok)
                THEN WalkBroken
                ELSE IF l.ok THEN ctx' = EmitCall(ctx, n, l) /\ Advance
                ELSE WalkFails
  /\ UNCHANGED <<epoch, splitVars, expr, plan, plans>>

WalkBuiltin ==
  /\ pc = "walk" /\ expr[at].tag \in TestNodes \cup {"Bool"}
  /\ LET n == expr[at]
         argtype == expr[at + 1].type
     IN /\ cache' = IF n.tag = "NullTest" /\ ~n.argisrow
                    THEN devtype_lookup(cache, argtype)
                    ELSE IF n.tag = "Bool" /\ n.op # "not"
                    THEN devtype_lookup(cache, "bool") ELSE cache
        /\ IF n.tag = "NullTest" /\ (n.argisrow \/ ~IsDevType(argtype))
           THEN WalkFails
           ELSE ctx' = EmitBuiltin(ctx, n) /\ Advance
  /\ UNCHANGED <<epoch, splitVars, expr, plan, plans>>

\* pgstrom_codegen_declarations follows the pointers that were tracked.
Declare ==
  /\ pc = "declare"
  /\ IF \/ \E p \in Range(ctx.types) : Dangling(p)
        \/ \E f \in Range(ctx.funcs) : f.ptr.i # 0 /\ Dangling(f.ptr)
     THEN pc' = "ub" /\ UNCHANGED plan
     ELSE /\ plan' = [source |-> ctx.str, ctx |-> ctx, atts |-> Attrs(dev),
                      host |-> host]
          /\ pc' = "planned"
  /\ UNCHANGED <<cache, epoch, splitVars, at, walkVars, plans>>

(***************************************************************************)
(* The plan: copied into a plan cache, and begun.                          *)
(***************************************************************************)
NoSource == << >>

\* gpuscan_copy_plan does not copy kern_source: the copy has what palloc
\* returned.
CopyPlan ==
  /\ pc = "planned"
  /\ plan' = [plan EXCEPT !.source = NoSource]
  /\ UNCHANGED <<cache, epoch, splitVars, at, walkVars, plans, pc>>

\* gpuscan_begin; a scan without a program follows its key, 0, at the first
\* chunk.
BeginPlan ==
  /\ pc = "planned"
  /\ pc' = IF plan.source \in {NULL, NoSource} THEN "ub" ELSE "idle"
  /\ UNCHANGED <<cache, epoch, splitVars, at, walkVars, plan, plans>>

(***************************************************************************)
(* codegen_cache_invalidator.                                              *)
(***************************************************************************)
\* Slip: the slots of functions are not cleared.
InvalidateTypes ==
  /\ pc \in {"idle", "check", "walk"} /\ epoch < MaxInval
  /\ epoch' = epoch + 1
  /\ cache' = [cache EXCEPT !.types = {}]
  /\ UNCHANGED <<splitVars, at, walkVars, plan, plans, pc>>

\* Between two lookups.
Invalidate ==
  /\ pc \in {"idle", "check", "walk"} /\ epoch < MaxInval
  /\ epoch' = epoch + 1
  /\ cache' = [types |-> {}, funcs |-> << >>]
  /\ UNCHANGED <<splitVars, at, walkVars, plan, plans, pc>>

\* The types that the lookup for a node goes through, in order; none if the
\* node needs no lookup or is found.
LookedUp(n) ==
  IF n.coll THEN << >>
  ELSE IF n.tag \in Leaves THEN (IF Runs(n) THEN <<n.type>> ELSE << >>)
  ELSE IF n.tag \in Calls
  THEN IF Hits(cache, n.f) # {} \/ CatalogOf(n.f) = 0 \/ Overread(n.f) THEN << >>
       ELSE IF n.f.args = << >> THEN <<n.f.ret>>
       ELSE <<n.f.ret, n.f.args[CatalogOf(n.f)]>>
  ELSE << >>

\* The types that are looked up after the system catalogs were read while the
\* entry of the node was being made: from the first for a function, from the
\* second on where the lookup of the first reads bool, or that of the second
\* the second.
From(s, call) ==
  {i \in 1..2 :
     \/ i = 1 /\ call /\ s # << >> /\ s[1] \notin cache.types
     \/ i = 2 /\ s # << >> /\ s[1] # "bool" /\ "bool" \notin cache.types
     \/ i = 2 /\ Len(s) = 2 /\ s[2] \notin cache.types \cup {s[1], "bool"}}

\* What an invalidation at that moment leaves: the entry is freed and the
\* lookup goes on.  A type is off the list by then; a function gets its place
\* in the list only now.
Struck(n, s) ==
  {[types |-> {"bool"} \cup {s[k] : k \in i..Len(s)},
    funcs |-> IF n.tag \in Calls THEN <<PositiveEntry(n.f)>> ELSE << >>] :
     i \in From(s, n.tag \in Calls)}

\* What was freed is written to and read: anything may come of it.
InvalidateInCheck ==
  /\ pc = "check" /\ cur <= Len(clauses) /\ epoch < MaxInval
  /\ epoch' = epoch + 1
  /\ cache' \in Struck(Node, LookedUp(Node))
  /\ CheckOn(NodeAvailable(Node)) \/ CheckBroken
  /\ UNCHANGED <<clauses, walkVars, plan, plans>>

\* A leaf or a function is tracked with its freed entry; of a NullTest only
\* the name of the function is read.
InvalidateInWalk ==
  /\ pc = "walk" /\ epoch < MaxInval
  /\ epoch' = epoch + 1
  /\ LET n == expr[at]
         null == n.tag = "NullTest" /\ ~n.argisrow
         type == IF null THEN expr[at + 1].type ELSE n.type
     IN /\ cache' \in Struck(n, IF null THEN <<type>> ELSE LookedUp(n))
        /\ \/ WalkBroken
           \/ IF n.tag \notin Calls /\ ~IsDevType(type) THEN WalkFails
              ELSE /\ ctx' = IF n.tag \in Leaves THEN EmitLeaf(ctx, n)
                             ELSE IF n.tag \in Calls
                             THEN EmitCall(ctx, n, devfunc_lookup(cache, n.f))
                             ELSE EmitBuiltin(ctx, n)
                   /\ Advance
  /\ UNCHANGED <<splitVars, expr, plan, plans>>

\* A function that is found in the cache with an entry that was freed: its
\* memory may have been used again.
FollowFreed ==
  /\ \/ pc = "check" /\ cur <= Len(clauses)
     \/ pc = "walk"
  /\ LET n == IF pc = "check" THEN Node ELSE expr[at]
     IN /\ n.tag \in Calls /\ ~n.coll
        /\ \E i \in Hits(cache, n.f) : Dangling(cache.funcs[i])
  /\ pc' = "ub"
  /\ UNCHANGED <<cache, epoch, splitVars, at, walkVars, plan, plans>>

Stopped ==
  /\ pc \in {"ub", "assert"} \/ (pc = "idle" /\ plans = MaxPlans)
  /\ UNCHANGED vars

Init ==
  /\ cache = [types |-> {}, funcs |-> << >>] /\ epoch = 0
  /\ clauses = << >> /\ cur = 1 /\ at = 1 /\ dev = << >> /\ host = << >>
  /\ expr = << >> /\ ctx = EmptyContext
  /\ plan = NULL /\ plans = 0 /\ pc = "idle"

Next ==
  \/ PlanQuery \/ CheckNode \/ PathRejected \/ CreatePlan
  \/ WalkLeaf \/ WalkCall \/ WalkBuiltin \/ Declare
  \/ CopyPlan \/ BeginPlan \/ Invalidate
  \/ InvalidateInCheck \/ InvalidateInWalk \/ FollowFreed \/ Stopped

Spec == Init /\ [][Next]_vars

(***************************************************************************)
(* Values of expressions: 0 and 1, also for false and true, and Null.      *)
(***************************************************************************)
Null == -1
Bool(b) == IF b THEN 1 ELSE 0

\* A function of SQL; all of them are strict.
Apply(name, a) ==
  IF Null \in Range(a) THEN Null
  ELSE CASE name \in {"int4eq", "int42eq", "numeric_eq"} -> Bool(a[1] = a[2])
         [] name = "int4lt" -> Bool(a[1] < a[2])
         [] OTHER -> a[1]

\* pgfn_bool_is_*, and the functions that test for NULL
ApplyTest(name, v) ==
  CASE name = "is_null" -> Bool(v = Null)
    [] name = "is_not_null" -> Bool(v # Null)
    [] name = "bool_is_true" -> Bool(v = 1)
    [] name = "bool_is_not_true" -> Bool(v # 1)
    [] name = "bool_is_false" -> Bool(v = 0)
    [] name = "bool_is_not_false" -> Bool(v # 0)
    [] name = "bool_is_unknown" -> Bool(v = Null)
    [] name = "bool_is_not_unknown" -> Bool(v # Null)
Tests == {"is_null", "is_not_null", "bool_is_true", "bool_is_not_true",
          "bool_is_false", "bool_is_not_false", "bool_is_unknown",
          "bool_is_not_unknown"}

\* The value of a preorder sequence, from its last element to its first.
Evaluate(seq, leaf(_), call(_, _)) ==
  LET step(x, stack) ==
        IF x.n = 0 /\ leaf(x) # << >> THEN leaf(x) \o stack
        ELSE <<call(x, SubSeq(stack, 1, x.n))>>
               \o SubSeq(stack, x.n + 1, Len(stack))
  IN FoldRight(step, seq, << >>)[1]

\* What SQL says of a clause in a row.
SqlValue(e, row) ==
  LET leaf(n) == IF n.tag = "Var" THEN <<row[n.att]>>
                 ELSE IF n.tag \in Leaves THEN <<n.val>> ELSE << >>
      call(n, a) ==
        IF n.tag = "Distinct" THEN Bool(a[1] # a[2])
        ELSE IF n.tag \in Calls THEN Apply(n.f.name, a)
        ELSE IF n.tag # "Bool" THEN ApplyTest(n.op, a[1])
        ELSE IF n.op = "not" THEN (IF a[1] = Null THEN Null ELSE 1 - a[1])
        ELSE LET strong == IF n.op = "and" THEN 0 ELSE 1
             IN IF strong \in Range(a) THEN strong
                ELSE IF Null \in Range(a) THEN Null ELSE 1 - strong
  IN Evaluate(e, leaf, call)

\* The function that is generated: NULL if any argument is, and otherwise
\* the operator or function of OpenCL for the one of SQL.
DeviceApply(name, a) ==
  IF \E k \in 1..Len(a) : a[k] = Null THEN Null
  ELSE CASE name \in {"int4eq", "int42eq", "numeric_eq"} -> Bool(a[1] = a[2])
         [] name = "int4lt" -> Bool(a[1] < a[2])
         [] OTHER -> a[1]

\* devfunc_setup_boolop: NULL if any argument is, and a bitwise operation.
DeviceBoolop(name, a) ==
  IF Null \in Range(a) THEN Null
  ELSE IF name = "boolop_not" THEN 1 - a[1]
  ELSE IF name = "boolop_and" THEN Bool(0 \notin Range(a))
  ELSE Bool(1 \in Range(a))

\* The i-th column of the column store: those that device clauses refer to,
\* in the order of the relation.
StoreColumn(p, i) == SetToSortSeq(p.atts, <)[i]

\* What the kernel computes for a row.
KernelValue(p, row) ==
  LET leaf(x) == IF x.k = "param" THEN <<p.ctx.params[x.i].val>>
                 ELSE IF x.k = "var" THEN <<row[StoreColumn(p, x.i)]>>
                 ELSE << >>
      call(x, a) == IF x.name \in Tests THEN ApplyTest(x.name, a[1])
                    ELSE IF x.name \in {"boolop_and", "boolop_or", "boolop_not"}
                    THEN DeviceBoolop(x.name, a)
                    ELSE DeviceApply(x.name, a)
  IN Evaluate(p.source, leaf, call)

(***************************************************************************)
(* Properties.                                                             *)
(***************************************************************************)
Planned == pc = "planned" /\ plan.source \notin {NULL, NoSource}

\* "Assert(expr_code != NULL)": what the quick check let pass the walker
\* translates, whatever happened to the cache in between.
WalkSucceeds == pc # "assert"

\* The variables of a plan stand in the order of the relation, as the columns
\* of the column store do.
InColumnOrder(p) ==
  \A i \in 1..Len(p.ctx.vars) : p.ctx.vars[i].att = StoreColumn(p, i)

\* "Put declarations of device types, functions and macro definitions": every
\* function that the kernel calls, with the types it is called with.  Those of
\* a BooleanTest are in opencl_common.h, those of a NullTest and of the
\* libraries nowhere.
FunctionsDeclared ==
  Planned =>
    LET decl == UNION {f.decl : f \in Range(plan.ctx.funcs)}
    IN \A n \in Range(expr) :
         \/ n.tag \in Leaves \cup {"BooleanTest"}
         \/ n.tag \in Calls /\ [name |-> n.f.name, args |-> n.f.args] \in decl
         \/ n.tag = "Bool" /\ \E d \in decl : d.name = BuiltinName(n)

\* "Put declarations of device types": every type that the kernel uses, for a
\* value or in the declaration of a function.  The name of the macro for the
\* types of variable length is not that of opencl_common.h.
VarlenaTypes == {"bpchar", "varchar", "numeric", "bytea", "text"}
TypesDeclared ==
  Planned =>
    LET used(n) == IF n.tag \in Leaves THEN {n.type}
                   ELSE IF n.tag \in Calls THEN {n.f.ret} \cup Range(n.f.args)
                   ELSE {}
    IN UNION {used(n) : n \in Range(expr)}
         \subseteq ({p.type : p \in Range(plan.ctx.types)} \ VarlenaTypes)
                     \cup {"bool"}

\* "true, if no need to redefine": bool is defined in opencl_common.h, and not
\* once more by the kernel.
TypesOnce == Planned => \A p \in Range(plan.ctx.types) : p.type # "bool"

\* The source is one that the compiler takes.
Builds == Planned /\ FunctionsDeclared /\ TypesDeclared /\ TypesOnce

\* Every kernel that is generated is one that the compiler takes.
KernelBuilds == Planned => Builds

\* What gpuscan_exec gives of the rows: those that the kernel selects, without
\* a look at ps.qual.
Returned(p, row) == KernelValue(p, row) = 1

\* A kernel that builds selects the rows for which SQL says that the clauses
\* are true that were not left to the host: no clause is lost in the split,
\* and the numbers of parameters and variables lead back to what they stand
\* for.
RowsExact ==
  Builds /\ InColumnOrder(plan) =>
    \A row \in Rows :
      Returned(plan, row) <=>
        \A k \in (1..Len(clauses)) \ Range(plan.host) :
          SqlValue(clauses[k], row) = 1

\* "clauses to be run on device", "RestrictInfo run on host": the rows that come
\* back of a kernel that builds are those for which every clause of the query
\* is true.
QueryRows ==
  Builds =>
    \A row \in Rows :
      Returned(plan, row) <=>
        \A k \in 1..Len(clauses) : SqlValue(clauses[k], row) = 1

\* The lists that the walker hands over are complete and without excess: the
\* column store that the scan will build has the attributes of the variables
\* and no others, every variable and parameter of the lists is referred to
\* and has its type tracked, and a function of the catalogs has its libraries
\* flagged and its declaration, if it has one, tracked.
ListsComplete ==
  Planned =>
    LET c == plan.ctx
        calls == {n.f : n \in {m \in Range(expr) : m.tag \in Calls}}
    IN /\ plan.atts = {v.att : v \in Range(c.vars)}
       /\ \A i \in 1..Len(c.vars) : KVar(i) \in Range(plan.source)
       /\ \A i \in 1..Len(c.params) : KParam(i) \in Range(plan.source)
       /\ \A n \in Range(c.vars) \cup Range(c.params) :
            TypePtr(n.type) \in Range(c.types)
       /\ \A f \in calls :
            /\ catalog_array[CatalogOf(f)].flags \subseteq c.flags
            /\ CatalogEntry(f).templ # "F:" =>
                 \E d \in Range(c.funcs) : \E x \in d.decl : x.name = f.name

Live(e) == ~Dangling(e) /\ \A p \in e.ptrs : ~Dangling(p)

\* A lookup follows the entry that it finds and its pointers ("Assert(entry->
\* func_rettype->type_oid == func_rettype)").  At most one entry of the slots
\* was freed, the one that the last invalidation found half made; it stands
\* first.
FreedAtMostOne ==
  \A i \in 1..Len(cache.funcs) :
    \/ Live(cache.funcs[i])
    \/ i = 1 /\ cache.funcs[i].epoch = epoch - 1
=============================================================================
