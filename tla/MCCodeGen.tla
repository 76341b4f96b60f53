----------------------------- MODULE MCCodeGen -----------------------------
(* Instances of CodeGen for TLC. *)
EXTENDS CodeGen

Const(t, v) == [tag |-> "Const", n |-> 0, type |-> t, coll |-> FALSE,
                val |-> v]
Param(kind, v) == [tag |-> "Param", n |-> 0, type |-> "int4", coll |-> FALSE,
                   kind |-> kind, val |-> v]
Var(a, t) == [tag |-> "Var", n |-> 0, type |-> t, coll |-> FALSE, att |-> a]
Proc(name, args, ret) == [name |-> name, nsp |-> "pg_catalog", args |-> args,
                          ret |-> ret]
Op(f) == [tag |-> "Op", n |-> Len(f.args), type |-> f.ret, coll |-> FALSE,
          f |-> f]
Func(f) == [Op(f) EXCEPT !.tag = "Func"]
Test(tag, op) == [tag |-> tag, n |-> 1, type |-> "bool", coll |-> FALSE,
                  op |-> op, argisrow |-> FALSE]

Int4Eq == Op(Proc("int4eq", <<"int4", "int4">>, "bool"))
Int4Lt == Op(Proc("int4lt", <<"int4", "int4">>, "bool"))
NumericEq == Op(Proc("numeric_eq", <<"numeric", "numeric">>, "bool"))
A == Var(1, "int4")
B == Var(2, "int4")
C == Var(3, "numeric")

\* on the device
Eq(x, y) == <<Int4Eq, x, y>>
OnDevice ==
  {Eq(A, Const("int4", 1)), <<Int4Lt, B, Const("int4", 1)>>, Eq(A, B),
   Eq(B, Param("extern", 0)), <<NumericEq, C, Const("numeric", 1)>>,
   <<Test("NullTest", "is_null"), B>>,
   <<Test("BooleanTest", "bool_is_not_true"), Int4Eq, A, Const("int4", 0)>>}
\* on the host: a BoolExpr, a parameter of a nested loop, a function of
\* another schema, a collation
OnHost ==
  {<<[tag |-> "Bool", n |-> 2, op |-> "or", type |-> "bool", coll |-> FALSE]>>
     \o Eq(A, Const("int4", 0)) \o Eq(B, Const("int4", 1)),
   Eq(B, Param("exec", 1)),
   <<Func([Proc("f", <<"int4">>, "bool") EXCEPT !.nsp = "public"]), A>>,
   <<[Op(Proc("texteq", <<"text", "text">>, "bool")) EXCEPT !.coll = TRUE],
     [Const("text", 1) EXCEPT !.coll = TRUE],
     [Const("text", 0) EXCEPT !.coll = TRUE]>>}
\* a function of the library of dates
OnNeither == {<<Op(Proc("date_eq", <<"date", "date">>, "bool")),
                Const("date", 1), Const("date", 1)>>}

MCClauseLists ==
  {<< >>} \cup {<<c>> : c \in OnDevice \cup OnHost \cup OnNeither}
    \cup {<<c, d>> : c \in OnDevice, d \in OnDevice \cup OnHost}

\* Lists of their own for what the code gets wrong: b < 1 AND a = 1 AND f(a),
\* where f is not one of pg_catalog; b IS NULL AND int4(a) = int4(b), of two
\* smallints, AND c, a column of bools.
RowsLists ==
  {<< <<Int4Lt, B, Const("int4", 1)>>, Eq(A, Const("int4", 1)),
      <<Func([Proc("f", <<"int4">>, "bool") EXCEPT !.nsp = "public"]), A>> >>}
BuildsLists ==
  LET cast(a) == <<Func(Proc("int4", <<"int2">>, "int4")), Var(a, "int2")>>
  IN {<< <<Test("NullTest", "is_null"), Var(2, "int2")>>,
         <<Int4Eq>> \o cast(1) \o cast(2), <<Var(3, "bool")>> >>}
MCRows == [1..3 -> {-1, 0, 1}]
=============================================================================
