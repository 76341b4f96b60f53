----------------------------- MODULE MCRowStore -----------------------------
(* Instances of RowStore for TLC. *)
EXTENDS RowStore

Col(len, align, notnull, ref) ==
  [attlen |-> len, attalign |-> align, notnull |-> notnull,
   referenced |-> ref]
Tuple(natts, nulls, varsize, short) ==
  [natts |-> natts, nulls |-> nulls, varsize |-> varsize, short |-> short]

\* a column that is not referenced, a short one that is never null, a
\* variable one and a long one
MCCols == <<Col(2, 2, TRUE, FALSE), Col(1, 1, TRUE, TRUE),
            Col(-1, 4, FALSE, TRUE), Col(8, 8, FALSE, TRUE)>>

\* the last one was formed before the last column was added
Plain == Tuple(4, {}, 7, FALSE)
Short == Tuple(4, {}, 3, TRUE)
NoVar == Tuple(4, {3}, 0, FALSE)
OldNoVar == Tuple(3, {3}, 0, FALSE)
MCTupleKinds == {Plain, Short, NoVar, OldNoVar}
\* Chunks of more rows than a word of the null map has, that end with tuples of
\* every kind: relations of less than a chunk, of about one, and of two and
\* three.
Pattern == <<Plain, NoVar, Short, Short, OldNoVar, Plain, NoVar>>
Relation(m, n, len) == [i \in 1..len |-> Pattern[((m * i + i \div n) % 7) + 1]]
MCRelations ==
  {Relation(m, n, len) :
     m \in 1..3, n \in {5, 9}, len \in {1, 2, 33} \cup 40..43 \cup 82..85}

\* for what the code gets wrong: the second tuple was formed before the last
\* column was added, and the ninth has a null value
Old == Tuple(3, {}, 7, FALSE)
BugTupleKinds == {Plain, Old, NoVar}
BugRelations == {<<Plain, Old, Plain, Plain, Plain, Plain, Plain, Plain, NoVar>>}

Const(v) == [kind |-> "const", isnull |-> FALSE, len |-> 5, val |-> v]
Param(v) == [kind |-> "param", isnull |-> FALSE, len |-> 9, val |-> v]
NullOf(k) == [kind |-> k, isnull |-> TRUE, len |-> 0, val |-> NULL]
WithParam == <<Const(<<1>>), Param(<<2>>), Const(<<3>>)>>
BugParamLists == {WithParam}
MCParamLists ==
  {WithParam,
   <<NullOf("param"), NullOf("absent"), Const(<<1>>), NullOf("const")>>,
   <<NullOf("unset"), Const(<<1>>)>>}

\* a device with room, one where the kernel leaves little local memory, one
\* where it leaves too little for a unit, and one where it takes too much
MCDevices ==
  {[maxsize |-> 100, unit |-> 32, localmem |-> 4096, usage |-> 100],
   [maxsize |-> 256, unit |-> 48, localmem |-> 2048, usage |-> 500],
   [maxsize |-> 256, unit |-> 0, localmem |-> 1024, usage |-> 800],
   [maxsize |-> 256, unit |-> 32, localmem |-> 1024, usage |-> 1500]}
MCThreads == {1, 31, 32, 33, 64, 96, 97, 100, 128, 200, 256, 300}

\* of all tuples here, as the theorem about StoresFit wants them
ASSUME ShortAssumption == TuplesShort
=============================================================================
