------------------------------- MODULE MCQuery ------------------------------
(***************************************************************************)
(* Instances of IndexedCollection for TLC: two fields next to _id, "n"     *)
(* with numbers and other things, "t" with strings and arrays.             *)
(***************************************************************************)
EXTENDS IndexedCollection

\* Strings 1 and 2 are ids; localeCompare puts string 4 ("B" < "a" by code
\* units) after string 5.
MCCollation == <<1, 2, 3, 5, 4>>

MCFields == {"_id", "n", "t"}

Doc(n, t) == [f \in MCFields |->
    IF f = "n" THEN n ELSE IF f = "t" THEN t ELSE Missing]

MCDocs ==
    {Doc(Number(1), String(4)), Doc(Number(2), ArrayOf(<<Number(1)>>)),
     Doc(Infinity(1), String(4)), Doc(String(5), String(4)), Doc(NaN, String(5))}

Cond(name, operand) == Operators(<<Op(name, operand)>>)

MCQueries == {
    {},
    {On("n", Number(1))},
    {On("n", Cond("$gte", Number(2)))},
    {On("n", Operators(<<Op("$gt", Number(0)), Op("$lt", Infinity(1))>>))},
    {On("n", Operators(<<Op("$gt", Number(0)), Op("$not", Cond("$gt", Number(1)))>>))},
    {On("t", Cond("$not", ObjectOf(<< <<"b", Number(1)>> >>)))},
    {On("n", Cond("$not", ObjectOf(<< >>)))},
    {On("n", Operators(<<Op("$exists", Boolean(TRUE)), Op("$lte", Number(1))>>))},
    {On("n", Operators(<<Op("$in", ArrayOf(<<Number(2), String(4)>>)), Op("$ne", Number(1))>>))},
    {On("n", Cond("$in", ArrayOf(<<Number(2), Null>>))), On("t", Cond("$ne", String(4)))},
    {On("t", Cond("$in", ArrayOf(<<String(4), String(5)>>))), On("n", Cond("$lte", Number(1)))},
    {On("t", Operators(<<Op("$eq", String(4)), Op("$in", ArrayOf(<<String(5)>>))>>))},
    {On("t", Cond("$type", TypeNames({"array", "bool"})))},
    {On("t", Pattern({4}, TRUE)), On("_id", Cond("$in", ArrayOf(<<String(1), Null>>)))},
    {On("_id", String(2)), On("n", Cond("$nin", ArrayOf(<<Number(2)>>)))},
    {Logical("$or", {{On("n", Number(2))}, {On("t", String(4))}}), On("_id", Cond("$gt", String(1)))},
    {Logical("$and", {{On("n", Cond("$gte", Number(1)))}, {On("n", Cond("$lt", Number(2)))}})},
    {Logical("$nor", {{On("n", Number(2)), On("t", String(4))}})},
    {On("n", Cond("$options", Null))},
    {On("n", Cond("$not", Operators(<<Op("$type", TypeNames({}))>>)))} }

MCUpdates == {
    <<Entry("$unset", "n", Null), Entry("$set", "t", String(5))>>,
    <<Entry("$inc", "n", Number(1)), Entry("$min", "n", Number(2))>>,
    <<Entry("$max", "n", Number(2)), Entry("$mul", "n", Number(2))>>,
    <<Entry("$rename", "n", Field("t"))>>,
    <<Entry("$addToSet", "t", Number(2)), Entry("$pull", "t", Cond("$lt", Number(2)))>>,
    <<Entry("$push", "t", Number(2))>>,
    <<Entry("$pop", "t", Number(-1))>>,
    <<Entry("$pullAll", "t", ArrayOf(<<Number(2), Null>>))>>,
    <<Entry("$currentDate", "t", DateSpec("date")), Entry("$currentDate", "n", DateSpec("timestamp"))>>,
    <<Entry("$set", "_id", String(2))>>,
    <<Entry("$rename", "n", Field("_id"))>> }

Def(type, unique) == [type |-> type, unique |-> unique]

MCIndexDefs == [f \in MCFields |->
    CASE f = "n" -> {Def("number", FALSE), Def("number", TRUE)}
      [] f = "t" -> {Def("string", TRUE)}
      [] OTHER   -> {}]

=============================================================================
