---------------------------- MODULE PropertyValues -----------------------------
(****************************************************************************)
(* What becomes of one property value between the column that is written    *)
(* and the call that returns it: the conversions of types.cc, those of the  *)
(* chunk readers, and property of Vertex, Edge, VertexIter and EdgeIter     *)
(* (high-level/graph_reader).  Columns in Parquet and ORC files; Arrow infers the types *)
(* of a CSV file from its text.                                             *)
(*                                                                          *)
(* A value is Null or whatever the client gave.  A type is a tuple: its     *)
(* name, or "list" and the name of the elements.                            *)
(****************************************************************************)
EXTENDS Integers, Sequences, TLAPS

CONSTANTS NullValue,   \* no value
          Empty        \* the empty string or list

Numbers == {<<"int32">>, <<"int64">>, <<"float">>, <<"double">>}
Scalars == Numbers \cup {<<"bool">>, <<"string">>, <<"date">>, <<"timestamp">>}
NumberLists == {<<"list">> \o t : t \in Numbers}
IsList(t) == t[1] = "list"

------------------------------------------------------------------------------
(* Types.                                                                   *)

ArrowScalar(name) ==
    CASE name = "string"    -> "large_utf8"
      [] name = "date"      -> "date32"
      [] name = "timestamp" -> "timestamp_ms"
      [] OTHER              -> name

DataTypeToArrowDataType(t) == [t EXCEPT ![Len(t)] = ArrowScalar(@)]

DataTypeOfScalar(name) ==
    CASE name \in {"utf8", "large_utf8"}                       -> "string"
      [] name = "date32"                                       -> "date"
      [] name \in {"date64", "timestamp_ms", "timestamp_ns"}   -> "timestamp"
      [] OTHER                                                 -> name

ArrowDataTypeToDataType(t) == [t EXCEPT ![Len(t)] = DataTypeOfScalar(@)]

\* Of a C type that a caller asks for: what an std::any holds for it.  A date is held as
\* the days, a timestamp as the milliseconds.
Representation(t) ==
    CASE t = <<"date">>      -> <<"int32">>
      [] t = <<"timestamp">> -> <<"int64">>
      [] OTHER               -> t

------------------------------------------------------------------------------
(* Columns: one row of one, its Arrow type and its value.                   *)

Column(type, value) == [type |-> type, value |-> value]

\* The file formats have one type of strings; ORC counts time in nanoseconds.
Stored(column, file_type) ==
    [column EXCEPT
        !.type[Len(column.type)] =
            CASE @ = "large_utf8"                         -> "utf8"
              [] @ = "timestamp_ms" /\ file_type = "orc"  -> "timestamp_ns"
              [] OTHER                                    -> @]

\* ReadFileToTable: strings, not those in lists.
LargeStrings(column) ==
    IF column.type = <<"utf8">> THEN [column EXCEPT !.type = <<"large_utf8">>] ELSE column

\* Arrow casts between any two of the types that one property can have been stored as.
CastTableWithSchema(column, schema) ==
    IF column.type = schema THEN column ELSE [column EXCEPT !.type = schema]

\* What the chunk reader delivers of a value that was written to a property of type t.
ReadColumn(t, value, file_type) ==
    LET arrow == DataTypeToArrowDataType(t)
    IN  CastTableWithSchema(LargeStrings(Stored(Column(arrow, value), file_type)), arrow)

------------------------------------------------------------------------------
(* Vertex.  An absent scalar is an std::any without a value, but a string   *)
(* is taken from the column without asking whether it is there.             *)

Returned(value) == [status |-> "OK", value |-> value]
Refused(status) == [status |-> status, value |-> NullValue]

TryToCastToAny(t, value) ==
    IF t = <<"string">> /\ value = NullValue
      THEN [holds |-> t, value |-> Empty]
      ELSE [holds |-> IF value = NullValue THEN <<"none">> ELSE Representation(t), value |-> value]

\* The constructor: lists go to one map, all others to another.  The row of a list that
\* is absent is an empty slice.
Member(column) ==
    IF IsList(column.type)
      THEN [holds |-> column.type, value |-> IF column.value = NullValue THEN Empty ELSE column.value]
      ELSE TryToCastToAny(ArrowDataTypeToDataType(column.type), column.value)

\* A list is cast to the array class of the C type without a look at the result, and the
\* class for strings is the one with the short offsets.
ListProperty(member, c) ==
    IF ~IsList(member.holds) THEN Refused("KeyError")
    ELSE IF member.holds # (IF c = <<"list", "string">> THEN <<"list", "utf8">> ELSE c)
      THEN Refused("Abort")
    ELSE Returned(member.value)

\* Vertex::property, and Edge::property, which is the same code again.
Property(member, c) ==
    IF IsList(c) THEN ListProperty(member, c)
    ELSE IF IsList(member.holds) THEN Refused("KeyError")
    ELSE IF member.holds # Representation(c) THEN Refused("TypeError")
    ELSE Returned(member.value)

EdgeProperty(member, c) == Property(member, c)

IsValid(member) == member.holds # <<"none">>

------------------------------------------------------------------------------
(* VertexIter and EdgeIter take the value out of the memory of the column.  *)

\* GetArrowArrayData: a pointer to the values, to the array itself, or none.
DataOf(column) ==
    CASE column.type \in Numbers                              -> "values"
      [] column.type \in {<<"large_utf8">>, <<"bool">>}       -> "array"
      [] column.type = <<"list", "int32">>                    -> "null"
      [] OTHER                                                -> "TypeError"

\* ValueGetter reads what the C type says, whatever is there: "undefined" is any value or
\* the end of the process.
ValueOf(column, c) ==
    CASE DataOf(column) = "values" /\ c = column.type /\ column.value # NullValue ->
            Returned(column.value)
      [] column.type = <<"large_utf8">> /\ c = <<"string">> ->
            Returned(IF column.value = NullValue THEN Empty ELSE column.value)
      [] OTHER -> Refused("undefined")

IterProperty(column, c) ==
    IF DataOf(column) = "TypeError" THEN Refused("TypeError") ELSE ValueOf(column, c)

------------------------------------------------------------------------------
(* What a caller may rely on.                                               *)

\* What a property of type t that was given a value is to callers who know its type.
Kept(t, given) ==
    IF given # NullValue THEN given ELSE IF t = <<"string">> \/ IsList(t) THEN Empty ELSE NullValue

\* property with the C type of the property gives the value, an absent number, bool, date
\* or timestamp is refused, and so is every other C type that is not held in the same way;
\* IsValid tells the two apart.
Gives(Got(_, _), t, column, given) ==
    LET member == Member(column)
        kept   == Kept(t, given)
    IN  /\ IsValid(member) = (kept # NullValue)
        /\ Got(member, t) = IF kept = NullValue THEN Refused("TypeError") ELSE Returned(kept)
        /\ \A c \in Scalars :
              Got(member, c).status = "OK" => Representation(c) = Representation(t)

VertexGives(t, column, given) == Gives(Property, t, column, given)
EdgeGives(t, column, given) == Gives(EdgeProperty, t, column, given)

\* property of an iterator gives the same, where it gives a value at all: a number that is
\* there, or a string.
IterGives(t, column, given) ==
    /\ t \in Numbers /\ given # NullValue => IterProperty(column, t) = Returned(given)
    /\ t = <<"string">> => IterProperty(column, t) = Returned(Kept(t, given))
    /\ IterProperty(column, t).status = "OK" => IterProperty(column, t) = Property(Member(column), t)

------------------------------------------------------------------------------
(* What is written is what a caller gets, for every value.                  *)

Types == Scalars \cup NumberLists

\* The lists of numbers, one by one.
LEMMA ListTypes ==
    NumberLists = {<<"list", "int32">>, <<"list", "int64">>, <<"list", "float">>, <<"list", "double">>}
BY DEF NumberLists, Numbers

\* No scalar is a list.
LEMMA ScalarOrList ==
    /\ \A t \in Scalars : ~IsList(t) /\ t # <<"none">>
    /\ \A t \in NumberLists : IsList(t)
    /\ ~IsList(<<"none">>)
BY ListTypes DEF Scalars, Numbers, IsList

\* The Arrow type of a property leads back to the type of the property.
LEMMA ArrowTypes ==
    /\ DataTypeToArrowDataType(<<"string">>) = <<"large_utf8">>
    /\ DataTypeToArrowDataType(<<"date">>) = <<"date32">>
    /\ DataTypeToArrowDataType(<<"timestamp">>) = <<"timestamp_ms">>
    /\ \A t \in Numbers \cup NumberLists \cup {<<"bool">>} : DataTypeToArrowDataType(t) = t
    /\ \A t \in Scalars :
          /\ ~IsList(DataTypeToArrowDataType(t))
          /\ ArrowDataTypeToDataType(DataTypeToArrowDataType(t)) = t
<1>1. /\ \A name : Len(<<name>>) = 1 /\ \A n : [<<name>> EXCEPT ![1] = n] = <<n>>
      /\ \A a, b : Len(<<a, b>>) = 2 /\ \A n : [<<a, b>> EXCEPT ![2] = n] = <<a, n>>
  OBVIOUS
<1>2. /\ DataTypeToArrowDataType(<<"string">>) = <<"large_utf8">>
      /\ DataTypeToArrowDataType(<<"date">>) = <<"date32">>
      /\ DataTypeToArrowDataType(<<"timestamp">>) = <<"timestamp_ms">>
  BY DEF DataTypeToArrowDataType, ArrowScalar
<1>3. \A t \in Numbers \cup {<<"bool">>} : DataTypeToArrowDataType(t) = t
  BY DEF DataTypeToArrowDataType, ArrowScalar, Numbers
<1>4. \A t \in NumberLists : DataTypeToArrowDataType(t) = t
  BY ListTypes DEF DataTypeToArrowDataType, ArrowScalar
<1>5. /\ ArrowDataTypeToDataType(<<"large_utf8">>) = <<"string">>
      /\ ArrowDataTypeToDataType(<<"date32">>) = <<"date">>
      /\ ArrowDataTypeToDataType(<<"timestamp_ms">>) = <<"timestamp">>
      /\ \A t \in Numbers \cup {<<"bool">>} : ArrowDataTypeToDataType(t) = t
  BY DEF ArrowDataTypeToDataType, DataTypeOfScalar, Numbers
<1>6. /\ ~IsList(<<"large_utf8">>) /\ ~IsList(<<"date32">>) /\ ~IsList(<<"timestamp_ms">>)
      /\ \A t \in Numbers \cup {<<"bool">>} : ~IsList(t)
  BY DEF IsList, Numbers
<1>. QED BY <1>2, <1>3, <1>4, <1>5, <1>6 DEF Scalars

\* Whatever the file formats make of the type of a column, the reader makes it again the
\* type of the property, and the value stays.
LEMMA ReadBack ==
    ASSUME NEW t, NEW value, NEW file_type
    PROVE  ReadColumn(t, value, file_type) = Column(DataTypeToArrowDataType(t), value)
<1>. DEFINE arrow == DataTypeToArrowDataType(t)
            column == Column(arrow, value)
            stored == Stored(column, file_type)
            large == LargeStrings(stored)
<1>. HIDE DEF arrow
<1>1. column = [type |-> arrow, value |-> value]
  BY DEF Column
<1>2. PICK a : stored = [type |-> a, value |-> value]
  <2>1. \A x : [column EXCEPT !.type[Len(column.type)] = x]
                 = [type |-> [arrow EXCEPT ![Len(arrow)] = x], value |-> value]
    BY <1>1
  <2>. QED BY <1>1, <2>1 DEF Stored
<1>3. PICK b : large = [type |-> b, value |-> value]
  <2>. HIDE DEF stored
  <2>. QED BY <1>2 DEF LargeStrings
<1>4. CastTableWithSchema(large, arrow) = column
  <2>. HIDE DEF large
  <2>. QED BY <1>3 DEF CastTableWithSchema, Column
<1>. QED BY <1>4 DEF ReadColumn, arrow

\* Vertex::property and Edge::property.
LEMMA MemberGives ==
    ASSUME Empty # NullValue, NEW t \in Types, NEW value
    PROVE  LET column == Column(DataTypeToArrowDataType(t), value)
               member == Member(column)
               kept   == Kept(t, value)
           IN  /\ IsValid(member) = (kept # NullValue)
               /\ Property(member, t) = IF kept = NullValue THEN Refused("TypeError") ELSE Returned(kept)
               /\ \A c \in Scalars :
                     Property(member, c).status = "OK" => Representation(c) = Representation(t)
<1>. DEFINE arrow == DataTypeToArrowDataType(t)
            column == Column(arrow, value)
            member == Member(column)
            kept   == Kept(t, value)
<1>0. column.type = arrow /\ column.value = value
  BY DEF Column
<1>. HIDE DEF column
<1>1. CASE t \in NumberLists
  <2>1. arrow = t /\ IsList(t)
    BY <1>1, ArrowTypes, ScalarOrList
  <2>2. member = [holds |-> t, value |-> IF value = NullValue THEN Empty ELSE value]
    BY <1>0, <2>1 DEF Member
  <2>3. kept = (IF value = NullValue THEN Empty ELSE value) /\ kept # NullValue
    BY <2>1 DEF Kept
  <2>4. member.holds = t /\ member.value = kept
    BY <2>2, <2>3
  <2>. HIDE DEF member, kept
  <2>5. t # <<"none">> /\ t # <<"list", "string">>
    BY <1>1, ListTypes
  <2>6. IsValid(member)
    BY <2>4, <2>5 DEF IsValid
  <2>7. Property(member, t) = Returned(kept)
    BY <2>1, <2>4, <2>5 DEF Property, ListProperty
  <2>8. \A c \in Scalars : Property(member, c) = Refused("KeyError")
    BY <2>1, <2>4, ScalarOrList DEF Property
  <2>9. Refused("KeyError").status # "OK"
    BY DEF Refused
  <2>. QED BY <2>3, <2>6, <2>7, <2>8, <2>9 DEF member, kept, column
<1>2. CASE t \in Scalars
  <2>1. ~IsList(arrow) /\ ArrowDataTypeToDataType(arrow) = t /\ ~IsList(t)
    BY <1>2, ArrowTypes, ScalarOrList
  <2>2. member = TryToCastToAny(t, value)
    BY <1>0, <2>1 DEF Member
  <2>3. \A c \in Scalars : /\ ~IsList(c) /\ ~IsList(Representation(c))
                           /\ Representation(c) # <<"none">>
    BY ScalarOrList DEF Representation, Scalars, Numbers, IsList
  <2>4. Representation(<<"string">>) = <<"string">>
    BY DEF Representation
  <2>5. /\ kept = NullValue => member.holds = <<"none">>
        /\ kept # NullValue => member.holds = Representation(t) /\ member.value = kept
    BY <2>1, <2>2, <2>4 DEF TryToCastToAny, Kept
  <2>. HIDE DEF member, kept
  <2>6. IsValid(member) = (kept # NullValue)
    BY <1>2, <2>3, <2>5 DEF IsValid
  <2>7. Property(member, t) = IF kept = NullValue THEN Refused("TypeError") ELSE Returned(kept)
    BY <1>2, <2>3, <2>5, ScalarOrList DEF Property
  <2>8. ASSUME NEW c \in Scalars, Property(member, c).status = "OK"
        PROVE  Representation(c) = Representation(t)
    <3>1. member.holds = Representation(c)
      BY <2>3, <2>8 DEF Property, Refused
    <3>. QED BY <2>3, <2>5, <3>1
  <2>. QED BY <2>6, <2>7, <2>8 DEF member, kept, column
<1>. QED BY <1>1, <1>2 DEF Types

\* What is written to a property is what property of a vertex or an edge gives.
THEOREM PropertyKept ==
    ASSUME Empty # NullValue, NEW t \in Types, NEW value, NEW file_type
    PROVE  /\ VertexGives(t, ReadColumn(t, value, file_type), value)
           /\ EdgeGives(t, ReadColumn(t, value, file_type), value)
<1>1. ReadColumn(t, value, file_type) = Column(DataTypeToArrowDataType(t), value)
  BY ReadBack
<1>. DEFINE column == Column(DataTypeToArrowDataType(t), value)
<1>2. VertexGives(t, column, value)
  BY MemberGives DEF VertexGives, Gives
<1>3. EdgeGives(t, column, value)
  BY MemberGives DEF EdgeGives, Gives, EdgeProperty
<1>. QED BY <1>1, <1>2, <1>3

\* And what an iterator gives, where it gives a value at all.
THEOREM IterPropertyKept ==
    ASSUME Empty # NullValue, NEW t \in Scalars, NEW value, NEW file_type
    PROVE  IterGives(t, ReadColumn(t, value, file_type), value)
<1>. DEFINE arrow == DataTypeToArrowDataType(t)
            column == Column(arrow, value)
<1>0. column.type = arrow /\ column.value = value
  BY DEF Column
<1>1. ReadColumn(t, value, file_type) = column
  BY ReadBack
<1>2. Property(Member(column), t) =
          IF Kept(t, value) = NullValue THEN Refused("TypeError") ELSE Returned(Kept(t, value))
  BY MemberGives DEF Types
<1>. HIDE DEF column
<1>3. CASE t \in Numbers
  <2>1. arrow = t /\ t # <<"large_utf8">> /\ t # <<"string">>
    BY <1>3, ArrowTypes DEF Numbers
  <2>2. DataOf(column) = "values"
    <3>1. column.type \in Numbers /\ column.type \notin {<<"large_utf8">>, <<"bool">>, <<"list", "int32">>}
      BY <1>0, <1>3, <2>1 DEF Numbers
    <3>. QED BY <3>1 DEF DataOf
  <2>3. IterProperty(column, t) = IF value # NullValue THEN Returned(value) ELSE Refused("undefined")
    BY <1>0, <2>1, <2>2 DEF IterProperty, ValueOf
  <2>4. value # NullValue => Kept(t, value) = value
    BY DEF Kept
  <2>5. Refused("undefined").status # "OK"
    BY DEF Refused
  <2>. QED BY <1>1, <1>2, <2>1, <2>3, <2>4, <2>5 DEF IterGives
<1>4. CASE t = <<"string">>
  <2>1. arrow = <<"large_utf8">> /\ t \notin Numbers
    BY <1>4, ArrowTypes DEF Numbers
  <2>2. DataOf(column) = "array"
    <3>1. column.type = <<"large_utf8">> /\ <<"large_utf8">> \notin Numbers
      BY <1>0, <2>1 DEF Numbers
    <3>. QED BY <3>1 DEF DataOf
  <2>3. IterProperty(column, t) = Returned(IF value = NullValue THEN Empty ELSE value)
    BY <1>0, <1>4, <2>1, <2>2 DEF IterProperty, ValueOf
  <2>4. Kept(t, value) = (IF value = NullValue THEN Empty ELSE value) /\ Kept(t, value) # NullValue
    BY <1>4 DEF Kept
  <2>. QED BY <1>1, <1>2, <1>4, <2>1, <2>3, <2>4 DEF IterGives
<1>5. CASE t \in {<<"bool">>, <<"date">>, <<"timestamp">>}
  <2>1. t \notin Numbers /\ t # <<"string">>
    BY <1>5 DEF Numbers
  <2>2. arrow \in {<<"bool">>, <<"date32">>, <<"timestamp_ms">>}
    BY <1>5, ArrowTypes
  <2>3. IterProperty(column, t).status # "OK"
    <3>1. DataOf(column) \in {"array", "TypeError"} /\ column.type # <<"large_utf8">>
      BY <1>0, <2>2 DEF DataOf, Numbers
    <3>2. ValueOf(column, t) = Refused("undefined")
      BY <3>1 DEF ValueOf
    <3>. QED BY <3>2 DEF IterProperty, Refused
  <2>. QED BY <1>1, <2>1, <2>3 DEF IterGives
<1>. QED BY <1>3, <1>4, <1>5 DEF Scalars
==============================================================================
