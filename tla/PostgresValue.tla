--------------------------- MODULE PostgresValue ----------------------------
(***************************************************************************)
(* What PostgreSQL's binary values become, and what a parameter must look  *)
(* like to go back (cli/postgres/pool): binary_format.rs, array.rs,        *)
(* conversion.rs, types.rs and datetime.rs.                                *)
(*                                                                         *)
(* A group of a NUMERIC has two decimal digits here and not four, a second *)
(* a hundred parts and not a million; a length takes one cell of a buffer. *)
(***************************************************************************)
EXTENDS Integers, SequencesExt, FiniteSetsExt

CONSTANTS Parts,    \* of a second
          Width     \* cells of an integer

Ok(value) == <<value>>
Failed == <<>>

Zeros(n) == [i \in 1..n |-> 0]
\* {:02}, of the two digits of a group or of the parts of a second.
Padded(d) == <<d \div 10, d % 10>>
Unpadded(d) == IF d < 10 THEN <<d>> ELSE Padded(d)
\* The truncating division of Rust.
Quotient(n, by) == IF n < 0 THEN -((-n) \div by) ELSE n \div by
Remainder(n, by) == n - by * Quotient(n, by)
Magnitude(n) == IF n < 0 THEN -n ELSE n
NumberOf(digits) == FoldLeft(LAMBDA n, d : 10 * n + d, 0, digits)

-----------------------------------------------------------------------------
(* parse_pg_numeric(): ndigits groups, the first of them weight groups      *)
(* before the point, and dscale digits after it.                            *)
Decimal(negative, whole, frac) == [negative |-> negative, whole |-> whole, frac |-> frac]

WholePart(digits, weight) ==
    IF weight < 0 THEN <<0>>
    ELSE FlattenSeq([i \in 1..(weight + 1) |->
            IF i > Len(digits) THEN Zeros(2)
            ELSE IF i = 1 THEN Unpadded(digits[i]) ELSE Padded(digits[i])])

\* Mutated form: the zero groups between the point and the first digit are left out.
FracDigits_NoGap(digits, weight) ==
    FlattenSeq([i \in DOMAIN digits |-> IF i > weight + 1 THEN Padded(digits[i]) ELSE <<>>])

FracDigits(digits, weight) ==
    Zeros(IF weight < 0 THEN 2 * (-weight - 1) ELSE 0)
    \o FlattenSeq([i \in DOMAIN digits |-> IF i > weight + 1 THEN Padded(digits[i]) ELSE <<>>])

Scaled(digits, dscale) ==
    [i \in 1..dscale |-> IF i <= Len(digits) THEN digits[i] ELSE 0]

ParseNumeric(raw) ==
    CASE raw.ndigits < 0 \/ raw.dscale < 0 -> Failed
      [] raw.sign \in {"nan", "infinity"} -> Ok(raw.sign)
      [] raw.ndigits = 0 -> Ok(Decimal(FALSE, <<0>>, Zeros(raw.dscale)))
      [] Len(raw.digits) < raw.ndigits -> Failed
      [] OTHER -> Ok(Decimal(raw.sign = "negative", WholePart(raw.digits, raw.weight),
                             Scaled(FracDigits(raw.digits, raw.weight), raw.dscale)))

\* What numeric_send() sends for n * 10^-dscale: no zero group at either end.
GroupsOf(n) ==
    LET count == Min({k \in 1..4 : n < 100 ^ k})
    IN  [i \in 1..count |-> (n \div 100 ^ (count - i)) % 100]

Stripped(digits, weight) ==
    LET used == {i \in DOMAIN digits : digits[i] # 0}
    IN  IF used = {} THEN [digits |-> <<>>, weight |-> 0]
        ELSE [digits |-> SubSeq(digits, Min(used), Max(used)), weight |-> weight - Min(used) + 1]

SendNumeric(n, dscale, negative) ==
    LET even == dscale + (dscale % 2)
        all == GroupsOf(n * 10 ^ (even - dscale))
        groups == Stripped(all, Len(all) - even \div 2 - 1)
    IN  [ndigits |-> Len(groups.digits), digits |-> groups.digits, weight |-> groups.weight,
         dscale |-> dscale, sign |-> IF negative THEN "negative" ELSE "positive"]

\* parse_pg_numeric(): the text is the number PostgreSQL sent, digit for digit,
\* wherever its groups begin and however many zero groups were left out.
IsTheNumber(text, n, dscale, negative) ==
    /\ text.negative <=> negative /\ n > 0
    /\ Len(text.frac) = dscale
    /\ NumberOf(text.whole \o text.frac) = n
    /\ Len(text.whole) > 1 => text.whole[1] # 0

NumericIsExact(n, dscale, negative) ==
    LET text == ParseNumeric(SendNumeric(n, dscale, negative))
    IN  text # Failed /\ IsTheNumber(text[1], n, dscale, negative)

-----------------------------------------------------------------------------
(* The times: format_interval(), format_timetz().                           *)
TrimZeros(digits) ==
    LET last == {i \in DOMAIN digits : digits[i] # 0}
    IN  IF last = {} THEN <<>> ELSE SubSeq(digits, 1, Max(last))

Clock(parts) ==
    LET seconds == parts \div Parts
    IN  [h |-> seconds \div 3600, m |-> (seconds % 3600) \div 60, s |-> seconds % 60,
         frac |-> TrimZeros(Padded(parts % Parts))]

Unit(n, unit) == IF n = 0 THEN <<>> ELSE << [n |-> n, unit |-> unit] >>

\* Mutated form: the sign of a time is that of its hours.
TimeUnit_ByHours(parts) ==
    << [negative |-> parts < 0 /\ Clock(Magnitude(parts)).h > 0,
        clock |-> Clock(Magnitude(parts))] >>

TimeUnit(parts) == << [negative |-> parts < 0, clock |-> Clock(Magnitude(parts))] >>

\* A list of units, and then at most one time.
FormatInterval(months, days, parts) ==
    LET units == Unit(Quotient(months, 12), "year") \o Unit(Remainder(months, 12), "mon")
                 \o Unit(days, "day")
    IN  [units |-> units,
         time |-> IF parts # 0 \/ units = <<>> THEN TimeUnit(parts) ELSE <<>>]

FormatTimetz(parts, offset) ==
    IF parts < 0 THEN Failed
    ELSE Ok([clock |-> Clock(parts), east |-> offset <= 0,
             h |-> Magnitude(offset) \div 3600, m |-> (Magnitude(offset) % 3600) \div 60])

\* How PostgreSQL reads the text.
ClockValue(clock) ==
    Parts * (3600 * clock.h + 60 * clock.m + clock.s)
    + NumberOf(clock.frac \o Zeros(2 - Len(clock.frac)))

UnitsOf(text, unit) ==
    FoldLeft(LAMBDA n, u : IF u.unit = unit THEN n + u.n ELSE n, 0, text.units)

TimeOf(text) ==
    IF text.time = <<>> THEN 0
    ELSE (IF text.time[1].negative THEN -1 ELSE 1) * ClockValue(text.time[1].clock)

\* format_interval(), format_timetz(): the text, read again, is the interval that
\* was sent, each of its signs its own; a time of day is exact, and so is its zone
\* up to the seconds of the offset, which are dropped.
IntervalIsExact(months, days, parts) ==
    LET text == FormatInterval(months, days, parts)
    IN  /\ 12 * UnitsOf(text, "year") + UnitsOf(text, "mon") = months
        /\ UnitsOf(text, "day") = days /\ TimeOf(text) = parts
        /\ text.units # <<>> \/ text.time # <<>>

TimetzIsExact(parts, offset) ==
    LET text == FormatTimetz(parts, offset)[1]
    IN  /\ ClockValue(text.clock) = parts
        /\ (IF text.east THEN -1 ELSE 1) * (3600 * text.h + 60 * text.m)
                = 60 * Quotient(offset, 60)

-----------------------------------------------------------------------------
(* Buffers.  An integer of Width cells, or a text of any number of them.    *)
Cells(buffer, pos, count) == SubSeq(buffer, pos, pos + count - 1)

\* raw_element_to_const(), format_range_bound(): an integer has its length, or fails.
Decoded(type, data) ==
    IF type = "int" /\ Len(data) # Width THEN Failed ELSE Ok(data)

\* read_elements() and read_range_bound(): a length, and its cells; what was read,
\* and where the next begins.
Read(value, pos) == [value |-> value, pos |-> pos]

Bounded(value, pos) == IF value = Failed THEN Failed ELSE Ok(Read(value[1], pos))

\* Mutated form: a null's length is not stepped over.
ReadElement_Stays(buffer, pos, type) ==
    IF pos > Len(buffer) THEN Failed
    ELSE IF buffer[pos] < 0 THEN Ok(Read(<<>>, pos))
    ELSE IF pos + buffer[pos] > Len(buffer) THEN Failed
    ELSE Bounded(Decoded(type, Cells(buffer, pos + 1, buffer[pos])), pos + 1 + buffer[pos])

ReadElement(buffer, pos, type) ==
    IF pos > Len(buffer) THEN Failed
    ELSE IF buffer[pos] < 0 THEN Ok(Read(<<>>, pos + 1))
    ELSE IF pos + buffer[pos] > Len(buffer) THEN Failed
    ELSE Bounded(Decoded(type, Cells(buffer, pos + 1, buffer[pos])), pos + 1 + buffer[pos])

\* A range's bound of negative length is an error.
ReadBound(buffer, pos, type) ==
    IF pos <= Len(buffer) /\ buffer[pos] < 0 THEN Failed ELSE ReadElement(buffer, pos, type)

RECURSIVE ReadElements(_, _, _, _)
\* The items read so far, or none once one failed.
NextItem(buffer, dims, type, state) ==
    IF state = Failed THEN Failed
    ELSE LET item == IF Len(dims) = 1 THEN ReadElement(buffer, state[1].pos, type)
                     ELSE ReadElements(buffer, state[1].pos, Tail(dims), type)
         IN  IF item = Failed THEN Failed
             ELSE Ok(Read(Append(state[1].value, item[1].value), item[1].pos))

ReadElements(buffer, pos, dims, type) ==
    FoldLeft(LAMBDA state, i : NextItem(buffer, dims, type, state), Ok(Read(<<>>, pos)),
             [i \in 1..dims[1] |-> i])

ParseArray(raw, type) ==
    CASE raw.ndim < 0 \/ \E i \in DOMAIN raw.dims : raw.dims[i] < 0 -> Failed
      [] raw.ndim = 0 -> Ok(<<>>)
      [] OTHER -> LET all == ReadElements(raw.cells, 1, raw.dims, type)
                  IN  IF all = Failed THEN Failed ELSE Ok(all[1].value)

\* What array_send() sends: the elements in row-major order, -1 for a null, a list
\* of cells for another.
SendElements(elements) ==
    FlattenSeq([i \in DOMAIN elements |->
        IF elements[i] = <<>> THEN <<-1>> ELSE <<Len(elements[i])>> \o elements[i]])

Rows(elements, dims) ==
    IF Len(dims) = 1 THEN elements
    ELSE [i \in 1..dims[1] |-> SubSeq(elements, dims[2] * (i - 1) + 1, dims[2] * i)]

\* parse_pg_array(): the lists have the array's dimensions and its elements in
\* their places, nulls among them; a buffer cut short is an error and no value.
ArrayIsRead(elements, dims, cut, type) ==
    LET cells == SendElements(elements)
        result == ParseArray([ndim |-> Len(dims), dims |-> dims,
                              cells |-> SubSeq(cells, 1, Min({cut, Len(cells)}))], type)
    IN  IF dims = <<>> THEN result = Ok(<<>>)
        ELSE IF /\ cut >= Len(cells)
                /\ \A i \in DOMAIN elements : elements[i] = <<>> \/ Decoded(type, elements[i]) # Failed
             THEN result = Ok(Rows(elements, dims))
        ELSE result = Failed

-----------------------------------------------------------------------------
(* format_range(): the flags, then the bounds there are.                    *)
Bracket(flags, inc) == inc \in flags

FormatRange(flags, buffer, type) ==
    IF "empty" \in flags THEN Ok("empty")
    ELSE LET lower == IF "lower infinite" \in flags THEN Ok(Read(<<>>, 1))
                      ELSE ReadBound(buffer, 1, type)
             upper == IF lower = Failed THEN Failed
                      ELSE IF "upper infinite" \in flags THEN lower
                      ELSE ReadBound(buffer, lower[1].pos, type)
         IN  IF upper = Failed THEN Failed
             ELSE Ok([lower |-> lower[1].value,
                      upper |-> IF "upper infinite" \in flags THEN <<>> ELSE upper[1].value,
                      from |-> Bracket(flags, "lower inclusive"),
                      to |-> Bracket(flags, "upper inclusive")])

\* format_range(): a range is written with the bounds it was sent with, an infinite
\* one left open, and each bracket on its own side.
RangeIsExact(lower, upper, inclusive, type) ==
    LET flags == inclusive \cup (IF lower = <<>> THEN {"lower infinite"} ELSE {})
                 \cup (IF upper = <<>> THEN {"upper infinite"} ELSE {})
        text == FormatRange(flags, SendElements(SelectSeq(<<lower, upper>>,
                                                          LAMBDA bound : bound # <<>>)), type)
    IN  IF "empty" \in inclusive THEN text = Ok("empty")
        ELSE text = Ok([lower |-> lower, upper |-> upper,
                        from |-> "lower inclusive" \in inclusive,
                        to |-> "upper inclusive" \in inclusive])

\* format_inet(): the mask is written for a network and for part of one.
FormatInet(raw) ==
    [address |-> raw.address,
     mask |-> IF raw.cidr \/ raw.mask # raw.max THEN <<raw.mask>> ELSE <<>>]

\* format_inet(): an address without a mask is one host.
InetIsExact(raw) ==
    LET text == FormatInet(raw)
    IN  IF text.mask = <<>> THEN raw.mask = raw.max /\ ~raw.cidr ELSE text.mask[1] = raw.mask

-----------------------------------------------------------------------------
(* How a value of a column looks: row_value_to_const(), raw_element_to_const.*)
Unzoned == {"timestamp", "date"}

Looks(type) ==
    CASE type = "bool" -> "boolean"
      [] type \in {"int2", "int4", "float8"} -> "number"
      [] type = "int8" -> "digits"
      [] type \in {"timestamp", "timestamptz", "date"} -> "rfc3339"
      [] type = "json" -> "json"
      [] type = "uuid" -> "uuid"
      [] type = "time" -> "clock"
      [] OTHER -> "text"

ElementLooks(type) ==
    CASE type = "int8" -> "number"
      [] type = "timestamp" -> "naive"
      [] type = "date" -> "day"
      [] OTHER -> Looks(type)

\* TypedParam::to_sql(): what it makes of a parameter's text, for the type that the
\* statement expects; parse_naive_datetime(), parse_naive_time(), and the raw text.
\* Mutated form: a 64-bit integer goes as text, a time with a zone is read without.
Parses_Naive(type) ==
    CASE type = "bool" -> {"boolean"}
      [] type \in {"int2", "int4", "int8", "float8"} -> {"number", "digits"}
      [] type \in {"timestamp", "timestamptz"} -> {"naive"}
      [] type = "date" -> {"day"}
      [] type = "time" -> {"clock"}
      [] type = "uuid" -> {"uuid"}
      [] OTHER -> {"text", "json"}

Parses(type) ==
    CASE type = "bool" -> {"boolean"}
      [] type \in {"int2", "int4", "int8", "float8"} -> {"number", "digits"}
      [] type = "timestamp" -> {"naive"}
      [] type = "timestamptz" -> {"rfc3339"}
      [] type = "date" -> {"day"}
      [] type = "time" -> {"clock"}
      [] type = "uuid" -> {"uuid"}
      [] OTHER -> {"text", "json"}

\* PgType::graphql_scalar()
GraphqlScalar(type) ==
    CASE type \in {"int2", "int4"} -> "Int"
      [] type = "float8" -> "Float"
      [] type = "bool" -> "Boolean"
      [] type = "uuid" -> "ID"
      [] type = "json" -> "JSON"
      [] type \in {"date", "timestamp", "timestamptz"} -> "DateTime"
      [] OTHER -> "String"

\* Scalar::validate(), of the scalars that columns have.
Validates(scalar) ==
    CASE scalar = "DateTime" -> {"rfc3339"}
      [] scalar = "Boolean" -> {"boolean"}
      [] scalar \in {"Int", "Float"} -> {"number"}
      [] scalar = "JSON" -> {"boolean", "number", "digits", "rfc3339", "json", "uuid",
                             "clock", "text", "naive", "day"}
      [] OTHER -> {"digits", "uuid", "clock", "text", "rfc3339", "naive", "day"}

\* row_value_to_const() and TypedParam::to_sql(): a value read from a column is one
\* its GraphQL type takes, and one the column takes back, as a key that joins rows
\* or in an update; but for a day or time without a zone, whose text a parameter
\* does not parse, unless it was an element of an array.
ColumnTakesItBack(type) ==
    /\ Looks(type) \in Validates(GraphqlScalar(type))
    /\ type \notin Unzoned => Looks(type) \in Parses(type)
    /\ ElementLooks(type) \in Parses(type)

-----------------------------------------------------------------------------
(* rows_to_const_value(): a name is a list of letters, digits, underscores  *)
(* and other characters.                                                    *)
Replaced(name) == [i \in DOMAIN name |-> IF name[i] = "-" THEN "_" ELSE name[i]]
Led(name) == IF name # <<>> /\ name[1] = "1" THEN <<"_">> \o name ELSE name
NotEmpty(name) == IF name = <<>> THEN <<"_", "u">> ELSE name
\* Mutated form: names that begin with two underscores are left alone.
NotReserved_Kept(name) == name

NotReserved(name) ==
    IF Len(name) >= 2 /\ name[1] = "_" /\ name[2] = "_" THEN <<"x">> \o name ELSE name

SanitizeName(name) == NotReserved(NotEmpty(Led(Replaced(name))))

\* A column of a name that another has as well overwrites it.
Row(columns) ==
    FoldLeft(LAMBDA row, i :
                 [n \in DOMAIN row \cup {SanitizeName(columns[i])} |->
                    IF n = SanitizeName(columns[i]) THEN i ELSE row[n]],
             [n \in {} |-> 0], [i \in DOMAIN columns |-> i])

\* sanitize_graphql_name(): the fields of a row are names GraphQL allows, none of
\* them reserved; a column whose name is one keeps it, and each of its own is found.
Valid(name) ==
    /\ name # <<>> /\ name[1] # "1" /\ \A i \in DOMAIN name : name[i] # "-"
    /\ ~(Len(name) >= 2 /\ name[1] = "_" /\ name[2] = "_")

RowIsNamed(columns) ==
    LET row == Row(columns)
    IN  /\ \A n \in DOMAIN row : Valid(n)
        /\ \A i \in DOMAIN columns :
              /\ SanitizeName(columns[i]) \in DOMAIN row
              /\ Valid(columns[i]) => SanitizeName(columns[i]) = columns[i]
              /\ row[SanitizeName(columns[i])] # i =>
                    \E j \in DOMAIN columns : j > i /\ SanitizeName(columns[j]) = SanitizeName(columns[i])
=============================================================================
