------------------------------- MODULE Schema -------------------------------
(***************************************************************************)
(* The tables of src/src/schema.sql and how records become the columns of  *)
(* a segment (src/src/parquet_store.rs).  Column names are left out: a     *)
(* value reaches its column by position.                                   *)
(***************************************************************************)
EXTENDS Integers, Sequences

Repeat(n, x) == [i \in 1..n |-> x]

\* n columns of an SQL type.
TIMESTAMPTZ(n) == Repeat(n, "TIMESTAMPTZ")
VARCHAR(n) == Repeat(n, "VARCHAR")
JSON(n) == Repeat(n, "JSON")
UBIGINT(n) == Repeat(n, "UBIGINT")
BIGINT(n) == Repeat(n, "BIGINT")
INTEGER(n) == Repeat(n, "INTEGER")
DECIMAL(n) == Repeat(n, "DECIMAL")
BOOL(n) == Repeat(n, "BOOLEAN")

\* The CREATE TABLE statements of schema.sql.
create_table(table) ==
    CASE table = "depth_updates" -> TIMESTAMPTZ(2) \o VARCHAR(1) \o UBIGINT(2) \o VARCHAR(1) \o JSON(2)
      [] table = "depth_levels" -> TIMESTAMPTZ(2) \o VARCHAR(1) \o UBIGINT(2) \o VARCHAR(1) \o INTEGER(1)
            \o DECIMAL(2) \o VARCHAR(1)
      [] table = "aggregate_trades" -> TIMESTAMPTZ(2) \o VARCHAR(1) \o UBIGINT(1) \o DECIMAL(2)
            \o UBIGINT(2) \o TIMESTAMPTZ(1) \o BOOL(2) \o VARCHAR(1)
      [] table = "trades" -> TIMESTAMPTZ(2) \o VARCHAR(1) \o UBIGINT(1) \o DECIMAL(2)
            \o TIMESTAMPTZ(1) \o BOOL(2) \o VARCHAR(1)
      [] table = "book_tickers" -> TIMESTAMPTZ(1) \o VARCHAR(1) \o UBIGINT(1) \o DECIMAL(4) \o VARCHAR(1)
      [] table = "tickers" -> TIMESTAMPTZ(2) \o VARCHAR(1) \o DECIMAL(15) \o TIMESTAMPTZ(2) \o BIGINT(2)
            \o UBIGINT(1) \o VARCHAR(1)
      [] table = "rolling_tickers" -> TIMESTAMPTZ(2) \o VARCHAR(2) \o DECIMAL(9) \o TIMESTAMPTZ(2)
            \o BIGINT(2) \o UBIGINT(1) \o VARCHAR(1)
      [] table = "mini_tickers" -> TIMESTAMPTZ(2) \o VARCHAR(1) \o DECIMAL(6) \o VARCHAR(1)
      [] table = "klines" -> TIMESTAMPTZ(2) \o VARCHAR(1) \o TIMESTAMPTZ(2) \o VARCHAR(2) \o BIGINT(2)
            \o DECIMAL(5) \o UBIGINT(1) \o BOOL(1) \o DECIMAL(4) \o VARCHAR(1)
      [] table = "average_prices" -> TIMESTAMPTZ(2) \o VARCHAR(2) \o DECIMAL(1) \o TIMESTAMPTZ(1) \o VARCHAR(1)
      [] table = "futures_depth_updates" -> TIMESTAMPTZ(3) \o VARCHAR(2) \o UBIGINT(3) \o JSON(2)
            \o INTEGER(1) \o VARCHAR(1)
      [] table = "futures_depth_levels" -> TIMESTAMPTZ(3) \o VARCHAR(2) \o UBIGINT(3) \o VARCHAR(1)
            \o INTEGER(1) \o DECIMAL(2) \o VARCHAR(1)
      [] table = "futures_aggregate_trades" -> TIMESTAMPTZ(2) \o VARCHAR(2) \o UBIGINT(1) \o DECIMAL(3)
            \o UBIGINT(2) \o TIMESTAMPTZ(1) \o BOOL(1) \o INTEGER(1) \o VARCHAR(1)
      [] table = "futures_book_tickers" -> TIMESTAMPTZ(3) \o VARCHAR(1) \o UBIGINT(1) \o DECIMAL(4)
            \o VARCHAR(1) \o INTEGER(1) \o VARCHAR(1)
      [] table = "futures_mark_prices" -> TIMESTAMPTZ(2) \o VARCHAR(2) \o DECIMAL(4) \o TIMESTAMPTZ(1)
            \o INTEGER(1) \o VARCHAR(1)
      [] table = "futures_liquidations" -> TIMESTAMPTZ(2) \o VARCHAR(4) \o DECIMAL(3) \o VARCHAR(1)
            \o DECIMAL(2) \o TIMESTAMPTZ(1) \o VARCHAR(1) \o INTEGER(1) \o VARCHAR(1)
      [] table = "futures_open_interest" -> TIMESTAMPTZ(2) \o VARCHAR(3) \o DECIMAL(1) \o VARCHAR(1)
      [] table = "futures_mini_tickers" -> TIMESTAMPTZ(2) \o VARCHAR(2) \o DECIMAL(6) \o INTEGER(1) \o VARCHAR(1)
      [] table = "futures_tickers" -> TIMESTAMPTZ(2) \o VARCHAR(2) \o DECIMAL(10) \o TIMESTAMPTZ(2)
            \o BIGINT(2) \o UBIGINT(1) \o INTEGER(1) \o VARCHAR(1)
      [] table = "futures_klines" -> TIMESTAMPTZ(2) \o VARCHAR(2) \o TIMESTAMPTZ(2) \o VARCHAR(1)
            \o BIGINT(2) \o DECIMAL(5) \o UBIGINT(1) \o BOOL(1) \o DECIMAL(4) \o INTEGER(1) \o VARCHAR(1)

arrow_type(sql) ==
    CASE sql = "TIMESTAMPTZ" -> "Timestamp"
      [] sql \in {"VARCHAR", "JSON"} -> "Utf8"
      [] sql = "UBIGINT" -> "UInt64"
      [] sql = "BIGINT" -> "Int64"
      [] sql = "INTEGER" -> "Int32"
      [] sql = "DECIMAL" -> "Decimal128"
      [] sql = "BOOLEAN" -> "Boolean"

\* parse_schemas: the statements that create a table, split into typed columns.
schema_for(table) ==
    LET columns == create_table(table) IN [i \in DOMAIN columns |-> arrow_type(columns[i])]

\* column_array: a value of another type is stored as NULL, without an error.
column_value(type, value) ==
    IF \/ type = "Timestamp" /\ value = "TimestampMicros"
       \/ type = "Utf8" /\ value = "Text"
       \/ type = "UInt64" /\ value = "U64"
       \/ type \in {"Int64", "Int32"} /\ value = "I64"
       \/ type = "Decimal128" /\ value = "Decimal"
       \/ type = "Boolean" /\ value = "Boolean"
    THEN value ELSE "Null"

\* record_batch: one record of the wrong length makes the whole segment fail.
FieldCount(record) == Len(record.values) = Len(schema_for(record.table))
record_columns(record) ==
    LET schema == schema_for(record.table)
    IN [i \in DOMAIN record.values |-> column_value(schema[i], record.values[i])]

=============================================================================
