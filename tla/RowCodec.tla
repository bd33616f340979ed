------------------------------ MODULE RowCodec ------------------------------
(***************************************************************************)
(* The encoding of a row (src/table.cpp).  A record has a cell of eight    *)
(* bytes for each value that was given, and behind them the characters of  *)
(* the texts; the cell of a text has the offset and the size of its        *)
(* characters.  A value is a pair of a type and a datum, a text's datum a  *)
(* sequence of characters.                                                 *)
(***************************************************************************)
EXTENDS Integers, Sequences

CellSize == 8
NoRecord == [cells |-> <<>>, tail |-> <<>>]

IsText(v) == v[1] = "text"

\* The values of each column type, of a number the eight bytes that stand for it.
Value == ({"int", "float"} \X Int) \cup ({"text"} \X Seq(Nat))

\* Characters of the first n values, one after the other.
TextBefore(row, n) ==
    LET text[i \in 0 .. n] ==
          IF i = 0 THEN <<>> ELSE text[i - 1] \o (IF IsText(row[i]) THEN row[i][2] ELSE <<>>)
    IN  text[n]

Typed(types, row) == \A i \in DOMAIN row : row[i][1] = types[i]

\* Variant: row_offset does not move.
TextOffsetFixed(row, i) == CellSize * Len(row) 

\* row_offset when the loop is at value i.
TextOffset(row, i) == CellSize * Len(row) + Len(TextBefore(row, i - 1))

\* store_row_to_record, with as many values as columns or fewer.  A value of
\* another type is an error that leaves the record empty.
Store(types, row) ==
    IF Typed(types, row)
    THEN [cells |-> [i \in DOMAIN row |->
                        IF IsText(row[i])
                        THEN [offset |-> TextOffset(row, i), size |-> Len(row[i][2])]
                        ELSE [datum |-> row[i][2]]],
          tail |-> TextBefore(row, Len(row))]
    ELSE NoRecord

\* load_row_from_record, up to the cells that the record has: what is behind
\* them is read as the values of further columns.
Load(types, record) ==
    [i \in DOMAIN record.cells |->
        LET c == record.cells[i]
        IN  IF types[i] = "text"
            THEN LET from == c.offset - CellSize * Len(record.cells)
                 IN  <<"text", SubSeq(record.tail, from + 1, from + c.size)>>
            ELSE <<types[i], c.datum>>]

\* A column whose text is looked for at an offset that nobody has written.
ReadsWild(types, record) == \E i \in DOMAIN types : i > Len(record.cells) /\ types[i] = "text"
=============================================================================
