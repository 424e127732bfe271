--------------------------- MODULE SpreadsheetCells ---------------------------
(* The cells of a spreadsheet document in Form.bin, in the model and in    *)
(* Form.xml.  Form.bin keeps the type of a cell behind two tables: a cell  *)
(* refers to a format (from 1), a format to a type (from 0).  The decoder  *)
(* resolves them and refuses tables with holes or with rows nobody uses;   *)
(* the encoder gives every typed cell a format and a type of its own.      *)
EXTENDS Integers, Sequences, FiniteSets, SequencesExt

CONSTANT LastIndex      \* the largest uint32, which no row and no column may have

Absent == <<>>
NoText == "none"

-----------------------------------------------------------------------------
(* Types and values.  A value is its kind and a code; 0 is what goes       *)
(* without saying, 2 a number that is spelled in no canonical way.         *)

ScalarTerms == [string |-> "string", number |-> "number", boolean |-> "boolean",
                dateTime |-> "date"]

Term == ScalarTerms @@ [dateOnly |-> "date", reference |-> "reference"]

\* Types of one entry; "pair" has two.
OneEntry == DOMAIN Term

DefaultOf(type) == <<Term[type], 0>>

KnownValue(value) == value # <<"number", 2>>

-----------------------------------------------------------------------------
(* The model: cells in row-major order, each with a text or with a type, a *)
(* value and, maybe, a control with the property ReadOnly.                 *)

TextCell(row, column, text) == [row |-> row, column |-> column, text |-> text]

TypedCell(row, column, type, value, control) ==
    [row |-> row, column |-> column, type |-> type, value |-> value, control |-> control]

HasType(cell) == "type" \in DOMAIN cell

Before(a, b) == a.row < b.row \/ (a.row = b.row /\ a.column < b.column)

CellsValid(cells) ==
    /\ \A i \in DOMAIN cells : cells[i].row > 0 /\ cells[i].column > 0
    /\ \A i, j \in DOMAIN cells : i < j => Before(cells[i], cells[j])
    /\ \A i \in DOMAIN cells :
          HasType(cells[i]) =>
              /\ cells[i].type \in DOMAIN ScalarTerms
              /\ cells[i].value[1] = Term[cells[i].type]

-----------------------------------------------------------------------------
(* decode_spreadsheet_document_field: a sheet has rows, the extents, the   *)
(* table of formats, the table of types, and an owner of those.            *)

Increasing(indices) ==
    /\ \A i \in DOMAIN indices : indices[i] # LastIndex
    /\ \A i \in 2..Len(indices) : indices[i - 1] < indices[i]

RowsReadable(sheet) ==
    /\ Increasing([i \in DOMAIN sheet.rows |-> sheet.rows[i].index])
    /\ \A i \in DOMAIN sheet.rows :
          LET cells == sheet.rows[i].cells
          IN  cells # <<>> /\ Increasing([j \in DOMAIN cells |-> cells[j].column])

\* Flags of a typed cell; 16 is a text.
WithControl(cell) == cell.flags \in {1, 3}
WithValue(cell) == cell.flags \in {2, 3}
IsTyped(cell) == cell.flags \in 0..3

CellReadable(cell) ==
    IF IsTyped(cell)
    THEN /\ WithControl(cell) <=> cell.editor # Absent
         /\ WithValue(cell) <=> cell.value # Absent
         /\ WithValue(cell) => KnownValue(cell.value)
         /\ cell.text = NoText
    ELSE /\ cell.flags = 16
         /\ cell.text \notin {NoText, "bilingual"}
         /\ cell.value = Absent /\ cell.editor = Absent

AllCells(sheet) == FlattenSeq([i \in DOMAIN sheet.rows |-> sheet.rows[i].cells])

TypedCells(sheet) == SelectSeq(AllCells(sheet), IsTyped)

TablesReadable(sheet) ==
    LET typed == TypedCells(sheet) IN
    /\ (typed = <<>>) = (sheet.formats = <<>>)
    /\ (typed = <<>>) = (sheet.types = <<>>)
    /\ \A i \in DOMAIN sheet.formats : sheet.formats[i] < Len(sheet.types)
    /\ \A i \in DOMAIN typed : typed[i].reference \in DOMAIN sheet.formats

TypeOf(sheet, cell) == sheet.types[sheet.formats[cell.reference] + 1]

\* spreadsheet_cell_editor_info must be the editor exactly.
EditorReadable(cell, type) ==
    WithControl(cell) => type \in DOMAIN ScalarTerms /\ cell.editor.type = type

TypesReadable(sheet) ==
    LET typed == TypedCells(sheet)
        used == {typed[i].reference : i \in DOMAIN typed}
    IN  /\ \A i \in DOMAIN typed :
              LET type == TypeOf(sheet, typed[i])
              IN  /\ type \in OneEntry
                  /\ IF WithValue(typed[i]) THEN Term[type] = typed[i].value[1]
                                            ELSE type \in DOMAIN ScalarTerms
                  /\ EditorReadable(typed[i], type)
        /\ used = DOMAIN sheet.formats
        /\ {sheet.formats[i] : i \in used} = 0..(Len(sheet.types) - 1)

\* A text of one language that is empty is the empty text.
TextOf(cell) == IF cell.text = "blank" THEN "" ELSE cell.text

CellDecoded(sheet, row, cell) ==
    IF IsTyped(cell)
    THEN LET type == TypeOf(sheet, cell)
         IN  TypedCell(row.index + 1, cell.column + 1, type,
                       IF WithValue(cell) THEN cell.value ELSE DefaultOf(type),
                       IF WithControl(cell) THEN cell.editor.readOnly ELSE "none")
    ELSE TextCell(row.index + 1, cell.column + 1, TextOf(cell))

CellsDecoded(sheet) ==
    FlattenSeq([i \in DOMAIN sheet.rows |->
        LET row == sheet.rows[i]
        IN  [j \in DOMAIN row.cells |-> CellDecoded(sheet, row, row.cells[j])]])

\* OrdinaryFormDocument::validate follows every decoding.
SheetReadable(sheet) ==
    /\ RowsReadable(sheet)
    /\ \A i \in DOMAIN sheet.rows : \A j \in DOMAIN sheet.rows[i].cells :
          CellReadable(sheet.rows[i].cells[j])
    /\ TablesReadable(sheet)
    /\ TypesReadable(sheet)
    /\ CellsValid(CellsDecoded(sheet))

-----------------------------------------------------------------------------
(* canonical_spreadsheet_field_info.                                       *)

Ascending(indices) == SetToSortSeq(indices, <)

\* The cells of a row, by column.
RowOf(cells, row) ==
    SortSeq(SelectSeq(cells, LAMBDA c : c.row = row), LAMBDA a, b : a.column < b.column)

\* Mutant: texts are counted too, though they have no format.
CellsUpTo(cells, i) == i

\* How many typed cells there are up to the one at i.
TypedUpTo(cells, i) == Cardinality({j \in 1..i : HasType(cells[j])})

\* Not said, ReadOnly is false.
EditorOf(cell) ==
    IF cell.control = "none" THEN Absent
    ELSE [type |-> cell.type,
          readOnly |-> IF cell.control = "plain" THEN "editable" ELSE cell.control]

CellEncoded(cell, reference) ==
    IF HasType(cell)
    THEN LET plain == cell.value = DefaultOf(cell.type)
         IN  [column |-> cell.column - 1,
              flags |-> (IF plain THEN 0 ELSE 2) + (IF cell.control = "none" THEN 0 ELSE 1),
              reference |-> reference,
              value |-> IF plain THEN Absent ELSE cell.value,
              editor |-> EditorOf(cell),
              text |-> NoText]
    ELSE [column |-> cell.column - 1, flags |-> 16, reference |-> 0, value |-> Absent,
          editor |-> Absent, text |-> cell.text]

Extent(indices) == IF indices = {} THEN 0 ELSE CHOOSE n \in indices : \A m \in indices : m <= n

SheetEncoded(cells) ==
    LET used == {cells[i].row : i \in DOMAIN cells}
        order == Ascending(used)
        sorted == FlattenSeq([i \in DOMAIN order |-> RowOf(cells, order[i])])
        typed == SelectSeq(sorted, HasType)
        place(cell) == CHOOSE i \in DOMAIN sorted : sorted[i] = cell
    IN  [rows |-> [i \in DOMAIN order |->
                    [index |-> order[i] - 1,
                     cells |-> LET row == RowOf(cells, order[i])
                               IN  [j \in DOMAIN row |->
                                       CellEncoded(row[j], TypedUpTo(sorted, place(row[j])))]]],
         width |-> Extent({cells[i].column : i \in DOMAIN cells}),
         height |-> Extent(used),
         formats |-> [i \in DOMAIN typed |-> i - 1],
         types |-> [i \in DOMAIN typed |-> typed[i].type],
         owned |-> typed # <<>>]

\* The decoder overlooks how formats and types are shared and numbered, and
\* reports whatever else differs from what the encoder would write.
Renumbered(sheet, canonical) ==
    [sheet EXCEPT !.formats = canonical.formats, !.types = canonical.types,
                  !.rows = [i \in DOMAIN sheet.rows |->
                      [sheet.rows[i] EXCEPT !.cells =
                          [j \in DOMAIN sheet.rows[i].cells |->
                              LET cell == sheet.rows[i].cells[j]
                              IN  IF IsTyped(cell)
                                  THEN [cell EXCEPT !.reference =
                                           canonical.rows[i].cells[j].reference]
                                  ELSE cell]]]]

SheetWarns(sheet) ==
    LET canonical == SheetEncoded(CellsDecoded(sheet))
    IN  Renumbered(sheet, canonical) # canonical

-----------------------------------------------------------------------------
(* The element Document of Form.xml: a cell may leave out its value, and   *)
(* the cells may come in any order.                                        *)

XmlCellReadable(cell) ==
    /\ cell.row > 0 /\ cell.column > 0
    /\ HasType(cell) =>
          /\ cell.type \in OneEntry \ {"reference"}
          /\ cell.value = Absent => cell.type \in DOMAIN ScalarTerms

XmlCellsReadable(cells) ==
    /\ \A i \in DOMAIN cells : XmlCellReadable(cells[i])
    /\ \A i, j \in DOMAIN cells :
          i # j => <<cells[i].row, cells[i].column>> # <<cells[j].row, cells[j].column>>

CellsParsed(cells) ==
    LET whole == [i \in DOMAIN cells |->
                    IF HasType(cells[i]) /\ cells[i].value = Absent
                    THEN [cells[i] EXCEPT !.value = DefaultOf(cells[i].type)] ELSE cells[i]]
    IN  SortSeq(whole, Before)

\* The writer always says the value and ReadOnly.
CellsPrinted(cells) ==
    [i \in DOMAIN cells |->
        IF HasType(cells[i]) /\ cells[i].control = "plain"
        THEN [cells[i] EXCEPT !.control = "editable"] ELSE cells[i]]

=============================================================================
