# Verification of oof, the converter of ordinary forms

`oof` (`src/sidecars/onec-form-native`) is a command-line program in C++ that
takes the `Form.bin` of a 1C ordinary form apart into readable sources
(`Form.xml`, `Form/Module.bsl`, pictures under `Form/Items`) and builds it
again. This directory holds TLA+ models of the parts of it whose behaviour
depends on an order of steps, TLC configurations that check the models on small
instances, and proofs checked by TLAPS for every value of the constants.

Paths below are relative to `src/sidecars/onec-form-native`; `docs/...` is
`src/docs/...`.

## 1. The system

`oof` is one process with one thread. It reads all its inputs, converts them in
memory and writes all its outputs at the end. What makes it hard to test is not
threads; it is (a) the file system, where every call may fail and the process
may be killed between two calls, (b) inputs that say anything (a `Form.bin` is
a chain of blocks written by another program), (c) a form model with state that
outlives an operation (weak references to rows, permissions that freeze, ids
that must never come back), changed by a caller in any order, and (d) pairs of
conversions that must undo each other: a decoder, an encoder, a printer, a
parser, a validator and a table of defaults each have their own opinion of the
same record, and nothing but a test of every combination shows that they agree.

```
 Form.bin --read_bytes--> container --> list stream --> form_stream decode --+
                          (blocks)      (values)                             |
                                                                     model::OrdinaryForm
                                                                     FormDocument (run-time state)
                                                                             |
 Form.xml, Module.bsl, Items/* <--write_file_set-- form_xml serialize <------+
```
and `build` in the other direction; both write through the same transaction.

| Component | Source | State | Operations | Hard behaviour |
|---|---|---|---|---|
| Output transaction | `src/cli/main.cpp:280-492` | pending writes with four flags each; files, `.oof-stage` and `.oof-backup` files on disk | check, stage, back up, install, roll back, clean up | failure at any call, in rollback and cleanup too; a kill between two calls; a second run on what the first left |
| Commands | `src/cli/main.cpp:494-774` | the package on disk, `Form.bin` | `dump`, `build` | the module exists or not by the file beside the XML; line ends and signature |
| Form.bin document | `src/form_bin.cpp` | form and module payload | `load_form_bin`, `save_form_bin` | verification of what is saved; text conversion that must settle |
| Container | `include/oof/storage/form_bin_container.hpp` | block chains, visit budget, remaining bytes | `parse_container`, `serialize_container` | cycles, shared blocks, sizes that lie, boundaries of blocks |
| List stream | `include/oof/storage/list_stream.hpp` | tokens, stack of open lists, stack of read frames | tokenize, parse, two dumps, `ListOutStream`, `ListInStream` | empty slots, base64 chunks, quoted units, limits |
| Value codec | `src/storage/value_codec.cpp` | none | decode and encode of typed values | inverse of each other; several records of one value; trees with limits |
| Form stream codec | `src/storage/form_stream.cpp` | record under construction | `decode_document`, `encode_document` and a pair of functions for every kind of control | positions, ordinals, defaults that are left out; tables and chains in any order; one fact in several slots |
| Form XML | `src/source/form_xml.cpp` | none | parse, serialize | defaults that are left out; `ZOrder` re-sorts children while tab orders are partly explicit |
| Form model and document | `src/model/ordinary_form.cpp`, `include/oof/model/ordinary_form.hpp` | the form; an index of its objects; run-time state of window, calendars, list boxes; live value lists | `create`, `validate`, `form_item_refs`, `get_prop_val`, `set_prop_val`, `reset_prop_val`, methods of collections | long sequences of legal calls; two validators of one tree |
| Metamodel | `src/model/metamodel.cpp` | static tables | look-ups | its defaults and those of the codec must agree |
| Metadata context and its XML | `src/metadata_context.cpp`, `src/source/metadata_xml.cpp` | catalogue of types and members | create, resolve names and keys | the two directions must agree |
| Schema generator | `src/source/schema_generator.cpp` | none | prints an XSD | none: output only |
| Tools, schemas, tests, examples | `src/tools`, `src/schemas`, `tests`, `src/examples` | | probes, XSD, tests | not part of the program |

Interactions: the commands call the codecs one after the other and hand every
output of a command to one `write_file_set`; `save_form_bin` calls
`load_form_bin` on its own result; the codecs call `FormDocument`'s validation;
value lists are shared objects that several documents may bind.

For each component, what makes it correct:

- *transaction*: an ordinary failure has changed nothing; success has installed
  everything; whatever happens the old bytes of an output are somewhere until
  all outputs are in; a refused output is never touched; nothing is left behind
  by a run that says nothing is; every run ends with an exit status.
- *commands and Form.bin*: what builds loads again; a module survives dump and
  build; building settles; no command loses a module it was not told to lose.
- *container*: the reader accepts exactly the well-formed files within the
  budget, gives exactly their documents' bytes, holds no more than the file,
  and ends; what the writer lays out is accepted and read back byte by byte.
- *list stream*: a value survives being dumped and parsed, in both layouts; a
  reader that mirrors the writer gets the same elements; strings survive
  quoting, in one pass over the text, with no text on which two branches of the
  scanner compete.
- *document*: `validate` and `form_item_refs` accept the same documents, those
  whose items are a tree; operations leave a valid document valid, up to three
  that are known; one default button; an asset lives as long as something
  refers to it.
- *records of controls*: decoder, encoder and metamodel agree on every property
  of every kind: what `dump` accepts `build` accepts, what was dumped without a
  warning is built as it was, and what Form.xml leaves out changes nothing.
- *data of controls and values*: they come back as they were, and what one form
  of a value admits the next one does.
- *placement*: changing the display order keeps the tab order and the reverse;
  one default control per group; what the encoder accepts the decoder restores.
- *value lists*: a selection is always a live row of the bound list or nothing;
  a removed row never comes back to life; rows that stay keep their references.
- *charts*: ids are never given twice; cells and selection stay with their
  elements through any resize and any save and load; the budget holds.
- *metadata*: the names of a dumped path lead where its keys led; a dumped path
  builds into the link and the type it came from, with or without metadata.
- *calendar*: the list of spans is a set of days under every mode.
- *window*: assignments act on one permission only; unreported assignments
  leave the window consistent; opening the form freezes what was computed.

`PROJECT.json` lists 40 hazards at their lines, each with the properties that
cover it.

## 2. Modules

| Module | Models | Code |
|---|---|---|
| `OutputTransaction` | `write_file_set`, `write_staged_file`, `check_output_file`, one action per system call | `src/cli/main.cpp:280-492` |
| `AtomicPackage` | abstract: a run replaces all files of a package, or none | the promise of `docs/ordinary-form-target-contract.md:347-350` |
| `OutputTransaction_proofs` | theorems about the transaction | |
| `ContainerReader` | `parse_container`, `read_document`, on files with any block headers | `include/oof/storage/form_bin_container.hpp:15-371` |
| `ContainerWriter` | `serialize_container`, `append_document`, `append_block` | the same, `:374-491` |
| `ContainerRoundTrip` | what the writer lays out, given to the reader | |
| `Container_proofs` | theorems about the reader, and about the two together | |
| `ListText` | values, tokens, the two dumps | `include/oof/storage/list_stream.hpp` |
| `ListParser` | `ListParser`: its recursion as a stack of open lists, one action per kind of token | the same, `:259-356` |
| `ListRoundTrip` | calls of `ListOutStream`, dump, parse, mirrored calls of `ListInStream` | the same, `:401-601` |
| `QuotedString` | `quote_string` and the string branch of `tokenize`, one action per branch | the same, `:52-257` |
| `FormFiles_proofs` | theorems about strings (`QuotedString`) and the package (`FormPackage`) | |
| `FormPackage` | `dump_form`, `build_form`, `load_form_bin`, `save_form_bin`; users and other tools in between | `src/cli/main.cpp`, `src/form_bin.cpp` |
| `PanelPlacement` | page, `ZOrder`, `TabOrder`, `DefaultControl`, `SeparateByPage` of one panel; `ZOrder` of the XML; positions in `Form.bin` | `src/model/ordinary_form.cpp`, `src/source/form_xml.cpp:3236-3302`, `src/storage/form_stream.cpp` |
| `PanelPlacement_proofs` | theorems about placement | |
| `FormDocument` | documents as collections of objects: index, `validate`, `form_item_refs`, default buttons, references, pictures of captions | `src/model/ordinary_form.cpp:1664-1760`, `2935-2957`, `3288-4613`, `4782-4844` |
| `ControlRecords` | slots and codes of the record of a control, what all kinds share, types of data paths | `src/storage/form_stream.cpp:1522-2142`, `8757-8865` |
| `FieldKinds` | decoder and encoder tables of the kinds that keep one property to a slot | the same, `decode_X`, `encode_X` of 17 kinds |
| `DataKinds` | input field, table with its columns and the packets of their editors, roots of spreadsheet, dendrogram and Gantt chart: tables and the rules between slots | the same |
| `PropertyDefaults` | which properties a kind has, their defaults, and the values that `set_prop_val` applies | `src/model/metamodel.cpp`, `src/model/ordinary_form.cpp:249-592` |
| `ControlRoundTrip` | dump, edit, Form.xml and build of one control of any kind | `src/storage/form_stream.cpp`, `src/source/form_xml.cpp` |
| `SpreadsheetCells` | cells of a sheet with the tables of formats and types behind them | `src/storage/form_stream.cpp`, `src/source/form_xml.cpp` |
| `LinkedRows` | items and links of a dendrogram, points, series and intervals of a Gantt chart: chains of rows | the same |
| `ChildGeometry` | the controls of the form or of a panel: rectangles, bindings and what depends on them, pages, places, tab orders | the same, `2424-2840`, `3222-3234`, `13442-13505`, `13730-13791`, `14394-14445` |
| `Menus` | items of command bars and of the menus of buttons: table of actions, groups, default item, standard actions | the same, `1758-1837`, `4525-5004`, `src/model/ordinary_form.cpp:3848-3909` |
| `PlatformValues` | colours, fonts, borders, texts in several languages | `src/storage/value_codec.cpp`, `src/storage/form_stream.cpp` |
| `TypedValues` | descriptions of types; trees of values with their limits | the same, `src/source/form_xml.cpp` |
| `ControlData` | the codecs above behind one set of operators, and what counts as the same value; dump, Form.xml and build of any of the data and values | the same |
| `ValueListIdentity` | shared value lists, identities of rows, `CurrentRow` | `src/model/ordinary_form.cpp:1147-1420`, `2060-2110`, `2580-2620`, `3140` |
| `CalendarSelection` | selected dates under three modes | `src/model/ordinary_form.cpp:116-240`, `1440-1560` |
| `SelectedDays` | abstract: a set of days | |
| `WindowState` | `WindowState`, `ConnectableWindow`, five run-time permissions | `src/model/ordinary_form.cpp:1335-1360`, `2500-2561` |
| `DocumentState_proofs` | theorems about the window, value lists and calendars | |
| `MemberPaths` | `MetadataContext`: what it accepts, its loop by names and by keys; a control's path through `dump` and `build` | `src/metadata_context.cpp`, `src/storage/form_stream.cpp:112-177`, `12882-12927`, `13593-13649`, `src/source/form_xml.cpp:2082-2134` |
| `MemberPaths_proofs` | theorems about it | |
| `ChartCollections` | series, points, cells, trend lines; what saving and loading keep | `src/model/ordinary_form.cpp:4613-4780`, `src/storage/form_stream.cpp:7594-8353`, `src/source/form_xml.cpp` |
| `ChartCollections_proofs` | theorems about charts | |
| `DataInduction` | induction over numbers and finite sets, for sets instead of predicates; sums over finite sets; joined sequences | |
| `MC...` (8) | the inputs and the part of the state space TLC looks at | |

The lines of every definition are in `PROJECT.json` under `map`.

## 3. How the modules correspond to the code

`OutputTransaction`. `write_file_set` is three loops, a rollback and a clean-up;
`pc` names the system call that comes next and `w` the write it is for, so that
`stage_write` is the write into the staged file of `w` and `undo_rename` the
rename of a backup over its output. `staged`, `backup`, `installed` and
`backedUp` are the four flags of a `PendingWrite`. The disk is `out` (what is
at the path of an output), `stagedFile` and `backupFile`. `Scrap` stands for
the bytes of a half-written file. Every call has an action in which it succeeds
and one in which it throws or sets its error code. `Kill` may happen anywhere; `Restart`
begins the next run on the disk as it is, with new contents to write. The
contents of a file are an identity (the run and the write they come from), as
no property looks into them.

`ContainerReader`. A file is a function from offsets to block headers; a header
says the length of the document, the length of the block and the offset of the
next one, and says anything. The state is that of `read_document`'s loop: current
offset, visited blocks, bytes gathered, and the budgets shared by all
documents of the file. The abstract side (`ReadingIsRight`) says which files
are containers without any loop. `ContainerWriter` is a layout function;
`ContainerRoundTrip` gives its result to the reader and compares what comes back with
the package it was made of.

`ListText`, `ListParser`, `ListRoundTrip`. Tokens are records, atoms model
values; one action per call of the writer, then the dump, one action per
token parsed and one per call of the reader. The recursion of `parse_value` is
a stack of lists that are still open. `QuotedString` is the string branch of
the tokenizer over symbols (quote, backslash, the halves of surrogate pairs,
other), compared with what the text denotes by the rules.

`FormPackage`. The variables are the sources on disk (form, module, pictures)
and `Form.bin`. Module texts are sequences of symbols (signature, CR, LF,
other) because line ends are what the conversions are about; forms are model
values in one of five classes, by which of the four codec functions accept
them. A user may edit the sources and another tool may write `Form.bin`.

`FormDocument`. A document is a record of sequences, one for each collection of
the code, and an object a record with the fields that `validate` and the
operations look at. `Build` is `create`: it takes a document as a reader
assembled it, whole or broken, and rebuilds `index`, whose first object of an
id wins. `Violations` is `validate` as a set of the codes of its diagnostics
(the order and number of the messages is left out), `FormItems` is the walk of
`form_item_refs`. The operations are the branches of `set_prop_val` and
`reset_prop_val` on which those depend: default buttons with the menu items of
command bars, references to action sources and menus, pictures with the
collection of assets, the two properties that `validate` compares with others.

`ControlRecords`, `FieldKinds`, `DataKinds`, `PropertyDefaults`. The record of a control in `Form.bin` is a nested list of
several hundred fields. The model keeps the positions from which a property is
read as numbered slots, and one slot `Rest` for all others together: it holds 0
if they are as in the canonical record the encoder starts from. A value is an
integer: the code of an enumeration, No and Yes, or, for texts, colours and the
like, one code for the default and one for any other. Each kind X has three
tables, translated from three places in the code:

- `XReads`, from `decode_X`: position, codes that are accepted, code that is
  not made explicit;
- `XWrites`, from `encode_X`: codes that are accepted, code that is written
  when the property is not explicit;
- `Default("X")`, from the metamodel: which properties there are, and the
  default that Form.xml leaves out;

and where its positions in the canonical record differ, `XInfo`. A fourth set of
operators per kind has the rules between slots: what the decoder requires of
copies (`Agree`), what several slots mean together (`Meant`), what it reports
(`Excess`), what the encoder requires between properties (`Sound`) and writes
into slots that are no property (`Copied`).

`ControlRoundTrip` is the life of one control on these tables: `Dump`, then
`SetProperty` and `ResetProperty`, `ThroughXml`, `Build`, and the two refusals. An
edit sets what `set_prop_val` does: a value of `Applied`, which is the opinion of
`property_value_matches` and not that of the encoder, to a property that is
there for the type of the field (`Available`), and what goes with it (`Implied`). The
record at the start is one that another program may have left: a canonical
record with known or unknown codes in any two slots, so that every pair of
slots a decoder compares is reached.

`SpreadsheetCells`, `LinkedRows`, `ChildGeometry`, `Menus`, `PlatformValues`,
`TypedValues` are pure: for each kind of data or value, the condition under which the reader of a
record accepts it, the value in the model, the condition and the record of the writer,
and the same four for Form.xml. `ControlData` passes one of them through the
steps. A sheet is cells with a reference to a format, a format with a reference
to a type, a type; rows of a dendrogram are records with a key and the key of
the next; those of a Gantt chart have an order, identifiers and colours out of a
palette. In `ChildGeometry` a binding is an edge and one or two ends in the model;
in `Form.bin` it is in a slot of the control, with the owner as target 0, and once more for each
end in one of four lists of the target, a centre sharing the list of an edge. `Dependencies` is
the loop that both `decode_child_table` and `encode_owner` have, and what the
decoder compares with the lists (`SameIncoming`). Which control is on which page and place is in
the records, which come in any order. In `Menus` an item of the tree is a record; in
`Form.bin` it is an action in one table and an entry of a group, a submenu one more
group, found through their numbers; `Reached` is the walk of `visit` as a fixed point. A
text is there, absent, the platform's own or in two languages; tool tip, explanation,
picture and shortcut are the set of those that are present (`parts`). Heights of fonts are in tenths, so that a height without an exact
record can be said. Characters of a text are `CR`, `LF` and any other; types are
tokens, an identifier and qualifiers; a tree of values counts its nodes as the
code does, value by value in `Form.bin` and all together in the model and in
Form.xml.

`PanelPlacement`, `ValueListIdentity`, `ChartCollections`, `CalendarSelection`,
`WindowState`. One action per operation of the form model that touches the
state in question, with its checks in the order of the code; an operation that
the code refuses (returns diagnostics) leaves everything unchanged and is
therefore a guard. In `ValueListIdentity` the number of an identity stands for
the shared object the code allocates and a weak reference to it; a reference
that is detached and one that has expired answer the same in the code. Passing
through `Form.bin` or XML and back is one action that maps the state by what the
encoder writes and the decoder restores.

`MemberPaths`. One control is bound to a root attribute whose type is fixed;
metadata is a pair of lists of descriptors, as `create` receives them, and every command
may be given other metadata. A turn of the loop of `resolve` is an action
(`Follow`); `found` holds the indices of the descriptors. The three kinds of
control are those whose record stores the type of the path, those that imply
it, and those that do neither. `Ask` is `resolve_names` as
`resolve_data_path_type` (`src/model/ordinary_form.cpp:1320-1333`) calls it, for paths without a
type of their own; the codecs of the first two kinds ask for that type themselves. A numeric key of a standard member is written
as its name (`catalog_standard_members` is a bijection).

The `MC` modules say which inputs are tried (the transaction and the placement need
none: a `.cfg` says it all). Where a module has several
dimensions that do not influence each other the `MC` module restricts the
state space to a union of regions, each full in some of them
(`MCChartCollections`, `MCDocumentState`, the kits of `MCDocumentStructure`).
`MCFormFiles` (package, lists, strings), `MCDocumentState` (window, calendar,
value lists) and `MCControlRoundTrip` (records, data and values) compose
components that share no state, and keep the others at their start while one
works: interleaving them would only multiply states.

## 4. Runs

| Run | Question | Bounds | Why enough |
|---|---|---|---|
| `transaction` | Does `write_file_set` keep its promises when any call fails and the process is killed and started again? | 2 writes, 2 files, 2 runs; every call may fail | two writes reach every position relative to a failure (done, in progress, not begun); the invariants proved hold for any number |
| `transaction_deletion_errors` | Is every temporary file left behind reported? | 1 run | violated, see below |
| `container` | Does the reader accept exactly the containers, and what the writer lays out? | 8 bytes; blocks at 1, 3, 5; packages of at most 3 files; 10 block visits | chains that merge, loop, overlap the TOC and leave the file all fit; three chunks are the first case where a chain has a middle, and the largest packages have 11 blocks |
| `document_state` | Do the spans of a calendar implement a set of days? Do permissions of a window stay local and consistent? Is a selection always a live row of the list that is shown? | 4 days, 2 times of day; all window states; 2 lists of at most 2 rows, or 2 documents with 2 boxes and one row | a span can be cut at both ends and inside, with a gap of one day; the window has no parameter; exchange, reorder, removal with re-adding; sharing between documents |
| `document_structure` | Which documents do `validate` and `form_item_refs` accept, and what do operations do to a valid one? | kits of two or three controls, one page or two, a command bar with a menu of two levels, two assets, a command, two events; every choice of up to three references among them | a second parent, a cycle, an orphan, a child of a child and a page in a page need three objects and a panel; an asset with two referrers, two assets |
| `control_records` | Do decoder, encoder and metamodel agree on 23 kinds of control? Do data and values come back? | see below | see below |
| `form_files` | Does any sequence of dump, build, edits and foreign files keep form and module? Does a value survive dump, parse and mirrored reading, and every string its quotes? | 5 forms; module texts of 2 symbols and the longer ones where line ends and signatures meet; 7 calls, 5 atoms, depth 2, 10 tokens; texts of 4 symbols | the conversions look at most at two neighbouring symbols; the empty list, an empty slot, base64 before and after a sibling and a limit reached in the middle of a value need at most five calls; an escape needs two symbols, a pair two escapes |
| `form_package_idempotence` | Is save, load, save idempotent? | the same | violated, see below |
| `panel_placement` | Are display order and tab order independent, and one default per group? | 3 controls, 2 pages | a move between two others needs three; groups need two |
| `panel_display_order_xml` | Does reading a `ZOrder` from XML keep the tab order? | the same | violated, see below |
| `metadata` | Do the names of a dumped path lead where its keys led, and does it build again? | 2 objects, 2 types, 2 members in every arrangement of owner, name, key and type, accepted or not; paths of at most 2 members; 3 kinds of control | the second member of a path is the first whose owner depends on the turn before; two members are what a clash needs |
| `charts` | Do ids, cells, selection and trend lines survive every resize, save and load? | budget of 8 cells, ids up to 4, trend numbers up to 3; one chart with any ids or two small ones | growing after shrinking, ids out of order and a budget used up by the other chart are all reached |

Bounds of `control_records`: records with any two slots changed (every rule of
the code is between two slots, or between slots that change together as a copy
does, and those are among the canonical records the change starts from);
controls with up to 3 explicit properties (2 for `Table`, which
has most) and one that another sets along with itself. A property takes every
value that `set_prop_val` applies: all members of an enumeration, the integers
-1, 0, 1, the default and the next one (of a table also those about 8 and 16 bits),
one colour, font or border that is the default, one other, and one that
no control can be given. Sheets of up to 2 cells with one or two places changed; dendrograms of up
to 4 items and 3 links, whose chain may branch, circle, end early or leave the
rows; Gantt charts of up to 3 points with a palette of 2 colours, so that the
third wraps. Up to three controls on two pages of the form or of a panel: every
binding of one of them to every end, pairs of bindings, two edges in one list, every numbering
of places and tab orders, rectangles at both ends of an int32 (`MaxCoordinate` = 3). Menus of
up to six items in any shape up to `MaxMenuDepth` = 3 (256 in the code) and one beyond it, every
field of one item and of two; standard actions in every context and for sources up to and beyond
`LargestSource` = 2. Both as the encoder writes them, in another order, and
with a record, entry, group or reference changed. `LastIndex` = 3 and `LargestId` = 8 stand for the limits of
uint32, `MaxTexts` = 2 for 65 536, `MaxDepth` = 3 for 64 and `MaxNodes` = 7 for 1 000 000: each is
reached and passed, and two values together pass a limit that neither passes
alone. Texts have up to 4 characters, which has every neighbourhood of a line
end; colours, fonts and borders take every kind with values in and out of range in
every field. Types come alone and in pairs; values in every collection, two at
a time.

`Permutations` symmetry is declared only where all properties are safety
properties and the permuted constants are not told apart by definitions.

Three runs end in a violation, each of one property that states what the
repository says of itself:

- `DeletionErrorReported`: the error of removing a staged file whose writing
  failed is dropped (`src/cli/main.cpp:411`); the contract document says
  such errors are reported.
- `SaveLoadSaveIdempotent`: loading and saving take a signature and line ends
  apart in two places that overlap (`src/form_bin.cpp:157`), so a module that
  begins with two signatures, or has CR CR LF, changes once more; a test says
  save/load/save is idempotent.
- `ReadingKeepsTabOrder`: `parse_child_items` counts implicit tab orders on a
  page when the group is all pages (`src/source/form_xml.cpp:3284`); the
  contract document says a `ZOrder` keeps the tab order of every element.

Properties worth explaining:

- `AtomicReplacement` (refinement): a run that is not killed, seen through
  `AtomicPackage`, replaces all outputs at once or none; a rollback that itself
  fails, or a kill, is the abstract `Breaks`, which loses nothing.
- `LastCopyOnlyAfterInstall` (action property): no step removes the last copy of old
  bytes unless all new ones are installed.
- `ImplementsSelectedDays` (refinement): the list of spans, under a mapping that
  unites them, is the set of days of `SelectedDays`.
- `ReadingIsRight`: result of the reader = what the chains of the file say,
  defined without loop, budget or order of visits; and it never holds more
  bytes than the file.
- `SelectionIsLocal`, `AssignmentIsLocal`, `ElementsKeepTheirs`: what an operation
  on one object may never do to another.
- `ItemsAreATree`: `validate` counts parents and looks for cycles from every
  node, `form_item_refs` walks down from the form. Both are compared with the
  definition of a tree, on every document of the kits.
- `EditsKeepTheForm`: operations check their argument, `validate` the whole. On
  a valid document three operations may leave an invalid one, all by setting a
  property that `validate` compares with another: `Secondary` of a command
  bar one of whose items is the default button, `TypeLinkItem` without a link,
  `ListChoiceMode` of a control with an extension. The property says that there
  are no others.
- `CaptionAssetCollected`: a caption that changes takes its asset along, unless
  another object, the menu items included, refers to it; and the index is what
  a rebuilt one would be.
- `UnwarnedIsLossless` (action property): a record that was dumped without a warning is built
  again slot by slot. `Forgotten` names the slots for which the code is content
  with less: the state of a button, the second picture size of a label,
  caches of the type of an input field, view of a sheet, layout of a Gantt
  chart, two widths of a column. They are read, checked, and written anew from
  the other slots, so that a record of another program may change there in
  silence.
- `ControlCanBeBuilt`: whatever `dump` accepts `build` accepts, and still does
  after edits with any values that `set_prop_val` applies, except those
  of the properties in `Unchecked`. For these `property_value_matches` lets pass what the
  encoder refuses with OOF1122: a data path of another type, colours, fonts and
  borders of no control, `HorizontalAlign` of a button (`Justify`, `Auto`) and a
  label (`Justify`), the integers of a track bar (`Step` = 0, `MinValue` = -1),
  1 January of the year 1, which stands for none, for the displayed period of a calendar. Each exception is needed:
  without it the run finds a control that was edited and cannot be built. Of the kinds in
  `CrossRuled`, whose encoders have rules between properties, the first half
  only.
- `XmlKeepsTheRecord`: the metamodel's default, which Form.xml leaves out, and the encoder's,
  which it writes, are two tables of some 360 and 400 entries.
- `DataComesBack`: all of that for data and values, as equality of what they
  mean. One value is an exception, `TooPreciseForXml`: a number type with more decimals than
  digits is accepted by the decoder, the model and the encoder, and refused by the
  writer of Form.xml only.

What the properties admit because the code does it, without a report:

- a text whose property folds lines loses, at every dump, one CR of those in front of an
  LF (CR CR LF becomes CR LF);
- colours of version 3, fonts of version 6, states and factories of borders and
  the reference of a splitter's border are rewritten in the present form;
- a fixed string of length 0 becomes a variable one; names of types are not in
  `Form.bin`; the entries of a map come back sorted;
- the text the platform made for an item of a menu without one is dropped, and
  a stored default item is forgotten when the header of the form names another control;
- the tables of formats and types of a sheet, the keys of a dendrogram and the
  order of rows of a Gantt chart are numbered anew.

A value of unknown type in a chart becomes `Undefined`, the dependence of a
command bar's bottom on its own top is dropped, and so are the other fields of a menu item that
have no property: these are reported.

## 5. Fairness

Two runs check liveness. `RunEnds` is under weak fairness of `Advance`, the
disjunction of all steps of a program that is running: the system runs a process
that is not killed, and a system call returns. Nothing is assumed of `Kill`,
`Restart` or of the success of calls. `ReaderEnds` is under weak fairness of
the reader's steps: a sequential loop goes on until it returns. All other
components are passive: their operations happen when a caller calls, and no
liveness is claimed.

## 6. Proofs

`OutputTransaction_proofs` proves, for every number of writes, files and runs
(`OutputAssumption`: at least one run, `Absent` and `Scrap` not contents):

- `Invariance`: `IInv` is an invariant. The properties are not inductive on
  their own: that a failure has restored the outputs depends on what every
  flag says of the disk at every call before it. `IInv` has, beside `TypeOK`:
  the loop bounds (`Index`); which part of the function belongs to which
  outcome (`Control`); that the preflight has made the targets different
  (`TargetsDiffer`, `TargetsChecked`: without them two writes could undo each
  other's outputs); that files which are nobody's target are untouched
  (`OthersKept`); how far installation has come (`Progress`); what staged and
  backup files contain (`StagedFiles`, `BackupFiles`); and, for the write in
  hand, those before and those behind it, whether the disk is as the flags
  record or already undone (`Stages`).
- from it `TypeCorrect`, `FailureRestores` and `SuccessInstalls` (together
  `OutcomesAreTrue`), and `OldBytesStay`;
- `NothingLeft`, with `CleanInv`: every temporary file has its flag set but for the one
  being written (`Tracked`), and the clean-up loop is done with all writes
  before the one in hand (`Sweeping`), unless a removal failed or the run says it
  keeps backups;
- `LastCopyStays`, the action property, one case for each call (`CopyKept`): what a call
  removes or overwrites is a new file, a backup that was never filled
  (`UnfilledBackup`), or a copy of bytes that are elsewhere too;
- `Replacement`: the transaction implements `AtomicPackage`. Seen from there the
  package is what is on disk once all is installed (`Committed`) and, before
  that, what can be recovered from outputs and backups. That this is the package
  as it was needs `Recovery` (what an output held is in its backup, or in place,
  or was nothing) and `Known` (an output never holds anything but its old bytes, its new ones or
  none), an invariant on top of `IInv`. `RunRefines` has the steps of a run, `RestartRefines` the
  next run.

`Init` and each of the actions have a lemma of their own; `StepKeeps` combines
them; the temporal theorems are one PTL step each.

`DocumentState_proofs` has three parts. Of the window it proves, whatever distinct values stand for the states
(`WindowAssumption`): `TypeCorrect`, `UnreportedConsistent` from
`WInv == TypeOK /\ (~reported => Consistent)`, where `Consistent` is needed also
between operations, when the frozen permissions are stored; and
`AssignmentsAreLocal`, the action property.

`MemberPaths_proofs` proves, for metadata, paths and links of any size
(`PathAssumption`: the kinds of values are told apart): `Invariance` of `IInv`, and from
it `NamesAgreeWithKeys` and `DumpsAreRebuilt`. That a later command repeats a dump
is a statement about two runs of the loop, so `IInv` has to follow it turn by turn: metadata in use was accepted
(`Usables`), drafts are links (`Drafts`), every descriptor found belongs to the owner the one before
leads to (`Steps`), what a dump found under its metadata is still a way
through it (`Kept`), a build of a dumped path decodes the link of the dump
(`Rebuilding`), and its turns, and those of a resolution by names, find the
same descriptors as far as they have come (`SameWay`). The last needs the uniqueness of names and
keys per owner that `create` checks: with it a turn has one candidate.

Of value lists it proves, for any lists, documents, boxes and number of
identities: `ListsInvariant`, and from it `LiveRow`, `References` (a reference
follows its row and no other, and does not come back) and `Locality`. The
invariant adds `Registered` to the types: an identity that a list has registered was made for that list and that
row id, the row is there, and it holds what the identity remembers. Rows are
found by id, and `Contents` says that ids in a list are distinct, as the code checks.

Of calendars it proves, for a calendar and a day of any length:
`CalendarInvariant`; `SpansImplementDays`, the refinement of `SelectedDays`; and
`EveryDayIndexed`. The invariant `CalendarInv` says that spans are not empty, carry one
time, share no day, follow on one another without a gap in the mode `Interval`, and are none
if nothing is set. The refinement needs of every operation on a list of spans which
days it leaves selected, merging and cutting included. The count of days is a
recursive function of the code (`CountTo`); that it exists, and counts, is
proved by induction over the list.

`ChartCollections_proofs` proves, for any finite number of charts and any budget
and limits of ids and trend line numbers (`ChartAssumption`; the charts of a
form when it is first read are records of the right shape, and `Init` takes the
valid ones): `ChartsInvariant` of `CInv`, from it `ChartsValid`, `TrendlinesStayDeleted` and
`ElementsKeep`. `ChartsStayValid` is inductive once the shape of the records is
added; the other two are not: that an id is fresh needs `UsedUpToLast`, the
history covers all there ever was, and that a deleted trend line stays deleted
needs `GoneBelowNext`, its number is below the next one of its series, or the
series is below the last one given and gone with it. The argument is the same
for every operation that makes the chart `d` of `c`: `Keeps(c, d)` (history,
ids, cells, mode), `KeepsTrends(c, d)` and `KeepsSelection(c, d)` hold, and
`InstallStep` and `ReloadStep` derive the invariant and the action property from these three.
The budget is a sum over charts of sums over series, so a step needs that a sum over a
finite set changes by what one member changes: `TotalStep` and `TrendCountStep`.

`Container_proofs` proves, for files of any size with any block headers and for any
number of logical files (`ContainerAssumption`: the images are what the reader can tell of a
file, the end marker is no offset), `ReaderInvariant` of `RInv`, and from it `Reader`,
which is `ReadingIsRight` in both directions. `RInv` says of the document in hand that there is
a number of blocks m such that the offset to read is the m-th hop of its
chain, the visited offsets are the hops before, and the payload is the prefix
of their bytes that the document declares (`Walked`, `RWalk`); of the documents
behind that they are what a container's are (`Behind`) and are returned (`RFiles`); and that
the bytes held and still allowed, and the block visits made and left, add up to
those of the file (`RAccounts`): that the reader holds no more than
the file needs these sums. That no container is refused (`RFailed`) rests on three facts:
a chain that ends has one length (`EndsOnce`) and comes to no
offset twice (`NoReturn`: else it would go round for ever), so the next block
of a container is a new one inside the file (`WalkGoesOn`); and what the
documents of a container need, up to any of them, is within file and budget
(`Needed`). TLC has checked `RInv` on a part of the images of the run. Chains and
their bytes are recursive functions: that they exist is `RecursionExists`.

The same module proves `WrittenIsRead`, which is `ReadsWhatWasWritten`, for any packages of any
number of files of any lengths and for any sizes of headers, chunks and TOC block
(`RoundTripAssumption`: headers and chunks are not empty, and a descriptor has the bytes
that `file_descriptor_payload` always writes). It follows the writer first. `Grown` says of the
data after k blocks of a document that the hops are the offsets of their headers, that the positions gathered along them hold
the first bytes of the document, and how far size and number of headers have grown; `GrownStep` adds a
block. The offset a block names as its next is computed, not measured: that it is where the next block is put
(`ManyBlocksAre`) needs that all chunks but the last are full. What is written stays (`Extends`), so at the end every document is still
`Placed`, and the TOC covers no header as long as the entries fit (`SerializedIs`). Then the
reader: its chain is that of the writer's hops (`PlacedIsDocument`), and sums over the documents, taken in the order of
writing (`SumAlong`, `Label`), stay below the size and the number of blocks. So the image is `WellFormed`, and `RInv`
does the rest. With too many files the TOC is not a document (`TocIs`), and nothing is returned.

`DataInduction` has what the calendar, the charts, the container, the package and the panel need of induction. The library's theorems about
induction take a predicate as a parameter; `Induct` and `FiniteInduct` take a set
instead (a set that holds 0 and n + 1 with n holds every number; one that holds
the empty set, and a set with all it has less one element, holds all finite
subsets), which the provers can instantiate. `SumStep` is proved with it from the
definition of `SumFunctionOnSet`, whose `CHOOSE` picks elements in an unknown order: the recursive
function exists, is unique, and does not depend on that order.

`FormFiles_proofs` proves, for texts, modules and files of any length:

- `StringsComeBack`, of a string that is read back as it was written, for every text after an
  opening quote (`StringAssumption` says no more of the texts than that they are
  made of symbols). `StringInv` says that the second scanner is where the
  writer's text of the first value ends to be read: the text is `Quoted` symbol by symbol and a
  closing quote, so what is read is a prefix of the value (`ScannerFollows`).
- `CycleKeepsTheModule`, `BuildingSettles` and `ModulesAreNotDropped`, from `PackageInv`: after a
  build `Form.bin` is what the package gives and loads; after a dump, until the next edit, the
  package is what the dumped file gives; and if the package was built from a file it had been dumped from, they are equal
  as soon as the module is `Plain`. The conversions of line ends are joins of
  pieces, one per symbol; `DiskToMemory` and `MemoryToDisk` follow them symbol by
  symbol: a text with CR LF line ends, read, is the text they were made of, and
  the other way round, unless a carriage return stands before one of them. That
  loading leaves no such pair (`MemoryIsApart`) is why it settles at once.

`PanelPlacement_proofs` proves, for any finite number of controls and of pages
(`PlacementAssumption`): `DefaultsStayUnique`, `PlacementIsSaved` and `OrdersStayIndependent`.
The invariant `PanelInv` is that every control is on one page, once. A group is then
a page or the pages joined (`AreaIs`, `GroupIs`): an enumeration without repetition, in which
places and tab orders are what `OrderIs` says, so that moving, sorting and saving are
rearrangements (`MovedRow`, `RestIs`, `StoredIs`); that an explicit order of
a group is a permutation is that no two controls have one (`OrderedWhen`).

Only model-checked: liveness (`RunEnds`, `ReaderEnds`; fairness and `ENABLED`
are out of reach of the provers used); the list stream and documents. What `ControlRoundTrip` and `ControlData` say
has no parameter to generalise over: it is a statement about finite tables and
bounded data, and TLC looks at all of them.
Definitions by recursion over values (the dumps, trees of values) are checked by TLC on bounded
inputs: their modules use recursive operators, for which there is no prover.

## 7. What is not modelled, and why

- *Rest of the form stream codec*: the walk of `decode_document` and
  `encode_document` over owners and ordinals (except positions and links to
  members), groups of several radio buttons, events and commands, attributes,
  the record of the form and of panels, the appearance of charts. `Menus` and
  `ChildGeometry` look at one control and one owner; what pictures and shortcuts of menu items hold,
  and `ZOrder` and default controls, are left to other modules or out.
  The columns of a value tree and what else lies under `Rest` of a table are
  not told apart.
- *Rest of the value codec*: shortcuts, lines, composite identifiers,
  formatted strings and presentations; numbers and dates as text. Fixed
  collections and marks of value lists go along unchanged.
- *XML grammar*: how an element or attribute is spelled. The models have
  attributes as fields and say which are left out and what is read in their place.
- *Types of properties*: that `set_prop_val` refuses a value of another type is a table.
- *Schema generator, results and diagnostics, tools, tests*: output without
  state; diagnostics appear as outcomes.
- *Metamodel*: events, methods, types and the tables of kinds not in `ControlRoundTrip`.
- *Other processes changing the package during a run*: the contract document
  excludes it (`docs/ordinary-form-target-contract.md:376-377`). A kill is
  modelled, loss of power with reordered disk writes is not.
- *Offsets above 4 GiB*: files are limited to 64 MiB before they are read.
- *Numeric values of limits* (nesting, tokens, cells): constants with small values.
- *More files than a TOC block has room for*: the writer of the real program always writes two;
  `ContainerRoundTrip` shows where room ends (`TocFits`).
- *The reader's cycle check alone*: without it the budgets refuse the same files,
  so no property tells the two apart; the budget is what is checked.
- *Chart surfaces the codec refuses*: a guard that rejects such charts before any
  of the modelled code.
- *`SeparateByPage=false`*: joining the groups of two pages may join two default
  controls; the code allows it and the encoder refuses the form. `DefaultStaysUnique`
  excludes that one step.
- *Reader of configuration XML (`metadata_xml.cpp`)*: planned; `MemberPaths` starts from
  what `create` is given. The zero or malformed UUIDs that `create` refuses are
  not UUIDs of the model, and its limits of 100,000 types and 1,000,000 members
  are left out. Metadata members with numeric keys can be declared through the
  library only and are never resolved by `decode_document`, which asks for
  metadata when all keys are UUIDs.

## 8. Plan

Done: the modules above. What comes next, most important first; each part joins an existing run
by composition in its `MC` module where the components share no state.

1. `FormCodec`: `decode_document` and `encode_document` (`src/storage/form_stream.cpp:13098-14688`)
   as a walk over the tree of owners: attributes, links that are used once,
   ids given to pages, events and pictures, the table of context menus,
   slot counts, self-verification. Abstract specification: a partial function and its inverse.
2. Events: bindings of controls and commands (`src/storage/form_stream.cpp:3304-3660`), the
   members of menus that events name (`DecodedMenu::paths`).
3. `RadioGroups` (`6402-6663`): groups of several buttons, whose first member
   stores what all share; the record of the form and of panels (`2896-3193`).
4. `TypeSets` (`src/source/metadata_xml.cpp`): the memo, the depth and the budget of nested type
   sets, compared with their meaning; `parse_metadata_context` in front of `MemberPaths`.
5. The appearance of charts, as one more table of slots.
