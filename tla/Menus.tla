---------------------------------- MODULE Menus ----------------------------------
(* The items of a command bar and of the menu of a button.  The model has a    *)
(* tree; Form.bin has a table of actions, the last item first, and a group     *)
(* for each submenu that names the items in it, and refers to the default item *)
(* and to other command bars by numbers of its own (encode_button_menu,        *)
(* decode_button_menu and decode_command_bar).                                 *)
EXTENDS Integers, Sequences, FiniteSets, SequencesExt

CONSTANTS
    MaxMenuDepth,   \* of submenus in submenus (256)
    LargestSource   \* of the controls a standard action may be for (int32)

ItemKinds == <<"Action", "Submenu", "Separator">>
Representations == <<"Auto", "Text", "Picture", "PictureText">>
ItemOrders == <<"DontOrder", "Ascending", "Descending">>
Variants == (0 :> "Version8_0") @@ (2 :> "Version8_2_OrdinaryApp")

Number(names, name) == (CHOOSE i \in DOMAIN names : names[i] = name) - 1

FormSource == 2 * LargestSource + 1     \* the largest uint32

Handler == <<"handler">>

-----------------------------------------------------------------------------
(* Trees of items.                                                             *)

RECURSIVE SizeOf(_)
SizeOf(items) == FoldLeft(LAMBDA n, item : n + 1 + SizeOf(item.items), 0, items)

\* Items have their numbers in preorder; "first" is that of the first one.
IdOf(items, i, first) == first + SizeOf(SubSeq(items, 1, i - 1))

RECURSIVE Preorder(_, _)
Preorder(items, first) ==
    FlattenSeq([i \in DOMAIN items |->
        LET id == IdOf(items, i, first)
        IN  <<[item |-> items[i], id |-> id]>> \o Preorder(items[i].items, id + 1)])

\* Every collection with its depth, the empty ones of the other items included.
RECURSIVE CollectionsOf(_, _)
CollectionsOf(items, depth) ==
    <<[items |-> items, depth |-> depth]>>
        \o FlattenSeq([i \in DOMAIN items |-> CollectionsOf(items[i].items, depth + 1)])

\* default_menu_item_id, of a valid menu
DefaultItem(items) ==
    LET ids == {i \in DOMAIN items : items[i].default}
    IN  IF ids = {} THEN 0 ELSE IdOf(items, CHOOSE i \in ids : TRUE, 1)

-----------------------------------------------------------------------------
(* validate_buttons: a menu is of the control "id", a command bar or a button, *)
(* in a form with "others", more command bars.                                 *)

MenuBars(menu) == (IF menu.bar THEN {menu.id} ELSE {}) \cup menu.others

\* An action is a handler's, or a standard one in a context and for a source.
ActionValid(menu, does) ==
    \/ does = Handler
    \/ /\ does # <<>> /\ does[1] = "standard"
       /\ does[2] \in {0} \cup MenuBars(menu)
       /\ IF does[3] = "Control" THEN does[4] \in (1..LargestSource) \cap ({menu.id} \cup menu.others)
                                 ELSE does[4] = 0

PlainSeparator(item) ==
    /\ item.text = "none" /\ item.parts = {} /\ item.representation = "Auto"
    /\ item.enabled /\ ~item.checked /\ ~item.changesData

ItemValid(menu, item, depth) ==
    /\ item.name # ""
    /\ item.default => menu.bar /\ menu.primary /\ item.kind = "Action" /\ depth = 0
    /\ IF item.kind = "Action" THEN ActionValid(menu, item.does) ELSE item.does = <<>>
    /\ item.kind # "Submenu" => item.order = "DontOrder" /\ item.items = <<>>
    /\ item.kind = "Separator" => PlainSeparator(item)

CollectionValid(menu, c) ==
    /\ c.depth <= MaxMenuDepth
    /\ \A i, j \in DOMAIN c.items : i # j => c.items[i].name # c.items[j].name
    /\ \A i \in DOMAIN c.items : ItemValid(menu, c.items[i], c.depth)

\* The parser of Form.xml asks for no more than this.
MenuValid(menu) ==
    LET all == CollectionsOf(menu.items, 0) IN
    /\ \A i \in DOMAIN all : CollectionValid(menu, all[i])
    /\ Cardinality({i \in DOMAIN menu.items : menu.items[i].default}) <= 1

\* A button has a menu only where its MenuMode asks for one.
MenuWritable(menu) == MenuValid(menu) /\ (menu.items # <<>> => menu.used)

-----------------------------------------------------------------------------
(* Writing Form.bin.                                                           *)

\* encode_standard_menu_action
DoesEncoded(item, id) ==
    CASE item.kind = "Submenu" -> <<"menu", id>>
      [] item.kind = "Separator" -> <<"nothing">>
      [] item.does = Handler -> Handler
      [] OTHER -> <<"standard", item.does[2],
                    CASE item.does[3] = "Form" -> FormSource
                      [] item.does[3] = "AllSources" -> 0
                      [] OTHER -> item.does[4]>>

MenuActionEncoded(node) ==
    [key |-> node.id, does |-> DoesEncoded(node.item, node.id), parts |-> node.item.parts,
     variant |-> CHOOSE v \in DOMAIN Variants : Variants[v] = node.item.variant, tail |-> 0]

\* menu_entry_properties
MenuEntryEncoded(item, id) ==
    [action |-> id, id |-> id, name |-> item.name, text |-> item.text,
     type |-> Number(ItemKinds, item.kind),
     representation |-> Number(Representations, item.representation),
     enabled |-> item.enabled, checked |-> item.checked, changesData |-> item.changesData,
     other |-> "usual"]

GroupEncoded(owner, id, items, first) ==
    LET submenus == SelectSeq([i \in DOMAIN items |-> i], LAMBDA i : items[i].kind = "Submenu")
    IN  [owner |-> owner, id |-> id, footer |-> -1,
         entries |-> [i \in DOMAIN items |-> MenuEntryEncoded(items[i], IdOf(items, i, first))],
         orders |-> [j \in DOMAIN submenus |->
            <<IdOf(items, submenus[j], first), Number(ItemOrders, items[submenus[j]].order)>>]]

Header(menu) ==
    [bar |-> menu.bar, id |-> menu.id, used |-> menu.used, primary |-> menu.primary,
     collection |-> IF menu.bar THEN menu.id ELSE 0,
     others |-> LET ids == SetToSeq(menu.others)
                IN  [i \in DOMAIN ids |-> [collection |-> ids[i], id |-> ids[i]]],
     selected |-> DefaultItem(menu.items) # 0, default |-> DefaultItem(menu.items)]

MenuEncoded(menu) ==
    LET all == Preorder(menu.items, 1)
        submenus == SelectSeq(all, LAMBDA node : node.item.kind = "Submenu")
        group(node) == GroupEncoded("menu", node.id, node.item.items, node.id + 1)
    IN  Header(menu) @@
        [maxId |-> Len(all),
         actions |-> Reverse([i \in DOMAIN all |-> MenuActionEncoded(all[i])]),
         groups |-> IF ~menu.used THEN <<>>
                    ELSE <<GroupEncoded("root", Header(menu).collection, menu.items, 1)>>
                            \o [i \in DOMAIN submenus |-> group(submenus[i])]]

-----------------------------------------------------------------------------
(* Reading Form.bin.                                                           *)

KeyOf(g) == <<g.owner, g.id>>
RootKey(f) == <<"root", f.collection>>
GroupAt(f, key) == f.groups[CHOOSE i \in DOMAIN f.groups : KeyOf(f.groups[i]) = key]
ActionAt(f, key) == f.actions[CHOOSE i \in DOMAIN f.actions : f.actions[i].key = key]

IsSubmenu(e) == e.type = 1
Submenus(g) == SelectSeq(g.entries, IsSubmenu)
AllEntries(f) == FlattenSeq([i \in DOMAIN f.groups |-> f.groups[i].entries])

AllOf(s, field) == [i \in DOMAIN s |-> s[i][field]]

\* decode_standard_menu_action, and for the other types a reference to the item
StoredActionReadable(e, a) ==
    /\ CASE e.type = 0 -> \/ a.does = Handler
                          \/ /\ a.does[1] = "standard"
                             /\ a.does[3] \in (0..LargestSource) \cup {FormSource}
         [] IsSubmenu(e) -> a.does = <<"menu", e.id>>
         [] OTHER -> a.does = <<"nothing">>
    /\ a.variant \in DOMAIN Variants

MenuEntryReadable(f, e) ==
    /\ e.name # "" /\ e.text # "bilingual"
    /\ e.id \in 1..f.maxId
    /\ e.type \in 0..2 /\ e.representation \in 0..3
    /\ \E i \in DOMAIN f.actions : f.actions[i].key = e.action
    /\ StoredActionReadable(e, ActionAt(f, e.action))

GroupReadable(f, g) ==
    /\ KeyOf(g) = RootKey(f) \/ g.owner = "menu"
    /\ g.footer = -1 \/ (g.footer = 0 /\ f.bar /\ KeyOf(g) = RootKey(f))
    /\ IsInjective(AllOf(g.entries, "name"))
    /\ \A i \in DOMAIN g.entries : MenuEntryReadable(f, g.entries[i])
    /\ AllOf(g.orders, 1) = AllOf(Submenus(g), "id")
    /\ \A i \in DOMAIN g.orders : g.orders[i][2] \in 0..2
    /\ \A i \in DOMAIN g.entries :
          g.entries[i].id = f.default => g.entries[i].type = 0 /\ KeyOf(g) = RootKey(f)

\* The groups that "visit" enters: each belongs to one submenu at most.
Reached(f) ==
    LET below(keys) == UNION {{<<"menu", Submenus(f.groups[i])[j].id>> :
                                    j \in DOMAIN Submenus(f.groups[i])}
                                : i \in {i \in DOMAIN f.groups : KeyOf(f.groups[i]) \in keys}}
        reached[n \in 0..Len(f.groups)] ==
            IF n = 0 THEN {RootKey(f)} ELSE reached[n - 1] \cup below(reached[n - 1])
    IN  reached[Len(f.groups)]

MenuTreeReadable(f) ==
    /\ IsInjective([i \in DOMAIN f.groups |-> KeyOf(f.groups[i])])
    /\ IsInjective(AllOf(f.actions, "key"))
    /\ \A i \in DOMAIN f.groups : GroupReadable(f, f.groups[i])
    /\ IsInjective(AllOf(AllEntries(f), "id")) /\ IsInjective(AllOf(AllEntries(f), "action"))
    /\ Len(AllEntries(f)) = Len(f.actions)
    /\ Reached(f) = {KeyOf(f.groups[i]) : i \in DOMAIN f.groups}
    /\ f.default = 0 \/ \E i \in DOMAIN AllEntries(f) : AllEntries(f)[i].id = f.default

\* Which control a collection is of: exactly one bar has to have it.
BarsOf(f, collection) ==
    LET bars == f.others \o (IF f.bar THEN <<[collection |-> f.collection, id |-> f.id]>> ELSE <<>>)
    IN  SelectSeq(bars, LAMBDA b : b.collection = collection)

DoesDecoded(f, e) ==
    LET does == ActionAt(f, e.action).does
        source == does[3]
    IN  IF e.type # 0 THEN <<>>
        ELSE IF does = Handler THEN Handler
        ELSE <<"standard", IF does[2] = 0 THEN 0 ELSE BarsOf(f, does[2])[1].id>>
             \o (IF source = FormSource THEN <<"Form", 0>>
                 ELSE IF source = 0 THEN <<"AllSources", 0>>
                 ELSE <<"Control", source>>)

ContextsResolved(f) ==
    \A i \in DOMAIN f.actions :
        LET does == f.actions[i].does
        IN  does[1] = "standard" /\ does[2] # 0 => Len(BarsOf(f, does[2])) = 1

RECURSIVE ItemsDecodedAt(_, _)
ItemsDecodedAt(f, key) ==
    LET g == GroupAt(f, key)
        order(id) == g.orders[CHOOSE j \in DOMAIN g.orders : g.orders[j][1] = id][2]
    IN  [i \in DOMAIN g.entries |->
            LET e == g.entries[i]
                a == ActionAt(f, e.action)
            IN  [name |-> e.name, kind |-> ItemKinds[e.type + 1],
                 text |-> IF e.text = "automatic" THEN "none" ELSE e.text,
                 representation |-> IF e.type = 2 THEN "Auto"
                                    ELSE Representations[e.representation + 1],
                 enabled |-> e.enabled, checked |-> e.checked, changesData |-> e.changesData,
                 \* The header of the form says whose default item is in force.
                 default |-> f.selected /\ e.id = f.default,
                 order |-> IF IsSubmenu(e) THEN ItemOrders[order(e.id) + 1] ELSE "DontOrder",
                 does |-> DoesDecoded(f, e), parts |-> a.parts, variant |-> Variants[a.variant],
                 items |-> IF IsSubmenu(e) THEN ItemsDecodedAt(f, <<"menu", e.id>>) ELSE <<>>]]

MenuDecoded(f) ==
    [bar |-> f.bar, id |-> f.id, used |-> f.used, primary |-> f.primary,
     others |-> {f.others[i].id : i \in DOMAIN f.others},
     items |-> IF f.used THEN ItemsDecodedAt(f, RootKey(f)) ELSE <<>>]

MenuReadable(f) ==
    \/ ~f.used
    \/ /\ MenuTreeReadable(f)
       /\ f.default # 0 => f.primary
       /\ f.selected => f.default # 0
       /\ ContextsResolved(f)
       /\ MenuValid(MenuDecoded(f))

MenuWarns(f) ==
    \/ \E i \in DOMAIN f.actions : f.actions[i].tail # 0
    \/ \E i \in DOMAIN AllEntries(f) :
          LET e == AllEntries(f)[i] IN e.other # "usual" \/ (e.type = 2 /\ e.representation # 0)
    \/ \E i \in DOMAIN f.groups : f.groups[i].footer = 0 /\ f.groups[i].entries # <<>>

=============================================================================
