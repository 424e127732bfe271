---------------------------- MODULE FormDocument ----------------------------
(* A document of an ordinary form (ordinary_form.cpp): the objects of the  *)
(* form in their collections, the index that finds them by category and    *)
(* identifier, what validate says of them, form_item_refs, and the         *)
(* operations of set_prop_val and reset_prop_val that touch more than the  *)
(* property they are asked for: DefaultButton, CaptionPicture, and the     *)
(* references that only validate checks again.                             *)
(*                                                                         *)
(* An object is a record; a reference to it is the pair <<category, id>>,  *)
(* and nothing keeps a document from holding two objects with one id, or   *)
(* a child that is no object.                                              *)
EXTENDS Integers, FiniteSets, SequencesExt

CONSTANTS
    Kits,       \* the objects a document is put together from
    NoRef,      \* a reference or a picture that is not set
    NoItems     \* form_item_refs has no result

VARIABLES
    kit,        \* the objects this document is put together from
    document,   \* [form, controls, pages, attributes, events, assets]
    index,      \* <<category, id>> |-> the place of the object
    stage       \* "building", then "open"

docVars == <<kit, document, index, stage>>

-----------------------------------------------------------------------------
(* Objects.                                                                *)

\* A control of a kind that has nothing but its place in the form.
Plain(id, kind) ==
    [id |-> id, kind |-> kind, items |-> <<>>, events |-> <<>>, chosen |-> NoRef,
     secondary |-> NoRef, buttons |-> <<>>, picture |-> NoRef, source |-> NoRef,
     menu |-> NoRef, data |-> NoRef, anchor |-> NoRef, link |-> NoRef, linkItem |-> 1,
     extended |-> FALSE, listMode |-> FALSE, listButton |-> NoRef]

BlankForm ==
    [id |-> 0, items |-> <<>>, events |-> <<>>, caption |-> NoRef, menu |-> NoRef,
     main |-> NoRef]

Empty == [form |-> BlankForm, controls |-> <<>>, pages |-> <<>>, attributes |-> <<>>,
          commands |-> <<>>, events |-> <<>>, assets |-> <<>>]

\* A picture of the platform by its name, or one kept with the form.
StandardPicture(known) == [known |-> known, asset |-> 0]
AssetPicture(id) == [known |-> NoRef, asset |-> id]

\* Categories with a collection, in the order of the index.
Collections(d) ==
    [control |-> d.controls, page |-> d.pages, attribute |-> d.attributes,
     command |-> d.commands, event |-> d.events, picture |-> d.assets]

Ids(d, category) == {o.id : o \in Range(Collections(d)[category])}

-----------------------------------------------------------------------------
(* The index: the first object of every category and id.                   *)

IndexFirst(places, category, id, place) ==
    [k \in DOMAIN places \cup {<<category, id>>} |->
        IF k \in DOMAIN places THEN places[k] ELSE place]

FirstPlace(s, id) == CHOOSE i \in DOMAIN s :
    s[i].id = id /\ \A j \in DOMAIN s : s[j].id = id => i <= j

\* rebuild_index
Rebuilt(d) ==
    LET keys == UNION {{<<c, id>> : id \in Ids(d, c)} : c \in DOMAIN Collections(d)}
    IN  [k \in keys \cup {<<"form", d.form.id>>} |->
            IF k[1] = "form" THEN 1 ELSE FirstPlace(Collections(d)[k[1]], k[2])]

\* find_control, find_page, ...
Resolves(category, id) == <<category, id>> \in DOMAIN index
Found(category, id) == Collections(document)[category][index[<<category, id>>]]

-----------------------------------------------------------------------------
(* The tree of form items.                                                 *)

Policy(kind) ==
    CASE kind = "Panel" -> "controls and pages"
      [] kind = "UsualGroup" -> "controls"
      [] OTHER -> "forbidden"

FormKey == <<"form", document.form.id>>
Nodes == {<<"control", id>> : id \in Ids(document, "control")}
         \cup {<<"page", id>> : id \in Ids(document, "page")}

ItemsOf(key) == Found(key[1], key[2]).items

PolicyOf(key) ==
    IF key[1] = "page" THEN "controls" ELSE Policy(Found("control", key[2]).kind)

Allowed(key) ==
    /\ PolicyOf(key) = "forbidden" => ItemsOf(key) = <<>>
    /\ PolicyOf(key) = "controls" => \A i \in DOMAIN ItemsOf(key) : ItemsOf(key)[i][1] # "page"

\* Mutant: an item that was met before is passed over.
RECURSIVE WalkOnce(_, _)
WalkOnce(pending, seen) ==
    IF pending = <<>> THEN seen
    ELSE LET key == Head(pending)
         IN  IF ~Resolves(key[1], key[2]) \/ key[2] = 0 THEN NoItems
             ELSE IF key \in Range(seen) THEN WalkOnce(Tail(pending), seen)
             ELSE IF ~Allowed(key) THEN NoItems
             ELSE WalkOnce(ItemsOf(key) \o Tail(pending), Append(seen, key))

RECURSIVE Walk(_, _)
Walk(pending, seen) ==
    IF pending = <<>> THEN seen
    ELSE LET key == Head(pending)
         IN  IF ~Resolves(key[1], key[2]) \/ key[2] = 0 \/ key \in Range(seen) THEN NoItems
             ELSE IF ~Allowed(key) THEN NoItems
             ELSE Walk(ItemsOf(key) \o Tail(pending), Append(seen, key))

\* form_item_refs: the controls and pages of the form in their order.
FormItems ==
    LET walked == Walk(document.form.items, <<>>)
    IN  IF document.form.id = 0 \/ walked = NoItems THEN NoItems
        ELSE IF Len(walked) # Len(document.controls) + Len(document.pages) THEN NoItems
        ELSE walked

\* Every sequence of children of the document.
ItemLists ==
    <<document.form.items>> \o [i \in DOMAIN document.controls |-> document.controls[i].items]
        \o [i \in DOMAIN document.pages |-> document.pages[i].items]

Parents(key) ==
    Cardinality({<<i, j>> \in UNION {{i} \X DOMAIN ItemLists[i] : i \in DOMAIN ItemLists} :
        ItemLists[i][j] = key})

Referred == UNION {Range(ItemLists[i]) : i \in DOMAIN ItemLists}

\* The depth-first walk of validate, from every object that was not met yet.
RECURSIVE Visit(_, _)
Visit(acc, key) ==
    LET step(a, child) ==
            IF child \in a.visiting THEN [a EXCEPT !.cycle = TRUE]
            ELSE IF child \in a.complete \/ ~Resolves(child[1], child[2]) THEN a
            ELSE Visit(a, child)
        done == FoldLeft(step, [acc EXCEPT !.visiting = @ \cup {key}], ItemsOf(key))
    IN  [done EXCEPT !.visiting = @ \ {key}, !.complete = @ \cup {key}]

HasCycle ==
    LET keys == [i \in DOMAIN document.controls |-> <<"control", document.controls[i].id>>]
                    \o [i \in DOMAIN document.pages |-> <<"page", document.pages[i].id>>]
        next(a, key) == IF key \in a.complete THEN a ELSE Visit(a, key)
    IN  FoldLeft(next, [visiting |-> {}, complete |-> {}, cycle |-> FALSE], keys).cycle

Report(code, found) == IF found THEN {code} ELSE {}

TreeViolations ==
    LET controls == Range(document.controls)
        hasPage(o) == \E key \in Range(o.items) : key[1] = "page"
    IN  Report("dangling_reference", \E k \in Referred : ~Resolves(k[1], k[2]))
        \cup Report("multiple_parents", \E k \in Referred : Resolves(k[1], k[2]) /\ Parents(k) > 1)
        \cup Report("orphan", \E k \in Nodes : Parents(k) = 0)
        \cup Report("illegal_children",
                \/ \E c \in controls : Policy(c.kind) = "forbidden" /\ c.items # <<>>
                \/ \E c \in controls : Policy(c.kind) = "controls" /\ hasPage(c)
                \/ \E p \in Range(document.pages) : hasPage(p))
        \cup Report("cycle", HasCycle)

-----------------------------------------------------------------------------
(* What else validate looks at.                                            *)

Repeated(s) == \E i, j \in DOMAIN s : i # j /\ s[i].id = s[j].id

\* record_id
IdViolations ==
    LET objects == {"control", "page", "command", "event", "picture"}
    IN  Report("invalid_id", document.form.id = 0 \/ \E c \in objects : 0 \in Ids(document, c))
        \cup Report("duplicate_id", \E c \in objects \cup {"attribute"} :
                Repeated(Collections(document)[c]))

\* The items of the menu of a control, with the depth they are at.
MenuItems(c) ==
    {[item |-> c.buttons[i], depth |-> 0] : i \in DOMAIN c.buttons}
    \cup {[item |-> b, depth |-> 1] : b \in UNION {Range(c.buttons[i].buttons) : i \in DOMAIN c.buttons}}

\* The controls that have a menu of their own.
Menus == {c \in Range(document.controls) : c.kind \in {"Button", "CommandBar"}}

\* context_menu_button_resolves
MenuItemResolves(owner, name) ==
    /\ Resolves("control", owner)
    /\ Found("control", owner).kind = "CommandBar"
    /\ \E b \in {SelectSeq(Found("control", owner).buttons, LAMBDA x : x.name = name)} :
          Len(b) = 1 /\ b[1].type = "Submenu"

\* property_value_references_resolve, for a form, a control or a menu item.
ValueResolves(ref) ==
    CASE ref = NoRef -> TRUE
      [] ref # NoRef /\ ref[1] = "form" -> ref[2] = document.form.id
      [] ref # NoRef /\ ref[1] = "control" -> Resolves("control", ref[2])
      [] ref # NoRef /\ ref[1] = "menuItem" -> MenuItemResolves(ref[2], ref[3])

PictureResolves(picture) ==
    IF picture.known # NoRef THEN picture.asset = 0 /\ picture.known
    ELSE picture.asset # 0 /\ Resolves("picture", picture.asset)

Pictures(d) ==
    ({d.form.caption} \cup {c.picture : c \in Range(d.controls)}
     \cup {c.picture : c \in Range(d.commands)}
     \cup UNION {{m.item.picture : m \in MenuItems(c)} :
                 c \in {c \in Range(d.controls) : c.kind \in {"Button", "CommandBar"}}}) \ {NoRef}

\* An ActionSource or ContextMenu that is a control of another kind.
WrongKind(ref, kinds) ==
    /\ ref # NoRef /\ ref[1] = "control" /\ Resolves("control", ref[2])
    /\ Found("control", ref[2]).kind \notin kinds

ActionSources == {"Table", "HTMLDocumentField"}

ReferenceViolations ==
    LET controls == Range(document.controls)
        missing(category, id) == id # NoRef /\ ~Resolves(category, id)
    IN  Report("dangling_reference",
            \/ missing("attribute", document.form.main)
            \/ ~ValueResolves(document.form.menu)
            \/ \E c \in controls : \/ missing("attribute", c.data)
                                   \/ missing("attribute", c.link)
                                   \/ missing("control", c.anchor)
                                   \/ ~ValueResolves(c.menu) \/ ~ValueResolves(c.source)
            \/ \E p \in Pictures(document) : p.known = NoRef /\ ~PictureResolves(p))
        \cup Report("invalid_property",
            \/ \E p \in Pictures(document) : p.known # NoRef /\ ~PictureResolves(p)
            \/ WrongKind(document.form.menu, {"CommandBar"})
            \/ \E c \in controls : \/ WrongKind(c.menu, {"CommandBar"})
                                   \/ WrongKind(c.source, ActionSources))

\* Events, by the one who lists them.
Listed ==
    {[owner |-> FormKey, kind |-> "Form", events |-> document.form.events]}
    \cup {[owner |-> <<"control", c.id>>, kind |-> c.kind, events |-> c.events] :
            c \in Range(document.controls)}

Declared(kind) ==
    CASE kind = "Form" -> {"OnOpen", "OnClose"} [] kind = "Button" -> {"Click"} [] OTHER -> {}

\* How often the event is listed.
TimesListed(id) ==
    FoldSet(LAMBDA l, n : n + Len(SelectSeq(l.events, LAMBDA e : e = id)), 0, Listed)

EventViolations ==
    LET events == Range(document.events)
        name(l, i) == Found("event", l.events[i]).name
        wrong(l, i) ==
            /\ Resolves("event", l.events[i])
            /\ \/ Found("event", l.events[i]).owner # l.owner
               \/ name(l, i) \notin Declared(l.kind)
               \/ \E j \in 1..(i - 1) : Resolves("event", l.events[j]) /\ name(l, j) = name(l, i)
    IN  Report("dangling_reference",
            \/ \E l \in Listed : \E i \in DOMAIN l.events : ~Resolves("event", l.events[i])
            \/ \E e \in events : ~ValueResolves(e.owner))
        \cup Report("invalid_property",
            \/ \E l \in Listed : \E i \in DOMAIN l.events : wrong(l, i)
            \/ \E e \in events : ~e.handler)
        \cup Report("orphan", \E e \in events : TimesListed(e.id) = 0)
        \cup Report("multiple_parents", \E e \in events : TimesListed(e.id) > 1)

\* Buttons and menu items that Enter presses.
DefaultButtons == {i \in DOMAIN document.controls :
    document.controls[i].kind = "Button" /\ document.controls[i].chosen = TRUE}
DefaultItems ==
    UNION {{<<c.id, m>> : m \in {m \in MenuItems(c) : m.item.pressed}} : c \in Menus}

ItemStands(c, m) ==
    /\ m.item.pressed => /\ c.kind = "CommandBar" /\ c.secondary = FALSE
                         /\ m.item.type = "Action" /\ m.depth = 0
    /\ m.item.type # "Submenu" => m.item.buttons = <<>>

UniqueNames(s) == \A i, j \in DOMAIN s : i # j => s[i].name # s[j].name

PropertyViolations ==
    Report("invalid_property",
        \/ Cardinality(DefaultButtons) + Cardinality(DefaultItems) > 1
        \/ \E c \in Menus : \E m \in MenuItems(c) : ~ItemStands(c, m)
        \/ \E c \in Menus : \/ ~UniqueNames(c.buttons)
                            \/ \E i \in DOMAIN c.buttons : ~UniqueNames(c.buttons[i].buttons)
        \/ \E c \in Range(document.controls) :
              /\ c.kind = "InputField"
              /\ (c.extended /\ c.listMode) \/ (c.linkItem # 1 /\ c.link = NoRef))

\* validate
Violations ==
    IdViolations \cup TreeViolations \cup ReferenceViolations \cup EventViolations
    \cup PropertyViolations

Valid == Violations = {}

-----------------------------------------------------------------------------
(* A document is put together: the constructor, add_X, and set_form last,  *)
(* as both decoders do.                                                    *)

DocumentInit ==
    /\ kit \in Kits
    /\ document = Empty
    /\ index = [k \in {<<"form", 0>>} |-> 1]
    /\ stage = "building"

\* No collection after this one has an object yet.
NothingAfter(category) ==
    LET order == <<"attribute", "control", "page", "command", "event", "picture">>
        at == CHOOSE i \in DOMAIN order : order[i] = category
    IN  \A i \in (at + 1)..Len(order) : Collections(document)[order[i]] = <<>>

With(d, category, o) ==
    CASE category = "control" -> [d EXCEPT !.controls = Append(@, o)]
      [] category = "page" -> [d EXCEPT !.pages = Append(@, o)]
      [] category = "attribute" -> [d EXCEPT !.attributes = Append(@, o)]
      [] category = "command" -> [d EXCEPT !.commands = Append(@, o)]
      [] category = "event" -> [d EXCEPT !.events = Append(@, o)]
      [] category = "picture" -> [d EXCEPT !.assets = Append(@, o)]

\* How many children all lists of d have together.
References(d) ==
    Len(d.form.items) + FoldSeq(LAMBDA o, n : n + Len(o.items), 0, d.controls \o d.pages)

AddObject(category) ==
    LET place == Len(Collections(document)[category]) + 1
    IN  /\ stage = "building"
        /\ NothingAfter(category)
        /\ place \in DOMAIN kit[category]
        /\ \E o \in kit[category][place] :
              /\ document' = With(document, category, o)
              /\ References(document') <= kit.references
              /\ index' = IndexFirst(index, category, o.id, place)
        /\ UNCHANGED <<kit, stage>>

SetForm ==
    /\ stage = "building"
    /\ \E f \in kit.forms : document' = [document EXCEPT !.form = f]
    /\ References(document') <= kit.references
    /\ index' = Rebuilt(document')
    /\ stage' = "open"
    /\ UNCHANGED kit

-----------------------------------------------------------------------------
(* set_prop_val and reset_prop_val.                                        *)

\* The control that find_location gives an operation on the control id.
Owner(kind, id) ==
    /\ stage = "open"
    /\ Resolves("control", id)
    /\ Found("control", id).kind = kind

At(id) == index[<<"control", id>>]

SetOf(id, o) ==
    /\ document' = [document EXCEPT !.controls[At(id)] = o]
    /\ UNCHANGED <<kit, index, stage>>

\* The operation answers with the code and changes nothing.
Rejected(code) == code \in {"invalid_value", "invalid_reference"} /\ UNCHANGED docVars

Cleared(buttons) ==
    [i \in DOMAIN buttons |->
        [buttons[i] EXCEPT !.pressed = FALSE,
            !.buttons = [j \in DOMAIN @ |-> [@[j] EXCEPT !.pressed = FALSE]]]]

\* Mutant: the menus of the command bars keep their default item.
SelectButtonOnly(d, id) ==
    [d EXCEPT !.controls = [i \in DOMAIN @ |->
        IF i = At(id) THEN [@[i] EXCEPT !.chosen = TRUE]
        ELSE IF @[i].kind = "Button" /\ @[i].id # id THEN [@[i] EXCEPT !.chosen = NoRef]
        ELSE @[i]]]

\* One button becomes the default of the form, and nothing else stays it.
SelectButton(d, id) ==
    [d EXCEPT !.controls = [i \in DOMAIN @ |->
        IF i = At(id) THEN [@[i] EXCEPT !.chosen = TRUE]
        ELSE IF @[i].kind = "Button" /\ @[i].id # id THEN [@[i] EXCEPT !.chosen = NoRef]
        ELSE IF @[i].kind = "CommandBar" THEN [@[i] EXCEPT !.buttons = Cleared(@)]
        ELSE @[i]]]

SetDefaultButton(id, selected) ==
    /\ Owner("Button", id)
    /\ document' = IF selected THEN SelectButton(document, id)
                   ELSE [document EXCEPT !.controls[At(id)].chosen = FALSE]
    /\ UNCHANGED <<kit, index, stage>>

ResetDefaultButton(id) ==
    /\ Owner("Button", id)
    /\ SetOf(id, [Found("control", id) EXCEPT !.chosen = NoRef])

\* Secondary of a command bar, and its reset; nothing looks at its items.
SetSecondary(id, value) ==
    /\ Owner("CommandBar", id)
    /\ SetOf(id, [Found("control", id) EXCEPT !.secondary = value])

SetActionSource(id, ref) ==
    /\ Owner("CommandBar", id)
    /\ IF ~ValueResolves(ref) \/ WrongKind(ref, ActionSources)
       THEN Rejected("invalid_reference")
       ELSE SetOf(id, [Found("control", id) EXCEPT !.source = ref])

\* ContextMenu of the form, or of a control.
SetFormMenu(ref) ==
    /\ stage = "open"
    /\ IF ~ValueResolves(ref) \/ WrongKind(ref, {"CommandBar"})
       THEN Rejected("invalid_reference")
       ELSE /\ document' = [document EXCEPT !.form.menu = ref]
            /\ UNCHANGED <<kit, index, stage>>

SetMenu(id, ref) ==
    /\ Owner("InputField", id)
    /\ IF ~ValueResolves(ref) \/ WrongKind(ref, {"CommandBar"})
       THEN Rejected("invalid_reference")
       ELSE SetOf(id, [Found("control", id) EXCEPT !.menu = ref])

\* Picture of a button or of an input field.
SetPicture(id, picture) ==
    /\ Owner("Button", id)
    /\ IF picture # NoRef /\ ~PictureResolves(picture) THEN Rejected("invalid_reference")
       ELSE SetOf(id, [Found("control", id) EXCEPT !.picture = picture])

SetTypeLinkItem(id, value) ==
    /\ Owner("InputField", id)
    /\ SetOf(id, [Found("control", id) EXCEPT !.linkItem = value])

\* The button that opens the list goes with it.
SetListChoiceMode(id, value) ==
    /\ Owner("InputField", id)
    /\ SetOf(id, [Found("control", id) EXCEPT !.listMode = value, !.listButton = value])

\* Mutant: the menus are not searched for the asset.
StillUsedByControls(d, id) ==
    AssetPicture(id) \in {d.form.caption} \cup {c.picture : c \in Range(d.controls)}
                         \cup {c.picture : c \in Range(d.commands)}

\* A reference to the asset is left somewhere.
StillUsed(d, id) == AssetPicture(id) \in Pictures(d)

\* remove_unreferenced_caption_asset
WithoutAsset(d, id) ==
    IF id = 0 \/ StillUsed(d, id) \/ id \notin Ids(d, "picture") THEN d
    ELSE [d EXCEPT !.assets = RemoveAt(@, FirstPlace(@, id))]

CaptionAsset == IF document.form.caption = NoRef THEN 0 ELSE document.form.caption.asset

\* Mutant: the index is not built again when an asset is gone.
IndexKept(d) == index

\* The index after the caption has changed.
IndexAfter(d) == IF d.assets = document.assets THEN index ELSE Rebuilt(d)

CaptionBecomes(picture) ==
    LET d == WithoutAsset([document EXCEPT !.form.caption = picture], CaptionAsset)
    IN  /\ document' = d
        /\ index' = IndexAfter(d)
        /\ UNCHANGED <<kit, stage>>

\* No asset can be set; a picture that is empty unsets the property.
SetCaptionPicture(picture) ==
    /\ stage = "open"
    /\ IF picture.asset # 0 THEN Rejected("invalid_value")
       ELSE IF picture.known # NoRef /\ ~picture.known THEN Rejected("invalid_reference")
       ELSE CaptionBecomes(IF picture.known = NoRef THEN NoRef ELSE picture)

ResetCaptionPicture ==
    /\ stage = "open"
    /\ CaptionBecomes(NoRef)

Targets == {NoRef, FormKey, <<"control", 9>>}
           \cup {<<"control", id>> : id \in Ids(document, "control")}
MenuTargets == (Targets \ {FormKey}) \cup
    {<<"menuItem", id, name>> : id \in Ids(document, "control"), name \in {"More", "Go"}}
AnyPicture ==
    {StandardPicture(known) : known \in BOOLEAN}
    \cup {AssetPicture(id) : id \in {0, 9} \cup Ids(document, "picture")}

Build ==
    \/ \E c \in {"attribute", "control", "page", "command", "event", "picture"} : AddObject(c)
    \/ SetForm

\* The operations that are tried on the documents of a kit.
EditDefaults(id) ==
    \/ \E b \in BOOLEAN : SetDefaultButton(id, b)
    \/ ResetDefaultButton(id)
    \/ \E b \in BOOLEAN \cup {NoRef} : SetSecondary(id, b)

EditReferences(id) ==
    \/ \E t \in Targets : SetActionSource(id, t)
    \/ \E t \in MenuTargets : SetMenu(id, t) \/ SetFormMenu(t)

EditCompared(id) ==
    \/ \E n \in {1, 2} : SetTypeLinkItem(id, n)
    \/ \E b \in BOOLEAN : SetListChoiceMode(id, b)

EditPictures(id) ==
    \/ \E p \in AnyPicture \cup {NoRef} : SetPicture(id, p)
    \/ \E p \in AnyPicture : SetCaptionPicture(p)
    \/ ResetCaptionPicture

Edit(id) ==
    \/ "defaults" \in kit.edits /\ EditDefaults(id)
    \/ "references" \in kit.edits /\ EditReferences(id)
    \/ "compared" \in kit.edits /\ EditCompared(id)
    \/ "pictures" \in kit.edits /\ EditPictures(id)

DocumentNext ==
    \/ Build
    \/ \E id \in Ids(document, "control") : Edit(id)

DocumentSpec == DocumentInit /\ [][DocumentNext]_docVars

-----------------------------------------------------------------------------
(* Properties.                                                             *)

\* Every control and page is in one list of children, and the form leads to it.
IsTree ==
    LET step(s) == s \cup UNION {Range(ItemsOf(k)) : k \in s}
        fromForm == FoldSet(LAMBDA n, s : step(s), Range(document.form.items) \cap Nodes, Nodes)
    IN  /\ \A k \in Referred : k \in Nodes
        /\ \A k \in Nodes : Parents(k) = 1
        /\ fromForm = Nodes

\* Controls are in a form, a page, a panel or a group; pages in a form or a panel.
InTheirPlace ==
    \A k \in Nodes : \A child \in Range(ItemsOf(k)) :
        IF k[1] = "page" THEN child[1] # "page"
        ELSE \/ Found("control", k[2]).kind = "Panel"
             \/ Found("control", k[2]).kind = "UsualGroup" /\ child[1] # "page"

NodesHaveIds ==
    /\ document.form.id # 0 /\ ~Repeated(document.controls) /\ ~Repeated(document.pages)
    /\ 0 \notin Ids(document, "control") \cup Ids(document, "page")

\* validate counts parents and looks for cycles, form_item_refs walks the form:
\* both accept the documents whose items are a tree under the form with every item
\* where it may be, and those only.
ItemsAreATree ==
    LET accepted == TreeViolations = {} /\ NodesHaveIds
    IN  /\ accepted <=> FormItems # NoItems
        /\ accepted <=> NodesHaveIds /\ IsTree /\ InTheirPlace

\* Of the operations modelled here, the only ones on a valid document that leave an
\* invalid one are those on a property that validate compares with another:
\* Secondary of a command bar with a default item, TypeLinkItem without a link,
\* ListChoiceMode beside an extension.  References, parents and identifiers stay
\* right whatever is set, and the button that is made the default is the only one,
\* whatever was the default before.
EditsKeepTheForm ==
    [][stage = "open" /\ Valid =>
        /\ Violations' \subseteq {"invalid_property"}
        /\ ~Valid' => \E id \in Ids(document, "control") :
              \/ /\ \E b \in {TRUE, NoRef} : SetSecondary(id, b)
                 /\ \E i \in DOMAIN Found("control", id).buttons :
                       Found("control", id).buttons[i].pressed
              \/ SetTypeLinkItem(id, 2) /\ Found("control", id).link = NoRef
              \/ SetListChoiceMode(id, TRUE) /\ Found("control", id).extended
        /\ \A id \in Ids(document, "control") : SetDefaultButton(id, TRUE) =>
              DefaultItems' = {} /\ {document'.controls[i].id : i \in DefaultButtons'} = {id}]_docVars

\* However a document was put together, the index finds the first object of every
\* id at the place it has now.  A change of the caption drops the asset that only
\* the caption referred to, and no other: what another object refers to is found.
CaptionAssetCollected ==
    [][/\ index' = Rebuilt(document')
       /\ document'.form.caption # document.form.caption /\ stage = "open" /\ Valid =>
           LET left == {p.asset : p \in Pictures(document')} \ {0}
           IN  /\ Ids(document', "picture") =
                     {id \in Ids(document, "picture") : id # CaptionAsset \/ id \in left}
               /\ left \subseteq Ids(document', "picture")]_docVars

=============================================================================
