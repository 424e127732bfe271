---------------------------- MODULE MemberPaths ----------------------------
(***************************************************************************)
(* The path of metadata members a control is bound to, through Form.bin    *)
(* and Form.xml, with and without the metadata of a configuration: the     *)
(* checks of MetadataContext::create, the loop of MetadataContext::resolve *)
(* by names and by keys, the codec of paths.  Form.bin keeps the keys of   *)
(* members, the XML names and ids; metadata says what belongs to what.     *)
(***************************************************************************)
EXTENDS Naturals, Sequences

CONSTANTS
    Types,        \* ids of generated types (objects and references)
    Objects,      \* metadata objects, the owners of types and members
    MemberIds,    \* UUIDs of members
    Names,        \* names of types and members, the standard members among them
    Primitives,   \* entries of a type domain that name no type id
    FixedType,    \* the domain of a check box, a list box, a calendar, a track bar
    Roots,        \* the types of the root attribute
    Contexts,     \* the metadata a command may be given
    Paths,        \* the paths a user may write in Form.xml
    Files,        \* what another program may have left in Form.bin
    MaxDepth,     \* MetadataContext::max_path_depth
    NoName, NoId, NoType, NoContext, NoPath, NoFile, NotLoaded

Standard == {"Code", "Description", "Parent"}
Keys == MemberIds \cup Standard     \* a standard member stands for its number
Entries == Types \cup Primitives
Domains == Seq(Entries)
Kinds == {"typed", "fixed", "bare"} \* stores a type, implies one, does neither

TypeDescriptors == [id : Types, owner : Objects, name : Names \cup {NoName}]
MemberDescriptors ==
    [owner : Objects, name : Names \cup {NoName}, key : Keys,
     type : Domains \cup {NoType}, unresolved : BOOLEAN]
Metadata == [types : Seq(TypeDescriptors), members : Seq(MemberDescriptors)]
PathMembers == [name : Names \cup {NoName}, id : MemberIds \cup {NoId}]
AllPaths == [members : Seq(PathMembers), type : Domains \cup {NoType}]
AllFiles == [keys : Seq(Keys), type : Domains \cup {NoType}]

ASSUME PathAssumption ==
    /\ MaxDepth \in Nat /\ Standard \subseteq Names /\ FixedType \in Domains
    /\ Roots \subseteq Domains /\ Contexts \subseteq Metadata /\ Paths \subseteq AllPaths /\ Files \subseteq AllFiles
    /\ NoName \notin Names /\ NoId \notin MemberIds /\ NoType \notin Domains
    /\ NoContext \notin Metadata /\ NoPath \notin AllPaths /\ NoFile \notin AllFiles
    /\ Standard \cap MemberIds = {} /\ Types \cap Primitives = {}
    /\ NotLoaded \notin [context : Metadata \cup {NoContext}, file : AllFiles,
                         trail : Seq(Nat)]

VARIABLES
    control,   \* the bound control: kind, type of the root attribute, CatalogItem or not
    path,      \* its DataPath in Form.xml
    file,      \* its link and type in Form.bin
    command,   \* the command that runs, or ran last
    context,   \* the metadata it was given
    pc,        \* where it is
    draft,     \* what is being decoded
    owner,     \* the object whose members are looked up next
    found,     \* the descriptors found so far
    outcome,   \* of the last command
    loaded     \* history: metadata, file and descriptors of the last dump, if
               \* the path is still what it wrote

vars == <<control, path, file, command, context, pc, draft, owner, found, outcome, loaded>>

Controls == [kind : Kinds, root : Roots, catalog : BOOLEAN]
TypeOK ==
    /\ control \in Controls
    /\ path \in AllPaths \cup {NoPath}
    /\ file \in AllFiles \cup {NoFile}
    /\ command \in {"none", "dump", "build", "ask"}
    /\ context \in Metadata \cup {NoContext}
    /\ pc \in {"idle", "begin", "follow", "finish"}
    /\ draft \in AllFiles
    /\ owner \in Objects \cup {NoId}
    /\ found \in Seq(Nat)
    /\ outcome \in {"none", "ok", "refused"}
    /\ loaded \in [context : Metadata \cup {NoContext}, file : AllFiles, trail : Seq(Nat)]
                    \cup {NotLoaded}

-----------------------------------------------------------------------------
(* MetadataContext                                                         *)

Distinct(f) == \A i, j \in DOMAIN f : f[i] = f[j] => i = j

\* Mutant: the names of members need not differ.
AcceptedAnyNames(c) ==
    LET owners == {c.types[i].owner : i \in DOMAIN c.types}
    IN  /\ Distinct([i \in DOMAIN c.types |-> c.types[i].id])
        /\ \A i \in DOMAIN c.members : c.members[i].owner \in owners
        /\ Distinct([i \in DOMAIN c.members |-> <<c.members[i].owner, c.members[i].key>>])

\* What create accepts.
Accepted(c) ==
    LET owners == {c.types[i].owner : i \in DOMAIN c.types}
    IN  /\ \A i \in DOMAIN c.types : c.types[i].name # NoName
        /\ Distinct([i \in DOMAIN c.types |-> c.types[i].id])
        /\ Distinct([i \in DOMAIN c.types |-> c.types[i].name])
        /\ \A i \in DOMAIN c.members :
             /\ c.members[i].owner \in owners
             /\ c.members[i].name # NoName
             /\ ~(c.members[i].type # NoType /\ c.members[i].unresolved)
             /\ c.members[i].type # <<>>
        /\ Distinct([i \in DOMAIN c.members |-> <<c.members[i].owner, c.members[i].name>>])
        /\ Distinct([i \in DOMAIN c.members |-> <<c.members[i].owner, c.members[i].key>>])

\* The maps keep the first descriptor of a key.
First(S) == CHOOSE i \in S : \A j \in S : i <= j

TypesWith(c, t) == {i \in DOMAIN c.types : c.types[i].id = t}
MembersNamed(c, o, n) ==
    {i \in DOMAIN c.members : c.members[i].owner = o /\ c.members[i].name = n}
MembersKeyed(c, o, k) ==
    {i \in DOMAIN c.members : c.members[i].owner = o /\ c.members[i].key = k}

\* One object or reference type.
Singular(d) == d # NoType /\ Len(d) = 1 /\ d[1] \in Types

\* From a domain to the object whose members continue the path.
Leads(c, d) == Singular(d) /\ TypesWith(c, d[1]) # {}
OwnerOf(c, d) == c.types[First(TypesWith(c, d[1]))].owner

-----------------------------------------------------------------------------
(* Codec of paths                                                          *)

\* Inside the family of CatalogItem: no member with a UUID came before.
InFamily(keys, i) == control.catalog /\ \A j \in 1..(i - 1) : keys[j] \in Standard

\* The keys of standard members are known in that family alone, and only
\* Parent may be followed.
StandardKeysFit(keys) ==
    \A i \in DOMAIN keys : keys[i] \in Standard =>
        InFamily(keys, i) /\ (keys[i] # "Parent" => i = Len(keys))

\* encode_binding_members
HasKey(m) == m.id # NoId \/ m.name \in Standard
KeyOf(m) == IF m.id # NoId THEN m.id ELSE m.name
KeysOf(p) == [i \in DOMAIN p.members |-> KeyOf(p.members[i])]
Encodes(p) == (\A i \in DOMAIN p.members : HasKey(p.members[i])) /\ StandardKeysFit(KeysOf(p))

\* What validate says of a path.
Valid(p) ==
    /\ Len(p.members) <= MaxDepth
    /\ \A i \in DOMAIN p.members : p.members[i].name # NoName \/ p.members[i].id # NoId
    /\ (\E i \in DOMAIN p.members : p.members[i].id # NoId) => Singular(control.root)

\* The type of what a path leads to, as the document stores it.
TypeOf(p) == IF p.members = <<>> THEN control.root ELSE p.type

\* What the codec of the control asks of that type, and stores of it.
TypeFits(t) ==
    CASE control.kind = "typed" -> t # NoType
      [] control.kind = "fixed" -> t = FixedType
      [] OTHER -> TRUE
TypeStored(p) == IF control.kind = "typed" THEN TypeOf(p) ELSE NoType

\* Decoding of a link d under metadata c: are its keys resolved?
AllIds(keys) == \A i \in DOMAIN keys : keys[i] \in MemberIds
Resolves(c, d) == c # NoContext /\ d.keys # <<>> /\ AllIds(d.keys)

\* The type metadata gives to the last of the descriptors f, and the type that
\* the codec of the control gives.
LeafType(c, d, f) == IF Resolves(c, d) THEN c.members[f[Len(f)]].type ELSE NoType
StoredType(d) == IF control.kind = "fixed" THEN FixedType ELSE d.type

\* The path decode_document makes of the link.
DecodedMember(c, d, f, i) ==
    IF d.keys[i] \in Standard THEN [name |-> d.keys[i], id |-> NoId]
    ELSE [name |-> IF Resolves(c, d) THEN c.members[f[i]].name ELSE NoName,
          id |-> d.keys[i]]
DecodedType(c, d, f) ==
    IF d.keys = <<>> THEN NoType
    ELSE IF LeafType(c, d, f) # NoType THEN LeafType(c, d, f) ELSE StoredType(d)
Decoded(c, d, f) ==
    [members |-> [i \in 1..Len(d.keys) |-> DecodedMember(c, d, f, i)],
     type |-> DecodedType(c, d, f)]

\* Mutant: metadata overrules the type that the control stores.
DecodesAnyType(c, d, f) ==
    /\ StandardKeysFit(d.keys)
    /\ d.keys = <<>> /\ control.kind = "typed" => d.type = control.root
    /\ Valid(Decoded(c, d, f))
    /\ TypeFits(TypeOf(Decoded(c, d, f)))

\* What it checks when the keys have been followed.
Decodes(c, d, f) ==
    /\ StandardKeysFit(d.keys)
    /\ StoredType(d) # NoType /\ LeafType(c, d, f) # NoType =>
         StoredType(d) = LeafType(c, d, f)
    /\ d.keys = <<>> /\ control.kind = "typed" => d.type = control.root
    /\ Valid(Decoded(c, d, f))
    /\ TypeFits(TypeOf(Decoded(c, d, f)))

-----------------------------------------------------------------------------
(* Commands                                                                *)

NoDraft == [keys |-> <<>>, type |-> NoType]

Init ==
    /\ control \in Controls
    /\ path \in Paths \cup {NoPath} /\ file = NoFile
    /\ command = "none" /\ context = NoContext /\ pc = "idle"
    /\ draft = NoDraft /\ owner = NoId /\ found = <<>>
    /\ outcome = "none" /\ loaded = NotLoaded

\* A user writes the path anew, or another program the form.
Edit(p) ==
    /\ pc = "idle" /\ path' = p
    /\ command' = "none" /\ outcome' = "none" /\ loaded' = NotLoaded
    /\ UNCHANGED <<control, file, context, pc, draft, owner, found>>

Foreign(f) ==
    /\ pc = "idle" /\ (f.type = NoType <=> control.kind # "typed")
    /\ file' = f
    /\ command' = "none" /\ outcome' = "none"
    /\ UNCHANGED <<control, path, context, pc, draft, owner, found, loaded>>

\* A command starts with metadata that create accepts, or without any.
Usable == {NoContext} \cup {c \in Contexts : Accepted(c)}

Start(name, c) ==
    /\ pc = "idle" /\ c \in Usable
    /\ command' = name /\ context' = c /\ found' = <<>>
    /\ UNCHANGED <<control, path, file, owner, loaded>>

Dump(c) ==
    /\ file # NoFile
    /\ Start("dump", c)
    /\ draft' = file
    /\ pc' = "begin" /\ outcome' = "none"

\* The form is read from XML, encoded, and what was encoded is decoded again.
Build(c) ==
    /\ path # NoPath
    /\ Start("build", c)
    /\ IF Valid(path) /\ Encodes(path) /\ TypeFits(TypeOf(path))
         THEN /\ draft' = [keys |-> KeysOf(path), type |-> TypeStored(path)]
              /\ pc' = "begin" /\ outcome' = "none"
         ELSE pc' = "idle" /\ outcome' = "refused" /\ UNCHANGED draft

\* A caller resolves the names of the path.
Ask(c) ==
    /\ path # NoPath /\ c # NoContext
    /\ Start("ask", c)
    /\ pc' = "begin" /\ outcome' = "none"
    /\ UNCHANGED draft

ByName == command = "ask"
Count == IF ByName THEN Len(path.members) ELSE Len(draft.keys)
Resolving == IF ByName THEN Count > 0 ELSE Resolves(context, draft)

\* MetadataContext::resolve up to its loop.
CanBegin == Count <= MaxDepth /\ (Resolving => Leads(context, control.root))
Begin ==
    /\ pc = "begin" /\ CanBegin
    /\ IF Resolving
         THEN owner' = OwnerOf(context, control.root) /\ pc' = "follow"
         ELSE pc' = "finish" /\ UNCHANGED owner
    /\ UNCHANGED <<control, path, file, command, context, draft, found, outcome, loaded>>

\* One turn of the loop: the member of the owner with the next name or key.
Turn == Len(found) + 1
Candidates ==
    IF ByName THEN MembersNamed(context, owner, path.members[Turn].name)
              ELSE MembersKeyed(context, owner, draft.keys[Turn])
Member == First(Candidates)
Leaf == Turn = Count
CanFollow == Candidates # {} /\ (Leaf \/ Leads(context, context.members[Member].type))

Follow ==
    /\ pc = "follow" /\ CanFollow
    /\ found' = Append(found, Member)
    /\ IF Leaf THEN pc' = "finish" /\ UNCHANGED owner
               ELSE owner' = OwnerOf(context, context.members[Member].type) /\ UNCHANGED pc
    /\ UNCHANGED <<control, path, file, command, context, draft, outcome, loaded>>

\* The command is over, its working state gone.
Done(result) ==
    /\ pc' = "idle" /\ outcome' = result
    /\ draft' = NoDraft /\ owner' = NoId
    /\ UNCHANGED <<control, command, context, found>>

Loaded == [context |-> context, file |-> file, trail |-> found]
FinishDump ==
    /\ pc = "finish" /\ command = "dump" /\ Decodes(context, draft, found)
    /\ path' = Decoded(context, draft, found) /\ loaded' = Loaded
    /\ Done("ok")
    /\ UNCHANGED file

FinishBuild ==
    /\ pc = "finish" /\ command = "build" /\ Decodes(context, draft, found)
    /\ file' = draft
    /\ Done("ok")
    /\ UNCHANGED <<path, loaded>>

FinishAsk ==
    /\ pc = "finish" /\ ByName
    /\ Done("ok")
    /\ UNCHANGED <<path, file, loaded>>

\* Any failure: the command returns diagnostics and has written nothing.
Refuse ==
    /\ \/ pc = "begin" /\ ~CanBegin
       \/ pc = "follow" /\ ~CanFollow
       \/ pc = "finish" /\ ~ByName /\ ~Decodes(context, draft, found)
    /\ Done("refused")
    /\ UNCHANGED <<path, file, loaded>>

Next ==
    \/ \E p \in Paths : Edit(p)
    \/ \E f \in Files : Foreign(f)
    \/ \E c \in Usable : Dump(c) \/ Build(c) \/ Ask(c)
    \/ Begin \/ Follow
    \/ FinishDump \/ FinishBuild \/ FinishAsk \/ Refuse

Spec == Init /\ [][Next]_vars

-----------------------------------------------------------------------------
(* Properties                                                              *)

\* The names a dump gives to the members of a path lead, under the same
\* metadata, to the descriptors that the keys of Form.bin led to: the two
\* directions of MetadataContext::resolve agree, along the whole path.
NamesFindTheSame ==
    (/\ pc = "idle" /\ command = "ask"
     /\ loaded # NotLoaded /\ loaded.trail # <<>>
     /\ context = loaded.context) =>
        outcome = "ok" /\ found = loaded.trail

\* A path that a dump wrote is built again, under the metadata of the dump or
\* without any, into the link and the type that were dumped: self-verification
\* never refuses what decode_document produced.
LoadedIsRebuilt ==
    (/\ pc = "idle" /\ command = "build" /\ loaded # NotLoaded
     /\ context \in {loaded.context, NoContext}) =>
        outcome = "ok" /\ file = loaded.file
=============================================================================
