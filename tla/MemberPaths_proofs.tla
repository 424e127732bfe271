------------------------- MODULE MemberPaths_proofs -------------------------
(***************************************************************************)
(* Proofs about MemberPaths, for any metadata, any path and any depth: the *)
(* two directions of resolution agree on what a dump wrote, and what a     *)
(* dump wrote is built again.                                              *)
(***************************************************************************)
EXTENDS MemberPaths, TLAPS

\* The object the i-th member is looked up in, when f has been followed so far.
OwnerAt(c, f, i) ==
    IF i = 1 THEN OwnerOf(c, control.root) ELSE OwnerOf(c, c.members[f[i - 1]].type)

\* The descriptors f are those the first keys lead to.
Chain(c, keys, f) ==
    \A i \in 1..Len(f) : /\ f[i] \in MembersKeyed(c, OwnerAt(c, f, i), keys[i])
                         /\ i < Len(keys) => Leads(c, c.members[f[i]].type)

\* They are all, if keys are resolved at all.
Followed(c, d, f) ==
    IF Resolves(c, d)
      THEN Leads(c, control.root) /\ Len(f) = Len(d.keys) /\ Chain(c, d.keys, f)
      ELSE f = <<>>

\* A link has a type exactly if the codec of the control stores one.
Typed(d) == d.type = NoType <=> control.kind # "typed"

Usables == context \in Usable /\ (loaded # NotLoaded => loaded.context \in Usable)

Drafts ==
    /\ file # NoFile => Typed(file)
    /\ pc # "idle" /\ command # "ask" => Typed(draft)
    /\ pc # "idle" /\ command = "dump" => draft = file
    /\ pc # "idle" => command # "none"
    /\ command = "ask" => context # NoContext /\ (pc # "idle" => path # NoPath)

Steps ==
    /\ pc = "begin" => found = <<>>
    /\ pc = "follow" =>
         /\ Resolving /\ context # NoContext /\ Leads(context, control.root)
         /\ Len(found) < Count /\ owner = OwnerAt(context, found, Turn)
         /\ ~ByName => Chain(context, draft.keys, found)
    /\ pc = "finish" =>
         IF ByName THEN Len(found) = Count ELSE Followed(context, draft, found)

\* The path that was dumped is what its link decodes to.
Kept ==
    loaded # NotLoaded =>
        /\ path = Decoded(loaded.context, loaded.file, loaded.trail)
        /\ Decodes(loaded.context, loaded.file, loaded.trail)
        /\ Followed(loaded.context, loaded.file, loaded.trail)
        /\ Typed(loaded.file)

\* A build of that path works on the same link.
Rebuilding ==
    loaded # NotLoaded /\ command = "build" /\ context \in {loaded.context, NoContext} =>
        IF pc = "idle" THEN outcome = "ok" /\ file = loaded.file ELSE draft = loaded.file

\* Resolution of that path goes the way it went before.
SameWay ==
    (/\ loaded # NotLoaded /\ loaded.trail # <<>>
     /\ command \in {"build", "ask"} /\ context = loaded.context) =>
        /\ pc \in {"follow", "finish"} =>
             \A i \in 1..Len(found) : found[i] = loaded.trail[i]
        /\ pc = "idle" /\ command = "ask" => outcome = "ok" /\ found = loaded.trail

IInv ==
    /\ TypeOK /\ Usables /\ Drafts /\ Steps
    /\ Kept /\ Rebuilding /\ SameWay

-----------------------------------------------------------------------------
(* Metadata that create accepts names each member once, and keys it once.  *)

LEMMA UsableMetadata ==
    ASSUME NEW c \in Usable, c # NoContext
    PROVE  c \in Metadata /\ Accepted(c)
BY PathAssumption DEF Usable

LEMMA FirstOfOne ==
    ASSUME NEW S, NEW i \in Nat, i \in S, \A j \in S : j = i
    PROVE  First(S) = i
<1>1. \E x \in S : \A j \in S : x <= j
  BY i <= i
<1> QED
  BY <1>1 DEF First

LEMMA UniqueKeyed ==
    ASSUME NEW c \in Usable, c # NoContext, NEW o, NEW k, NEW i \in MembersKeyed(c, o, k)
    PROVE  First(MembersKeyed(c, o, k)) = i
<1>1. Distinct([j \in DOMAIN c.members |-> <<c.members[j].owner, c.members[j].key>>])
  BY UsableMetadata DEF Accepted
<1>2. \A j \in MembersKeyed(c, o, k) : j = i
  BY <1>1 DEF Distinct, MembersKeyed
<1>3. i \in Nat
  BY UsableMetadata DEF MembersKeyed, Metadata
<1> QED
  BY <1>2, <1>3, FirstOfOne

LEMMA UniqueNamed ==
    ASSUME NEW c \in Usable, c # NoContext, NEW o, NEW n, NEW i \in MembersNamed(c, o, n)
    PROVE  First(MembersNamed(c, o, n)) = i
<1>1. Distinct([j \in DOMAIN c.members |-> <<c.members[j].owner, c.members[j].name>>])
  BY UsableMetadata DEF Accepted
<1>2. \A j \in MembersNamed(c, o, n) : j = i
  BY <1>1 DEF Distinct, MembersNamed
<1>3. i \in Nat
  BY UsableMetadata DEF MembersNamed, Metadata
<1> QED
  BY <1>2, <1>3, FirstOfOne

\* What the next lookup finds is one of the candidates.
LEMMA MemberIsCandidate ==
    ASSUME context \in Usable, context # NoContext, Candidates # {}
    PROVE  Member \in Candidates /\ Member \in DOMAIN context.members
<1>1. PICK i : i \in Candidates
  OBVIOUS
<1>2. First(Candidates) = i
  <2>1. CASE ByName
    BY <1>1, <2>1, UniqueNamed DEF Candidates
  <2>2. CASE ~ByName
    BY <1>1, <2>2, UniqueKeyed DEF Candidates
  <2> QED
    BY <2>1, <2>2
<1> QED
  BY <1>1, <1>2 DEF Member, Candidates, MembersNamed, MembersKeyed

LEMMA OwnerIsObject ==
    ASSUME NEW c \in Usable, c # NoContext, NEW d, Leads(c, d)
    PROVE  OwnerOf(c, d) \in Objects
<1>1. Distinct([j \in DOMAIN c.types |-> c.types[j].id]) /\ c \in Metadata
  BY UsableMetadata DEF Accepted
<1>2. PICK i : i \in TypesWith(c, d[1])
  BY DEF Leads
<1>3. \A j \in TypesWith(c, d[1]) : j = i
  BY <1>1, <1>2 DEF Distinct, TypesWith
<1>4. First(TypesWith(c, d[1])) = i
  <2>1. i \in Nat
    BY <1>1, <1>2 DEF TypesWith, Metadata
  <2> QED
    BY <1>2, <1>3, <2>1, FirstOfOne
<1>5. c.types[i] \in TypeDescriptors
  BY <1>1, <1>2 DEF TypesWith, Metadata
<1> QED
  BY <1>4, <1>5 DEF OwnerOf, TypeDescriptors

-----------------------------------------------------------------------------
(* What decode_document makes of a link, given back to the encoder.        *)

\* The assumptions of these lemmas: a link and the way it was followed.
Decoding(c, d, f) ==
    /\ control \in Controls /\ c \in Usable /\ d \in AllFiles
    /\ Followed(c, d, f)

LEMMA FollowedMembers ==
    ASSUME NEW c, NEW d, NEW f, Decoding(c, d, f), Resolves(c, d)
    PROVE  /\ Len(f) = Len(d.keys)
           /\ \A i \in 1..Len(d.keys) :
                 /\ f[i] \in DOMAIN c.members
                 /\ c.members[f[i]] \in MemberDescriptors
                 /\ c.members[f[i]].name \in Names
<1>1. c \in Metadata /\ Accepted(c)
  BY UsableMetadata DEF Decoding, Resolves
<1>2. Len(f) = Len(d.keys) /\ Chain(c, d.keys, f)
  BY DEF Decoding, Followed
<1>3. \A i \in 1..Len(d.keys) : f[i] \in DOMAIN c.members
  BY <1>2 DEF Chain, MembersKeyed
<1>4. \A j \in DOMAIN c.members : c.members[j] \in MemberDescriptors
  BY <1>1 DEF Metadata
<1>5. \A j \in DOMAIN c.members : c.members[j].name \in Names
  BY <1>1, <1>4 DEF Accepted, MemberDescriptors
<1> QED
  BY <1>2, <1>3, <1>4, <1>5

LEMMA DecodedMembers ==
    ASSUME NEW c, NEW d, NEW f, Decoding(c, d, f), NEW i \in 1..Len(d.keys)
    PROVE  /\ DecodedMember(c, d, f, i) \in PathMembers
           /\ HasKey(DecodedMember(c, d, f, i))
           /\ KeyOf(DecodedMember(c, d, f, i)) = d.keys[i]
<1>1. d.keys[i] \in Keys
  BY DEF Decoding, AllFiles
<1>2. CASE d.keys[i] \in Standard
  BY <1>2, PathAssumption DEF DecodedMember, PathMembers, HasKey, KeyOf
<1>3. CASE d.keys[i] \notin Standard
  <2>1. d.keys[i] \in MemberIds /\ d.keys[i] # NoId
    BY <1>1, <1>3, PathAssumption DEF Keys
  <2>2. Resolves(c, d) => c.members[f[i]].name \in Names
    BY FollowedMembers
  <2> QED
    BY <1>3, <2>1, <2>2 DEF DecodedMember, PathMembers, HasKey, KeyOf
<1> QED
  BY <1>2, <1>3

LEMMA SequenceOf ==
    ASSUME NEW S, NEW n \in Nat, NEW m \in [1..n -> S]
    PROVE  m \in Seq(S) /\ Len(m) = n
OBVIOUS

LEMMA SequenceIs ==
    ASSUME NEW S, NEW m \in Seq(S), NEW q, q = [i \in 1..Len(m) |-> m[i]]
    PROVE  q = m
OBVIOUS

LEMMA DecodedKeys ==
    ASSUME NEW c, NEW d, NEW f, Decoding(c, d, f)
    PROVE  /\ Decoded(c, d, f).members \in Seq(PathMembers)
           /\ Len(Decoded(c, d, f).members) = Len(d.keys)
           /\ \A i \in DOMAIN Decoded(c, d, f).members : HasKey(Decoded(c, d, f).members[i])
           /\ KeysOf(Decoded(c, d, f)) = d.keys
<1> DEFINE m == [i \in 1..Len(d.keys) |-> DecodedMember(c, d, f, i)]
<1>1. Decoded(c, d, f).members = m
  BY DEF Decoded
<1>2. d.keys \in Seq(Keys) /\ Len(d.keys) \in Nat /\ DOMAIN d.keys = 1..Len(d.keys)
  BY DEF Decoding, AllFiles
<1>3. \A i \in 1..Len(d.keys) : m[i] \in PathMembers /\ HasKey(m[i]) /\ KeyOf(m[i]) = d.keys[i]
  BY DecodedMembers
<1>4. m \in Seq(PathMembers) /\ Len(m) = Len(d.keys)
  <2>1. m \in [1..Len(d.keys) -> PathMembers]
    BY <1>3
  <2> HIDE DEF m
  <2> QED
    BY <1>2, <2>1, SequenceOf
<1>5. [i \in DOMAIN m |-> KeyOf(m[i])] = d.keys
  <2>1. [i \in DOMAIN m |-> KeyOf(m[i])] = [i \in 1..Len(d.keys) |-> d.keys[i]]
    <3>1. DOMAIN m = 1..Len(d.keys)
      OBVIOUS
    <3> HIDE DEF m
    <3> QED
      BY <1>3, <3>1
  <2> HIDE DEF m
  <2> QED
    BY <1>2, <2>1, SequenceIs
<1> HIDE DEF m
<1> QED
  BY <1>1, <1>2, <1>3, <1>4, <1>5 DEF KeysOf

LEMMA DecodedIsPath ==
    ASSUME NEW c, NEW d, NEW f, Decoding(c, d, f)
    PROVE  Decoded(c, d, f) \in AllPaths
<1>1. d.type \in Domains \cup {NoType} /\ d.keys \in Seq(Keys)
  BY DEF Decoding, AllFiles
<1>2. ASSUME Resolves(c, d)
      PROVE  c.members[f[Len(f)]].type \in Domains \cup {NoType}
  <2>1. Len(d.keys) \in 1..Len(d.keys)
    BY <1>1, <1>2 DEF Resolves
  <2> QED
    BY <1>2, <2>1, FollowedMembers DEF MemberDescriptors
<1>3. DecodedType(c, d, f) \in Domains \cup {NoType}
  BY <1>1, <1>2, PathAssumption DEF DecodedType, LeafType, StoredType
<1> QED
  BY <1>3, DecodedKeys DEF Decoded, AllPaths

\* The encoder stores the type that was decoded.
LEMMA DecodedStores ==
    ASSUME NEW c, NEW d, NEW f, Decoding(c, d, f), Decodes(c, d, f), Typed(d)
    PROVE  TypeStored(Decoded(c, d, f)) = d.type
<1>1. CASE control.kind # "typed"
  BY <1>1 DEF TypeStored, Typed
<1>2. CASE control.kind = "typed" /\ d.keys = <<>>
  <2>1. Decoded(c, d, f).members = <<>>
    BY <1>2, DecodedKeys
  <2> QED
    BY <1>2, <2>1 DEF TypeStored, TypeOf, Decodes
<1>3. CASE control.kind = "typed" /\ d.keys # <<>>
  <2>1. Decoded(c, d, f).members # <<>>
    BY <1>3, DecodedKeys DEF Decoding, AllFiles
  <2>2. StoredType(d) = d.type /\ d.type # NoType
    BY <1>3 DEF StoredType, Typed
  <2>3. Decoded(c, d, f).type = d.type
    BY <1>3, <2>2 DEF Decoded, DecodedType, Decodes
  <2> QED
    BY <1>3, <2>1, <2>3 DEF TypeStored, TypeOf
<1> QED
  BY <1>1, <1>2, <1>3

\* What decodes under some metadata decodes without any.
LEMMA DecodesWithout ==
    ASSUME NEW c, NEW d, NEW f, Decoding(c, d, f), Decodes(c, d, f), Typed(d)
    PROVE  Decodes(NoContext, d, <<>>)
<1>1. Decoding(NoContext, d, <<>>) /\ ~Resolves(NoContext, d)
  BY DEF Decoding, Followed, Resolves, Usable
<1> DEFINE p == Decoded(c, d, f)
           q == Decoded(NoContext, d, <<>>)
<1>2. /\ Len(q.members) = Len(p.members) /\ Len(p.members) = Len(d.keys)
      /\ q.members \in Seq(PathMembers) /\ p.members \in Seq(PathMembers)
  BY <1>1, DecodedKeys
<1>3. \A i \in 1..Len(d.keys) : HasKey(q.members[i]) /\ q.members[i].id = p.members[i].id
  BY <1>1, DecodedMembers DEF Decoded, DecodedMember
<1>4. NoName \notin Standard
  BY PathAssumption
<1>5. Valid(q)
  BY <1>2, <1>3, <1>4 DEF Valid, HasKey, Decodes
<1>6. LeafType(NoContext, d, <<>>) = NoType
  BY <1>1 DEF LeafType
<1>7. TypeFits(TypeOf(q))
  <2>1. CASE d.keys = <<>>
    <3>1. p.members = <<>> /\ q.members = <<>>
      BY <1>2, <2>1
    <3> QED
      BY <3>1 DEF TypeOf, Decodes
  <2>2. CASE d.keys # <<>>
    <3>1. q.members # <<>> /\ q.type = StoredType(d)
      BY <1>2, <1>6, <2>2 DEF Decoded, DecodedType, Decoding, AllFiles
    <3> QED
      BY <3>1 DEF TypeOf, TypeFits, StoredType, Typed
  <2> QED
    BY <2>1, <2>2
<1> QED
  BY <1>5, <1>6, <1>7 DEF Decodes

-----------------------------------------------------------------------------
(* The inductive invariant, one lemma for each action.                     *)

LEMMA InitEstablishes == Init => IInv
<1> SUFFICES ASSUME Init PROVE IInv
  OBVIOUS
<1>1. TypeOK
  BY PathAssumption DEF Init, TypeOK, NoDraft, AllFiles
<1>2. Usables
  BY DEF Init, Usables, Usable
<1>3. Drafts /\ Steps
  BY DEF Init, Drafts, Steps, Typed
<1>4. Kept /\ Rebuilding /\ SameWay
  BY DEF Init, Kept, Rebuilding, SameWay
<1> QED
  BY <1>1, <1>2, <1>3, <1>4 DEF IInv

\* What is true of a link under some metadata stays so while the control does.
LEMMA KeptStays ==
    ASSUME Kept, UNCHANGED <<control, path, loaded>>
    PROVE  Kept'
<1> SUFFICES ASSUME loaded # NotLoaded PROVE Kept'
  BY DEF Kept
<1>1. (path = Decoded(loaded.context, loaded.file, loaded.trail))'
  BY DEF Kept, Decoded, DecodedMember, DecodedType, LeafType, StoredType, Resolves, AllIds
<1>2. Decodes(loaded.context, loaded.file, loaded.trail)'
  <2>1. /\ StandardKeysFit(loaded.file.keys)'
        /\ StoredType(loaded.file)' = StoredType(loaded.file)
        /\ LeafType(loaded.context, loaded.file, loaded.trail)' =
             LeafType(loaded.context, loaded.file, loaded.trail)
    BY DEF Kept, Decodes, StandardKeysFit, InFamily, StoredType, LeafType, Resolves, AllIds
  <2>2. Valid(path)' /\ TypeFits(TypeOf(path))'
    BY DEF Kept, Decodes, Valid, TypeFits, TypeOf
  <2> QED
    BY <1>1, <2>1, <2>2 DEF Kept, Decodes
<1>3. Followed(loaded.context, loaded.file, loaded.trail)'
  BY DEF Kept, Followed, Resolves, AllIds, Chain, OwnerAt, Leads
<1>4. Typed(loaded.file)'
  BY DEF Kept, Typed
<1> QED
  BY <1>1, <1>2, <1>3, <1>4 DEF Kept

\* The facts about the last dump, in the form the steps need them.
LEMMA LastDump ==
    ASSUME TypeOK, Usables, Kept, loaded # NotLoaded
    PROVE  /\ loaded.file \in AllFiles /\ loaded.trail \in Seq(Nat)
           /\ Decoding(loaded.context, loaded.file, loaded.trail)
           /\ path \in AllPaths
           /\ KeysOf(path) = loaded.file.keys
           /\ Len(path.members) = Len(loaded.file.keys)
           /\ TypeStored(path) = loaded.file.type
           /\ Valid(path) /\ Encodes(path) /\ TypeFits(TypeOf(path))
<1>1. loaded.file \in AllFiles /\ loaded.trail \in Seq(Nat)
  BY DEF TypeOK
<1>2. Decoding(loaded.context, loaded.file, loaded.trail)
  BY <1>1 DEF Decoding, TypeOK, Usables, Kept
<1>3. path = Decoded(loaded.context, loaded.file, loaded.trail)
  BY DEF Kept
<1>4. path \in AllPaths
  BY <1>2, <1>3, DecodedIsPath
<1>5. /\ KeysOf(path) = loaded.file.keys
      /\ Len(path.members) = Len(loaded.file.keys)
      /\ \A i \in DOMAIN path.members : HasKey(path.members[i])
  BY <1>2, <1>3, DecodedKeys
<1>6. TypeStored(path) = loaded.file.type
  BY <1>2, <1>3, DecodedStores DEF Kept
<1>7. Valid(path) /\ TypeFits(TypeOf(path)) /\ StandardKeysFit(loaded.file.keys)
  BY <1>3 DEF Kept, Decodes
<1> QED
  BY <1>1, <1>2, <1>4, <1>5, <1>6, <1>7 DEF Encodes

LEMMA EditKeeps ==
    ASSUME IInv, NEW p \in Paths, Edit(p)
    PROVE  IInv'
<1>1. TypeOK'
  BY PathAssumption DEF IInv, TypeOK, Edit
<1>2. Usables'
  BY DEF IInv, Usables, Edit
<1>3. Drafts' /\ Steps'
  BY DEF IInv, Drafts, Typed, Steps, Edit
<1>4. Kept' /\ Rebuilding' /\ SameWay'
  BY DEF Kept, Rebuilding, SameWay, Edit
<1> QED
  BY <1>1, <1>2, <1>3, <1>4 DEF IInv

LEMMA ForeignKeeps ==
    ASSUME IInv, NEW f \in Files, Foreign(f)
    PROVE  IInv'
<1>1. TypeOK'
  BY PathAssumption DEF IInv, TypeOK, Foreign
<1>2. Usables'
  BY DEF IInv, Usables, Foreign
<1>3. Drafts' /\ Steps'
  BY DEF IInv, Drafts, Typed, Steps, Foreign
<1>4. Kept'
  BY KeptStays DEF IInv, Foreign
<1>5. Rebuilding' /\ SameWay'
  BY DEF Rebuilding, SameWay, Foreign
<1> QED
  BY <1>1, <1>2, <1>3, <1>4, <1>5 DEF IInv

LEMMA StartTypes ==
    ASSUME IInv, NEW c \in Usable
    PROVE  c \in Metadata \cup {NoContext}
BY PathAssumption DEF Usable

LEMMA DumpKeeps ==
    ASSUME IInv, NEW c \in Usable, Dump(c)
    PROVE  IInv'
<1>1. TypeOK'
  BY StartTypes DEF IInv, TypeOK, Dump, Start
<1>2. Usables'
  BY DEF IInv, Usables, Dump, Start
<1>3. Drafts' /\ Steps'
  BY DEF IInv, Drafts, Typed, Steps, Dump, Start
<1>4. Kept'
  BY KeptStays DEF IInv, Dump, Start
<1>5. Rebuilding' /\ SameWay'
  BY DEF Rebuilding, SameWay, Dump, Start
<1> QED
  BY <1>1, <1>2, <1>3, <1>4, <1>5 DEF IInv

LEMMA BuildKeeps ==
    ASSUME IInv, NEW c \in Usable, Build(c)
    PROVE  IInv'
<1> DEFINE good == Valid(path) /\ Encodes(path) /\ TypeFits(TypeOf(path))
<1>1. path \in AllPaths
  BY DEF IInv, TypeOK, Build
<1>2. good => KeysOf(path) \in Seq(Keys)
  <2> SUFFICES ASSUME good PROVE KeysOf(path) \in Seq(Keys)
    OBVIOUS
  <2>1. path.members \in Seq(PathMembers) /\ Len(path.members) \in Nat
    BY <1>1 DEF AllPaths
  <2>2. ASSUME NEW i \in 1..Len(path.members)
        PROVE  KeyOf(path.members[i]) \in Keys
    <3>1. path.members[i] \in PathMembers /\ HasKey(path.members[i])
      BY <2>1 DEF Encodes
    <3> QED
      BY <3>1 DEF HasKey, KeyOf, Keys, PathMembers
  <2>3. KeysOf(path) \in [1..Len(path.members) -> Keys]
    BY <2>1, <2>2 DEF KeysOf
  <2> QED
    BY <2>1, <2>3, SequenceOf
<1>3. TypeStored(path) \in Domains \cup {NoType}
  BY <1>1, PathAssumption DEF IInv, TypeOK, TypeStored, TypeOf, AllPaths, Controls
<1>4. TypeOK'
  BY <1>2, <1>3, StartTypes DEF IInv, TypeOK, Build, Start, AllFiles
<1>5. Usables'
  BY DEF IInv, Usables, Build, Start
<1>6. Drafts'
  <2>1. good => (TypeStored(path) = NoType <=> control.kind # "typed")
    BY DEF TypeStored, TypeFits
  <2> QED
    BY <2>1 DEF IInv, Drafts, Typed, Build, Start
<1>7. Steps'
  BY DEF Steps, Build, Start
<1>8. Kept'
  BY KeptStays DEF IInv, Build, Start
<1>9. Rebuilding'
  <2> SUFFICES ASSUME loaded # NotLoaded PROVE pc' # "idle" /\ draft' = loaded.file
    BY DEF Rebuilding, Build, Start
  <2>1. /\ good /\ KeysOf(path) = loaded.file.keys
        /\ TypeStored(path) = loaded.file.type /\ loaded.file \in AllFiles
    BY LastDump DEF IInv
  <2> QED
    BY <2>1 DEF Build, AllFiles
<1>10. SameWay'
  BY DEF SameWay, Build, Start
<1> QED
  BY <1>4, <1>5, <1>6, <1>7, <1>8, <1>9, <1>10 DEF IInv

LEMMA AskKeeps ==
    ASSUME IInv, NEW c \in Usable, Ask(c)
    PROVE  IInv'
<1>1. TypeOK'
  BY StartTypes DEF IInv, TypeOK, Ask, Start
<1>2. Usables'
  BY DEF IInv, Usables, Ask, Start
<1>3. Drafts' /\ Steps'
  BY DEF IInv, Drafts, Typed, Steps, Ask, Start
<1>4. Kept'
  BY KeptStays DEF IInv, Ask, Start
<1>5. Rebuilding' /\ SameWay'
  BY DEF Rebuilding, SameWay, Ask, Start
<1> QED
  BY <1>1, <1>2, <1>3, <1>4, <1>5 DEF IInv

LEMMA CountIsNat ==
    ASSUME TypeOK, Drafts, pc # "idle"
    PROVE  Count \in Nat /\ Len(found) \in Nat /\ (Resolving => Count > 0)
<1>1. draft.keys \in Seq(Keys) /\ found \in Seq(Nat)
  BY DEF TypeOK, AllFiles
<1>2. CASE ByName
  <2>1. path.members \in Seq(PathMembers)
    BY <1>2 DEF TypeOK, Drafts, ByName, AllPaths
  <2> QED
    BY <1>1, <1>2, <2>1 DEF Count, Resolving
<1>3. CASE ~ByName
  BY <1>1, <1>3 DEF Count, Resolving, Resolves
<1> QED
  BY <1>2, <1>3

LEMMA BeginKeeps ==
    ASSUME IInv, Begin
    PROVE  IInv'
<1>1. Count \in Nat /\ found = <<>> /\ (Resolving => Count > 0)
  BY CountIsNat DEF IInv, Begin, Steps
<1>2. Resolving => context # NoContext /\ Leads(context, control.root)
  BY DEF Begin, CanBegin, Resolving, Resolves, ByName, IInv, Drafts
<1>3. Resolving => OwnerOf(context, control.root) \in Objects
  BY <1>2, OwnerIsObject DEF IInv, Usables
<1>4. TypeOK'
  BY <1>3 DEF IInv, TypeOK, Begin
<1>5. Usables' /\ Drafts'
  BY DEF IInv, Usables, Drafts, Typed, Begin
<1>6. Steps'
  <2>1. CASE Resolving
    <3>1. pc' = "follow" /\ Resolving' /\ Count' = Count /\ found' = <<>> /\ context' = context
      BY <1>1, <2>1 DEF Begin, Resolving, Count, ByName, Resolves, AllIds
    <3>2. Leads(context, control.root)'
      BY <1>2, <2>1 DEF Begin, Leads
    <3>3. (owner = OwnerAt(context, found, Turn))'
      BY <1>1, <2>1 DEF Begin, OwnerAt, OwnerOf, Turn
    <3>4. Chain(context, draft.keys, found)'
      BY <3>1 DEF Chain
    <3> QED
      BY <1>1, <1>2, <2>1, <3>1, <3>2, <3>3, <3>4 DEF Steps
  <2>2. CASE ~Resolving
    <3>1. pc' = "finish" /\ ByName' = ByName /\ found' = <<>>
      BY <1>1, <2>2 DEF Begin, ByName
    <3>2. ByName => Count' = 0
      BY <1>1, <2>2 DEF Begin, Resolving, Count, ByName
    <3>3. ~ByName => ~Resolves(context, draft)'
      BY <2>2 DEF Begin, Resolving, Resolves, AllIds
    <3> QED
      BY <3>1, <3>2, <3>3 DEF Steps, Followed
  <2> QED
    BY <2>1, <2>2
<1>7. Kept'
  BY KeptStays DEF IInv, Begin
<1>8. Rebuilding'
  BY DEF IInv, Rebuilding, Begin
<1>9. SameWay'
  BY <1>1 DEF SameWay, Begin
<1> QED
  BY <1>4, <1>5, <1>6, <1>7, <1>8, <1>9 DEF IInv

\* On the path of the last dump, under its metadata, a turn of the loop finds
\* what it found then.
LEMMA SamePlace ==
    ASSUME IInv, pc = "follow", loaded # NotLoaded, loaded.trail # <<>>,
           command \in {"build", "ask"}, context = loaded.context
    PROVE  /\ CanFollow /\ Member = loaded.trail[Turn]
           /\ Count = Len(loaded.trail)
<1> DEFINE f == loaded.trail
           keys == loaded.file.keys
<1>1. /\ loaded.file \in AllFiles /\ f \in Seq(Nat) /\ Decoding(context, loaded.file, f)
      /\ Len(path.members) = Len(keys)
  BY LastDump DEF IInv
<1>2. Resolves(context, loaded.file) /\ Len(f) = Len(keys) /\ Chain(context, keys, f)
  BY DEF IInv, Kept, Followed
<1>3. Count = Len(f)
  <2>1. CASE command = "build"
    BY <1>2, <2>1 DEF IInv, Rebuilding, Count, ByName
  <2>2. CASE command = "ask"
    BY <1>1, <1>2, <2>2 DEF Count, ByName
  <2> QED
    BY <2>1, <2>2
<1>4. Len(found) \in Nat /\ Len(found) < Len(f)
  BY <1>3, CountIsNat DEF IInv, Steps
<1>5. Turn \in 1..Len(f)
  BY <1>1, <1>4 DEF Turn
<1>6. OwnerAt(context, found, Turn) = OwnerAt(context, f, Turn)
  <2>1. CASE Turn = 1
    BY <2>1 DEF OwnerAt
  <2>2. CASE Turn # 1
    <3>1. Turn - 1 \in 1..Len(found)
      BY <1>4, <2>2 DEF Turn
    <3> QED
      BY <3>1 DEF OwnerAt, IInv, SameWay
  <2> QED
    BY <2>1, <2>2
<1>7. owner = OwnerAt(context, f, Turn) /\ context # NoContext /\ context \in Usable
  BY <1>6 DEF IInv, Steps, Usables
<1>8. /\ f[Turn] \in MembersKeyed(context, owner, keys[Turn])
      /\ Turn < Len(keys) => Leads(context, context.members[f[Turn]].type)
  BY <1>2, <1>5, <1>7 DEF Chain
<1>9. f[Turn] \in Candidates /\ Member = f[Turn]
  <2>1. CASE command = "build"
    <3>1. Candidates = MembersKeyed(context, owner, keys[Turn])
      BY <2>1 DEF Candidates, ByName, IInv, Rebuilding
    <3> QED
      BY <1>7, <1>8, <3>1, UniqueKeyed DEF Member
  <2>2. CASE command = "ask"
    <3>1. path.members[Turn] = DecodedMember(context, loaded.file, f, Turn)
      BY <1>2, <1>5 DEF IInv, Kept, Decoded
    <3>2. keys[Turn] \notin Standard
      <4>1. keys[Turn] \in MemberIds
        BY <1>1, <1>2, <1>5 DEF Resolves, AllIds, AllFiles
      <4> QED
        BY <4>1, PathAssumption
    <3>3. path.members[Turn].name = context.members[f[Turn]].name
      BY <1>2, <3>1, <3>2 DEF DecodedMember
    <3>4. Candidates = MembersNamed(context, owner, context.members[f[Turn]].name)
      BY <2>2, <3>3 DEF Candidates, ByName
    <3>5. f[Turn] \in Candidates
      BY <1>8, <3>4 DEF MembersKeyed, MembersNamed
    <3> QED
      BY <1>7, <3>4, <3>5, UniqueNamed DEF Member
  <2> QED
    BY <2>1, <2>2
<1>10. Leaf \/ Leads(context, context.members[Member].type)
  BY <1>2, <1>3, <1>5, <1>8, <1>9 DEF Leaf
<1> QED
  BY <1>3, <1>9, <1>10 DEF CanFollow

\* A turn adds one descriptor to the chain.
LEMMA ChainGrows ==
    ASSUME IInv, Follow, ~ByName
    PROVE  Chain(context, draft.keys, Append(found, Member))
<1> DEFINE f == Append(found, Member)
<1>1. found \in Seq(Nat) /\ Len(found) \in Nat /\ Chain(context, draft.keys, found)
  BY DEF IInv, TypeOK, Steps, Follow
<1>2. Member \in MembersKeyed(context, owner, draft.keys[Turn])
  BY MemberIsCandidate DEF IInv, Usables, Steps, Follow, CanFollow, Candidates
<1>3. Turn < Len(draft.keys) => Leads(context, context.members[Member].type)
  BY <1>1 DEF Follow, CanFollow, Leaf, Count, Turn, IInv, TypeOK, AllFiles
<1>4. Len(f) = Turn /\ f[Turn] = Member /\ \A i \in 1..Len(found) : f[i] = found[i]
  BY <1>1 DEF Turn
<1> HIDE DEF f
<1>5. ASSUME NEW i \in 1..Turn
      PROVE  OwnerAt(context, f, i) = OwnerAt(context, found, i)
  <2>1. i # 1 => i - 1 \in 1..Len(found)
    BY <1>1 DEF Turn
  <2> QED
    BY <1>4, <2>1 DEF OwnerAt
<1>6. owner = OwnerAt(context, found, Turn)
  BY DEF IInv, Steps, Follow
<1>7. ASSUME NEW i \in 1..Turn
      PROVE  /\ f[i] \in MembersKeyed(context, OwnerAt(context, f, i), draft.keys[i])
             /\ i < Len(draft.keys) => Leads(context, context.members[f[i]].type)
  <2>1. CASE i = Turn
    BY <1>2, <1>3, <1>4, <1>5, <1>6, <2>1
  <2>2. CASE i # Turn
    <3>1. i \in 1..Len(found)
      BY <1>1, <2>2 DEF Turn
    <3> QED
      BY <1>1, <1>4, <1>5, <3>1 DEF Chain
  <2> QED
    BY <2>1, <2>2
<1>8. Chain(context, draft.keys, f)
  BY <1>4, <1>7 DEF Chain
<1> QED
  BY <1>8 DEF f

LEMMA FollowKeeps ==
    ASSUME IInv, Follow
    PROVE  IInv'
<1>1. Count \in Nat /\ found \in Seq(Nat) /\ Len(found) \in Nat /\ Len(found) < Count
  BY CountIsNat DEF IInv, TypeOK, Steps, Follow
<1>2. /\ context # NoContext /\ context \in Usable /\ Resolving
      /\ Leads(context, control.root)
  BY DEF IInv, Usables, Steps, Follow
<1>3. Member \in Nat
  BY <1>2, MemberIsCandidate, UsableMetadata DEF Follow, CanFollow, Metadata
<1>4. ~Leaf => OwnerOf(context, context.members[Member].type) \in Objects
  BY <1>2, OwnerIsObject DEF Follow, CanFollow
<1>5. /\ found' \in Seq(Nat) /\ Len(found') = Turn /\ found'[Turn] = Member
      /\ \A i \in 1..Len(found) : found'[i] = found[i]
  BY <1>1, <1>3 DEF Follow, Turn
<1>6. TypeOK'
  BY <1>4, <1>5 DEF IInv, TypeOK, Follow
<1>7. Usables' /\ Drafts'
  BY DEF IInv, Usables, Drafts, Typed, Follow
<1>8. ~ByName => Chain(context, draft.keys, found)'
  BY ChainGrows DEF Follow, Chain, OwnerAt, OwnerOf, MembersKeyed, Leads
<1>9. /\ Count' = Count /\ ByName' = ByName /\ Resolving' = Resolving
      /\ Leads(context, control.root)'
  BY <1>2 DEF Follow, Count, ByName, Resolving, Resolves, AllIds, Leads
<1>10. Steps'
  <2>1. CASE Leaf
    <3>1. pc' = "finish" /\ Len(found') = Count
      BY <1>5, <2>1 DEF Follow, Leaf
    <3>2. ~ByName => Resolves(context, draft)' /\ Count = Len(draft.keys)'
      BY <1>2 DEF Follow, Resolving, Resolves, AllIds, Count
    <3> QED
      BY <1>8, <1>9, <3>1, <3>2 DEF Steps, Followed
  <2>2. CASE ~Leaf
    <3>1. pc' = "follow" /\ Len(found') < Count
      BY <1>1, <1>5, <2>2 DEF Follow, Leaf, Turn, IInv
    <3>2. Turn' = Turn + 1 /\ Turn' # 1 /\ Turn' - 1 = Turn
      BY <1>1, <1>5 DEF Turn
    <3>3. owner' = OwnerOf(context, context.members[found'[Turn]].type)
      BY <1>5, <2>2 DEF Follow
    <3>4. (owner = OwnerAt(context, found, Turn))'
      BY <3>2, <3>3 DEF OwnerAt, OwnerOf, Follow
    <3> QED
      BY <1>2, <1>8, <1>9, <3>1, <3>4 DEF Steps, Follow
  <2> QED
    BY <2>1, <2>2
<1>11. Kept'
  BY KeptStays DEF IInv, Follow
<1>12. Rebuilding'
  BY DEF IInv, Rebuilding, Follow
<1>13. SameWay'
  <2> SUFFICES ASSUME loaded # NotLoaded, loaded.trail # <<>>,
                      command \in {"build", "ask"}, context = loaded.context,
                      NEW i \in 1..Len(found')
               PROVE  found'[i] = loaded.trail[i]
    BY DEF SameWay, Follow
  <2>1. Member = loaded.trail[Turn]
    BY SamePlace DEF Follow
  <2>2. CASE i = Turn
    BY <1>5, <2>1, <2>2
  <2>3. CASE i # Turn
    <3>1. i \in 1..Len(found)
      BY <1>1, <1>5, <2>3 DEF Turn
    <3> QED
      BY <1>5, <3>1 DEF IInv, SameWay, Follow
  <2> QED
    BY <2>2, <2>3
<1> QED
  BY <1>6, <1>7, <1>10, <1>11, <1>12, <1>13 DEF IInv

LEMMA FinishDumpKeeps ==
    ASSUME IInv, FinishDump
    PROVE  IInv'
<1>1. /\ draft = file /\ draft \in AllFiles /\ file # NoFile /\ Typed(draft)
      /\ context \in Usable /\ Followed(context, draft, found)
  BY PathAssumption DEF IInv, TypeOK, Drafts, Usables, Steps, FinishDump, ByName
<1>2. Decoding(context, draft, found)
  BY <1>1 DEF Decoding, IInv, TypeOK
<1>3. loaded' = [context |-> context, file |-> draft, trail |-> found] /\ loaded' # NotLoaded
  BY <1>1, PathAssumption DEF FinishDump, Loaded, IInv, TypeOK
<1>4. TypeOK'
  <2>1. path' \in AllPaths
    BY <1>2, DecodedIsPath DEF FinishDump
  <2>2. NoDraft \in AllFiles
    BY DEF NoDraft, AllFiles
  <2> QED
    BY <1>1, <1>3, <2>1, <2>2 DEF IInv, TypeOK, FinishDump, Done
<1>5. Usables'
  BY <1>1, <1>3 DEF Usables, FinishDump, Done
<1>6. Drafts'
  BY <1>1 DEF IInv, Drafts, Typed, FinishDump, Done
<1>7. Steps'
  BY DEF Steps, FinishDump, Done
<1>8. Kept'
  <2>1. (path = Decoded(loaded.context, loaded.file, loaded.trail))'
    BY <1>3 DEF FinishDump, Done, Decoded, DecodedMember, DecodedType, LeafType, StoredType,
                Resolves, AllIds
  <2>2. Decodes(loaded.context, loaded.file, loaded.trail)'
    <3>1. /\ StandardKeysFit(loaded.file.keys)'
          /\ StoredType(loaded.file)' = StoredType(draft)
          /\ LeafType(loaded.context, loaded.file, loaded.trail)' =
               LeafType(context, draft, found)
      BY <1>3 DEF FinishDump, Done, Decodes, StandardKeysFit, InFamily, StoredType, LeafType,
                  Resolves, AllIds
    <3>2. Valid(path)' /\ TypeFits(TypeOf(path))'
      BY DEF FinishDump, Done, Decodes, Valid, TypeFits, TypeOf
    <3>3. loaded'.file = draft /\ control' = control
      BY <1>3 DEF FinishDump, Done
    <3> QED
      BY <2>1, <3>1, <3>2, <3>3 DEF FinishDump, Decodes
  <2>3. Followed(loaded.context, loaded.file, loaded.trail)'
    BY <1>1, <1>3 DEF FinishDump, Done, Followed, Resolves, AllIds, Chain, OwnerAt, Leads
  <2>4. Typed(loaded.file)'
    BY <1>1, <1>3 DEF FinishDump, Done, Typed
  <2> QED
    BY <2>1, <2>2, <2>3, <2>4 DEF Kept
<1>9. Rebuilding' /\ SameWay'
  BY DEF Rebuilding, SameWay, FinishDump, Done
<1> QED
  BY <1>4, <1>5, <1>6, <1>7, <1>8, <1>9 DEF IInv

LEMMA FinishBuildKeeps ==
    ASSUME IInv, FinishBuild
    PROVE  IInv'
<1>1. draft \in AllFiles /\ Typed(draft) /\ NoDraft \in AllFiles
  BY DEF IInv, TypeOK, Drafts, FinishBuild, NoDraft, AllFiles
<1>2. TypeOK'
  BY <1>1 DEF IInv, TypeOK, FinishBuild, Done
<1>3. Usables'
  BY DEF IInv, Usables, FinishBuild, Done
<1>4. Drafts'
  BY <1>1 DEF IInv, Drafts, Typed, FinishBuild, Done
<1>5. Steps'
  BY DEF Steps, FinishBuild, Done
<1>6. Kept'
  BY KeptStays DEF IInv, FinishBuild, Done
<1>7. Rebuilding'
  BY DEF IInv, Rebuilding, FinishBuild, Done
<1>8. SameWay'
  BY DEF SameWay, FinishBuild, Done
<1> QED
  BY <1>2, <1>3, <1>4, <1>5, <1>6, <1>7, <1>8 DEF IInv

\* When the keys of the last dump have been followed again to the end, the
\* descriptors are those found then.
LEMMA SameTrail ==
    ASSUME IInv, pc = "finish", loaded # NotLoaded, loaded.trail # <<>>,
           command \in {"build", "ask"}, context = loaded.context
    PROVE  found = loaded.trail
<1>1. /\ loaded.file \in AllFiles /\ loaded.trail \in Seq(Nat) /\ found \in Seq(Nat)
      /\ Len(path.members) = Len(loaded.file.keys)
  BY LastDump DEF IInv, TypeOK
<1>2. /\ Resolves(context, loaded.file)
      /\ Len(loaded.trail) = Len(loaded.file.keys)
  BY DEF IInv, Kept, Followed
<1>3. Len(found) = Len(loaded.trail)
  <2>1. CASE command = "build"
    BY <1>2, <2>1 DEF IInv, Rebuilding, Steps, Followed, ByName
  <2>2. CASE command = "ask"
    BY <1>1, <1>2, <2>2 DEF IInv, Steps, Count, ByName
  <2> QED
    BY <2>1, <2>2
<1>4. \A i \in 1..Len(found) : found[i] = loaded.trail[i]
  BY DEF IInv, SameWay
<1> QED
  BY <1>1, <1>3, <1>4

LEMMA FinishAskKeeps ==
    ASSUME IInv, FinishAsk
    PROVE  IInv'
<1>1. NoDraft \in AllFiles
  BY DEF NoDraft, AllFiles
<1>2. TypeOK'
  BY <1>1 DEF IInv, TypeOK, FinishAsk, Done
<1>3. Usables'
  BY DEF IInv, Usables, FinishAsk, Done
<1>4. Drafts'
  BY DEF IInv, Drafts, Typed, FinishAsk, Done
<1>5. Steps'
  BY DEF Steps, FinishAsk, Done
<1>6. Kept'
  BY KeptStays DEF IInv, FinishAsk, Done
<1>7. Rebuilding'
  BY DEF Rebuilding, FinishAsk, ByName, Done
<1>8. SameWay'
  BY SameTrail DEF SameWay, FinishAsk, Done
<1> QED
  BY <1>2, <1>3, <1>4, <1>5, <1>6, <1>7, <1>8 DEF IInv

\* What a dump wrote is not refused.
LEMMA DumpedIsAccepted ==
    ASSUME IInv, Refuse, loaded # NotLoaded,
           \/ command = "build" /\ context \in {loaded.context, NoContext}
           \/ command = "ask" /\ context = loaded.context /\ loaded.trail # <<>>
    PROVE  FALSE
<1> DEFINE d == loaded.file
           f == loaded.trail
<1>1. /\ d \in AllFiles /\ f \in Seq(Nat) /\ Decoding(loaded.context, d, f)
      /\ Len(path.members) = Len(d.keys) /\ Valid(path)
  BY LastDump DEF IInv
<1>2. /\ Followed(loaded.context, d, f) /\ Decodes(loaded.context, d, f) /\ Typed(d)
  BY DEF IInv, Kept
<1>3. pc # "idle" /\ (command = "build" => draft = d)
  BY DEF Refuse, IInv, Rebuilding
<1>4. Resolving => context = loaded.context /\ Resolves(loaded.context, d) /\ f # <<>>
  <2>1. CASE command = "build"
    <3>1. Resolving => Resolves(context, d) /\ context = loaded.context
      BY <1>3, <2>1 DEF Resolving, Resolves, ByName
    <3>2. Resolves(loaded.context, d) => Len(f) = Len(d.keys) /\ Len(d.keys) # 0
      BY <1>1, <1>2 DEF Followed, Resolves, AllFiles
    <3> QED
      BY <1>1, <3>1, <3>2
  <2>2. CASE command = "ask"
    BY <1>2, <2>2 DEF Followed
  <2> QED
    BY <2>1, <2>2
<1>5. CASE pc = "begin"
  <2>1. Count = Len(d.keys) /\ Count <= MaxDepth
    BY <1>1, <1>3 DEF Count, ByName, Valid
  <2>2. Resolving => Leads(context, control.root)
    BY <1>2, <1>4 DEF Followed
  <2> QED
    BY <1>5, <2>1, <2>2 DEF Refuse, CanBegin
<1>6. CASE pc = "follow"
  <2>1. context = loaded.context /\ f # <<>>
    BY <1>4, <1>6 DEF IInv, Steps
  <2> QED
    BY <1>6, <2>1, SamePlace DEF Refuse
<1>7. CASE pc = "finish" /\ ~ByName
  <2>1. command = "build" /\ draft = d /\ Followed(context, d, found)
    BY <1>3, <1>7 DEF ByName, IInv, Steps
  <2>2. CASE Resolves(context, d)
    <3>1. context = loaded.context /\ f # <<>>
      BY <1>4, <2>1, <2>2 DEF Resolving, ByName
    <3>2. found = f
      BY <1>7, <2>1, <3>1, SameTrail
    <3> QED
      BY <1>2, <1>7, <2>1, <3>1, <3>2 DEF Refuse
  <2>3. CASE ~Resolves(context, d)
    <3>1. found = <<>>
      BY <2>1, <2>3 DEF Followed
    <3>2. context = NoContext => Decodes(context, d, found)
      BY <1>1, <1>2, <3>1, DecodesWithout
    <3>3. context = loaded.context => Decodes(context, d, found)
      BY <1>2, <2>3, <3>1 DEF Followed
    <3> QED
      BY <1>7, <2>1, <3>2, <3>3 DEF Refuse
  <2> QED
    BY <2>2, <2>3
<1> QED
  BY <1>5, <1>6, <1>7 DEF Refuse

LEMMA RefuseKeeps ==
    ASSUME IInv, Refuse
    PROVE  IInv'
<1>1. NoDraft \in AllFiles
  BY DEF NoDraft, AllFiles
<1>2. TypeOK'
  BY <1>1 DEF IInv, TypeOK, Refuse, Done
<1>3. Usables'
  BY DEF IInv, Usables, Refuse, Done
<1>4. Drafts'
  BY DEF IInv, Drafts, Typed, Refuse, Done
<1>5. Steps'
  BY DEF Steps, Refuse, Done
<1>6. Kept'
  BY KeptStays DEF IInv, Refuse, Done
<1>7. Rebuilding' /\ SameWay'
  BY DumpedIsAccepted DEF Rebuilding, SameWay, Refuse, Done
<1> QED
  BY <1>2, <1>3, <1>4, <1>5, <1>6, <1>7 DEF IInv

-----------------------------------------------------------------------------
(* Theorems                                                                *)

LEMMA StepKeeps == IInv /\ [Next]_vars => IInv'
<1> SUFFICES ASSUME IInv, [Next]_vars PROVE IInv'
  OBVIOUS
<1>1. CASE \E p \in Paths : Edit(p)
  BY <1>1, EditKeeps
<1>2. CASE \E f \in Files : Foreign(f)
  BY <1>2, ForeignKeeps
<1>3. CASE \E c \in Usable : Dump(c) \/ Build(c) \/ Ask(c)
  BY <1>3, DumpKeeps, BuildKeeps, AskKeeps
<1>4. CASE Begin \/ Follow
  BY <1>4, BeginKeeps, FollowKeeps
<1>5. CASE FinishDump \/ FinishBuild \/ FinishAsk \/ Refuse
  BY <1>5, FinishDumpKeeps, FinishBuildKeeps, FinishAskKeeps, RefuseKeeps
<1>6. CASE UNCHANGED vars
  <2>1. TypeOK' /\ Usables' /\ Drafts' /\ Rebuilding' /\ SameWay'
    BY <1>6 DEF IInv, TypeOK, Usables, Drafts, Typed, Rebuilding, SameWay, vars
  <2>2. Steps'
    BY <1>6 DEF IInv, Steps, Resolving, Count, ByName, Resolves, AllIds, Leads, OwnerAt,
                OwnerOf, Turn, Chain, MembersKeyed, Followed, vars
  <2>3. Kept'
    BY <1>6, KeptStays DEF IInv, vars
  <2> QED
    BY <2>1, <2>2, <2>3 DEF IInv
<1> QED
  BY <1>1, <1>2, <1>3, <1>4, <1>5, <1>6 DEF Next

\* The inductive invariant of paths of members and their resolution.
THEOREM Invariance == Spec => []IInv
BY InitEstablishes, StepKeeps, PTL DEF Spec

\* Paths, links, descriptors found and outcomes stay in their ranges.
THEOREM TypeCorrect == Spec => []TypeOK
<1>1. IInv => TypeOK
  BY DEF IInv
<1> QED
  BY Invariance, <1>1, PTL

\* For any metadata and any depth of path: the names a dump wrote lead to the
\* descriptors that the keys led to.
THEOREM NamesAgreeWithKeys == Spec => []NamesFindTheSame
<1>1. IInv => NamesFindTheSame
  BY DEF IInv, SameWay, NamesFindTheSame
<1> QED
  BY Invariance, <1>1, PTL

\* For any metadata, path and control: what a dump wrote is built again into
\* the link and type it came from.
THEOREM DumpsAreRebuilt == Spec => []LoadedIsRebuilt
<1>1. IInv => LoadedIsRebuilt
  BY DEF IInv, Rebuilding, LoadedIsRebuilt
<1> QED
  BY Invariance, <1>1, PTL
=============================================================================
