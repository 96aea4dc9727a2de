--------------------------- MODULE ChatListsProofs ---------------------------
(***************************************************************************)
(* The lists hold, nothing is sent unasked and a character's images are    *)
(* its files, with one handler at a time; the limit on images holds        *)
(* whatever runs at once.  For any chats, ids, threads and pictures.       *)
(***************************************************************************)
EXTENDS ChatLists, FiniteSetTheorems, WellFoundedInduction, TLAPS

-----------------------------------------------------------------------------
(* Shapes *)

Places == Chats \cup Buckets

RowsTyped ==
  /\ items \in [Kinds -> SUBSET Ids]
  /\ owner \in [Ids -> Chats \cup {NoChat}]
  /\ chats \in [Chats -> {"new", "live", "gone"}]
  /\ spaces \subseteq Spaces
  /\ inSpace \in [Chats -> Spaces \cup {NoSpace}]
  /\ lists \in [Places -> IdLists]
  /\ snippets \in [Ids -> SUBSET Ids]
  /\ hidden \in [Chats -> IdLists] /\ paused \in [Chats -> IdLists]

FilesTyped == images \in [Ids -> SUBSET Pictures] /\ disk \in [Ids -> SUBSET Pictures]

LEMMA TypeParts ==
  /\ TypeOK <=> RowsTyped /\ FilesTyped /\ reqs \in [Threads -> Request] /\ edits \in 0 .. MaxEdits
  /\ TypeOK' <=> RowsTyped' /\ FilesTyped' /\ reqs' \in [Threads -> Request] /\ edits' \in 0 .. MaxEdits
BY DEF TypeOK, RowsTyped, FilesTyped, Places

LEMMA SameRows == RowsTyped /\ UNCHANGED rows => RowsTyped'
BY DEF RowsTyped, rows

LEMMA SameFiles == FilesTyped /\ UNCHANGED files => FilesTyped'
BY DEF FilesTyped, files

LEMMA KindsAre == "character" \in Kinds /\ "instruction" \in Kinds /\ "instruction_group" \in Kinds
BY DEF Kinds

LEMMA PlacesAre == Chats \subseteq Places /\ Buckets \subseteq Places /\ live \subseteq Chats /\ Present \subseteq Chats \cup spaces \cup {Defaults}
BY DEF Places, live, Present

LEMMA Idles == Idle \in Request /\ Idle.op = "idle"
BY DEF Idle, Request

\* What a request is made of.
LEMMA RequestFields ==
  ASSUME NEW r \in Request
  PROVE  /\ r.op = "list" => r.place \in Places /\ r.kind \in Kinds /\ r.ids \subseteq Ids
         /\ r.op = "group" => r.id \in Ids /\ r.ids \subseteq Ids
         /\ r.op = "attach" => r.chat \in Chats /\ r.kind \in Kinds /\ r.id \in Ids /\ r.ids \subseteq Ids
         /\ r.op = "look" => r.chat \in Chats /\ r.kind \in Kinds /\ r.id \in Ids
         /\ r.op = "make" => r.chat \in Chats /\ r.ids \subseteq Ids
         /\ r.op = "create" => r.chat \in Chats /\ r.kind \in Kinds /\ r.ids \subseteq Ids
         /\ r.op = "fork" => r.chat \in Chats /\ r.new \in Chats /\ r.ids \subseteq Ids /\ r.todo \subseteq Ids
         /\ r.op \in {"rmtree", "detach"} => r.id \in Ids /\ r.chat \in Chats \cup {NoChat} /\ r.todo \subseteq Ids
         /\ r.op = "purge" => r.chat \in Chats /\ r.todo \subseteq Ids
         /\ r.op \in {"upload", "drop"} => r.id \in Ids /\ r.seen \subseteq Pictures /\ r.picture \in Pictures
<1>1. CASE r = Idle
  BY <1>1 DEF Idle
<1>2. CASE r \in [op: {"list"}, place: Chats \cup Buckets, kind: Kinds, ids: SUBSET Ids]
  BY <1>2 DEF Places
<1>3. CASE r \in [op: {"group"}, id: Ids, ids: SUBSET Ids]
  BY <1>3
<1>4. CASE r \in [op: {"attach"}, chat: Chats, kind: Kinds, id: Ids, ids: SUBSET Ids]
  BY <1>4
<1>5. CASE r \in [op: {"look"}, chat: Chats, kind: Kinds, id: Ids]
  BY <1>5
<1>6. CASE r \in [op: {"make"}, chat: Chats, ids: SUBSET Ids] \cup [op: {"create"}, chat: Chats, kind: Kinds, ids: SUBSET Ids]
  BY <1>6
<1>7. CASE r \in [op: {"fork"}, chat: Chats, new: Chats, ids: SUBSET Ids, todo: SUBSET Ids]
  BY <1>7
<1>8. CASE r \in [op: {"rmtree", "detach"}, id: Ids, chat: Chats \cup {NoChat}, todo: SUBSET Ids]
  BY <1>8
<1>9. CASE r \in [op: {"purge"}, chat: Chats, todo: SUBSET Ids]
  BY <1>9
<1>10. CASE r \in [op: {"upload", "drop"}, id: Ids, seen: SUBSET Pictures, picture: Pictures]
  BY <1>10
<1>11. QED
  BY <1>1, <1>2, <1>3, <1>4, <1>5, <1>6, <1>7, <1>8, <1>9, <1>10 DEF Request

LEMMA GoesTyped ==
  ASSUME TypeOK, NEW t \in Threads, NEW r \in Request, Goes(t, r)
  PROVE  reqs' \in [Threads -> Request]
BY DEF TypeOK, Goes

LEMMA GoesIdle ==
  ASSUME TypeOK, NEW t \in Threads, Goes(t, Idle)
  PROVE  reqs' \in [Threads -> Request]
BY GoesTyped, Idles

LEMMA EditsTyped ==
  ASSUME TypeOK, NEW t \in Threads, Starts(t) \/ UNCHANGED edits
  PROVE  edits' \in 0 .. MaxEdits
BY BoundsAssumption DEF TypeOK, Starts

LEMMA AtOnceTyped ==
  ASSUME TypeOK, NEW t \in Threads, AtOnce(t)
  PROVE  reqs' \in [Threads -> Request] /\ edits' \in 0 .. MaxEdits
BY EditsTyped DEF AtOnce, TypeOK

\* Lists of ids.
LEMMA NothingTyped == Nothing \in IdLists
BY DEF Nothing, IdLists

LEMMA ListSet ==
  ASSUME NEW D, NEW f \in [D -> IdLists], NEW p, NEW k \in Kinds, NEW ids \in SUBSET Ids
  PROVE  [f EXCEPT ![p][k] = ids] \in [D -> IdLists]
BY DEF IdLists

LEMMA ToggledIds ==
  ASSUME NEW ids \in SUBSET Ids, NEW i \in Ids
  PROVE  Toggled(ids, i) \in SUBSET Ids
BY DEF Toggled

LEMMA DetachedTyped ==
  ASSUME RowsTyped, NEW k \in Kinds, NEW ids, Detached(k, ids)
  PROVE  lists' \in [Places -> IdLists] /\ snippets' \in [Ids -> SUBSET Ids]
<1>1. lists' \in [Places -> IdLists]
  <2>1. lists' = [p \in Places |-> [lists[p] EXCEPT ![k] = lists[p][k] \ ids]]
    BY DEF Detached, RowsTyped, IdLists
  <2>2. \A p \in Places : [lists[p] EXCEPT ![k] = lists[p][k] \ ids] \in IdLists
    BY DEF RowsTyped, IdLists
  <2>3. QED
    BY <2>1, <2>2
<1>2. CASE k = "instruction"
  BY <1>1, <1>2 DEF Detached, RowsTyped
<1>3. CASE k = "instruction_group"
  BY <1>1, <1>3 DEF Detached, RowsTyped
<1>4. CASE k = "character"
  BY <1>1, <1>4 DEF Detached, RowsTyped
<1>5. QED
  BY <1>2, <1>3, <1>4 DEF Kinds

LEMMA InsertedTyped ==
  ASSUME RowsTyped, NEW k \in Kinds, NextId(k) \in Ids, Inserted(k)
  PROVE  items' \in [Kinds -> SUBSET Ids]
BY DEF RowsTyped, Inserted

LEMMA NewCharacterTyped ==
  ASSUME RowsTyped, NEW c \in Chats \cup {NoChat}, NewCharacter(c)
  PROVE  items' \in [Kinds -> SUBSET Ids] /\ owner' \in [Ids -> Chats \cup {NoChat}]
BY InsertedTyped, KindsAre DEF NewCharacter, RowsTyped


-----------------------------------------------------------------------------
(* Every step keeps the shapes *)

LEMMA TypedInstructions ==
  ASSUME TypeOK, NEW t \in Threads,
         SaveInstruction(t) \/ AskGroup(t) \/ SaveGroup(t) \/ DeleteInstruction(t)
  PROVE  TypeOK'
<1>0. RowsTyped /\ FilesTyped /\ (UNCHANGED files => FilesTyped')
  BY TypeParts, SameFiles
<1>1. CASE SaveInstruction(t)
  <2>1. items' \in [Kinds -> SUBSET Ids]
    BY <1>0, <1>1, InsertedTyped, KindsAre DEF SaveInstruction
  <2>2. RowsTyped'
    BY <1>0, <1>1, <2>1 DEF SaveInstruction, RowsTyped
  <2>3. QED
    BY <1>0, <1>1, <2>2, AtOnceTyped, TypeParts DEF SaveInstruction
<1>2. CASE AskGroup(t)
  <2>1. PICK g \in Ids, ids \in SUBSET Ids : Goes(t, [op |-> "group", id |-> g, ids |-> ids])
    BY <1>0, <1>2, KindsAre DEF AskGroup, RowsTyped
  <2>2. [op |-> "group", id |-> g, ids |-> ids] \in Request
    BY DEF Request
  <2>3. QED
    BY <1>0, <1>2, <2>1, <2>2, GoesTyped, EditsTyped, SameRows, TypeParts DEF AskGroup
<1>3. CASE SaveGroup(t)
  <2>1. reqs[t].id \in Ids /\ reqs[t].ids \subseteq Ids
    BY <1>3, RequestFields DEF SaveGroup, On, TypeOK
  <2>2. items' \in [Kinds -> SUBSET Ids] /\ snippets' \in [Ids -> SUBSET Ids]
    BY <1>0, <1>3, <2>1, KindsAre DEF SaveGroup, RowsTyped
  <2>3. RowsTyped'
    BY <1>0, <1>3, <2>2 DEF SaveGroup, RowsTyped
  <2>4. QED
    BY <1>0, <1>3, <2>3, GoesIdle, EditsTyped, TypeParts DEF SaveGroup, On
<1>4. CASE DeleteInstruction(t)
  <2>1. PICK k \in Kinds \ {"character"}, i \in Ids : items' = [items EXCEPT ![k] = @ \ {i}] /\ Detached(k, {i})
    BY <1>0, <1>4 DEF DeleteInstruction, RowsTyped
  <2>2. items' \in [Kinds -> SUBSET Ids] /\ lists' \in [Places -> IdLists] /\ snippets' \in [Ids -> SUBSET Ids]
    BY <1>0, <2>1, DetachedTyped DEF RowsTyped
  <2>3. RowsTyped'
    BY <1>0, <1>4, <2>2 DEF DeleteInstruction, RowsTyped
  <2>4. QED
    BY <1>0, <1>4, <2>3, AtOnceTyped, TypeParts DEF DeleteInstruction
<1>5. QED
  BY <1>1, <1>2, <1>3, <1>4

LEMMA TypedLists ==
  ASSUME TypeOK, NEW t \in Threads, AskList(t) \/ SaveList(t) \/ SwitchOff(t)
  PROVE  TypeOK'
<1>0. RowsTyped /\ FilesTyped /\ (UNCHANGED files => FilesTyped')
  BY TypeParts, SameFiles
<1>1. CASE AskList(t)
  <2>1. PICK p \in Present, k \in Kinds, i \in Ids :
          Goes(t, [op |-> "list", place |-> p, kind |-> k, ids |-> Toggled(lists[p][k], i)])
    BY <1>1 DEF AskList
  <2>2. p \in Chats \cup Buckets
    BY <1>0 DEF Present, live, Buckets, RowsTyped
  <2>3. Toggled(lists[p][k], i) \in SUBSET Ids
    BY <1>0, <2>2, ToggledIds DEF RowsTyped, IdLists, Places
  <2>4. [op |-> "list", place |-> p, kind |-> k, ids |-> Toggled(lists[p][k], i)] \in Request
    BY <2>2, <2>3 DEF Request
  <2>5. QED
    BY <1>0, <1>1, <2>1, <2>4, GoesTyped, EditsTyped, SameRows, TypeParts DEF AskList
<1>2. CASE SaveList(t)
  <2>1. reqs[t].kind \in Kinds /\ reqs[t].ids \subseteq Ids
    BY <1>2, RequestFields DEF SaveList, On, TypeOK
  <2>2. lists' \in [Places -> IdLists]
    BY <1>0, <1>2, <2>1 DEF SaveList, RowsTyped, IdLists
  <2>3. RowsTyped'
    BY <1>0, <1>2, <2>2 DEF SaveList, RowsTyped
  <2>4. QED
    BY <1>0, <1>2, <2>3, GoesIdle, EditsTyped, TypeParts DEF SaveList, On
<1>3. CASE SwitchOff(t)
  <2>1. PICK c \in live, k \in Kinds, i \in Ids :
          \/ hidden' = [hidden EXCEPT ![c][k] = Toggled(@, i)] /\ UNCHANGED paused
          \/ paused' = [paused EXCEPT ![c][k] = Toggled(@, i)] /\ UNCHANGED hidden
    BY <1>3 DEF SwitchOff
  <2>2. Toggled(hidden[c][k], i) \in SUBSET Ids /\ Toggled(paused[c][k], i) \in SUBSET Ids
    BY <1>0, ToggledIds DEF RowsTyped, IdLists, live
  <2>3. hidden' \in [Chats -> IdLists] /\ paused' \in [Chats -> IdLists]
    <3>1. CASE hidden' = [hidden EXCEPT ![c][k] = Toggled(@, i)] /\ UNCHANGED paused
      BY <1>0, <2>2, <3>1 DEF RowsTyped, live, IdLists
    <3>2. CASE paused' = [paused EXCEPT ![c][k] = Toggled(@, i)] /\ UNCHANGED hidden
      BY <1>0, <2>2, <3>2 DEF RowsTyped, live, IdLists
    <3>3. QED
      BY <2>1, <3>1, <3>2
  <2>4. RowsTyped'
    BY <1>0, <1>3, <2>3 DEF SwitchOff, RowsTyped
  <2>5. QED
    BY <1>0, <1>3, <2>4, AtOnceTyped, TypeParts DEF SwitchOff
<1>4. QED
  BY <1>1, <1>2, <1>3

LEMMA TypedPlaces ==
  ASSUME TypeOK, NEW t \in Threads,
         \/ SaveSpace(t) \/ DeleteSpace(t) \/ MoveToSpace(t) \/ AskChat(t) \/ CreateChat(t)
         \/ AskDelete(t) \/ DeleteChat(t)
  PROVE  TypeOK'
<1>0. RowsTyped /\ FilesTyped /\ (UNCHANGED files => FilesTyped')
  BY TypeParts, SameFiles
<1>1. CASE SaveSpace(t) \/ DeleteSpace(t) \/ MoveToSpace(t)
  <2>1. spaces' \subseteq Spaces
    BY <1>0, <1>1 DEF SaveSpace, DeleteSpace, MoveToSpace, RowsTyped
  <2>2. inSpace' \in [Chats -> Spaces \cup {NoSpace}]
    BY <1>0, <1>1 DEF SaveSpace, DeleteSpace, MoveToSpace, RowsTyped
  <2>3. lists' \in [Places -> IdLists]
    BY <1>0, <1>1, NothingTyped DEF SaveSpace, DeleteSpace, MoveToSpace, RowsTyped
  <2>4. RowsTyped'
    BY <1>0, <1>1, <2>1, <2>2, <2>3 DEF SaveSpace, DeleteSpace, MoveToSpace, RowsTyped
  <2>5. QED
    BY <1>0, <1>1, <2>4, AtOnceTyped, TypeParts DEF SaveSpace, DeleteSpace, MoveToSpace
<1>2. CASE AskChat(t)
  <2>1. \A k \in Kinds : items[k] \subseteq Ids
    BY <1>0 DEF RowsTyped
  <2>2. PICK c \in Chats, k \in Kinds, ids \in SUBSET Ids :
          Goes(t, [op |-> "create", chat |-> c, kind |-> k, ids |-> ids])
    BY <1>2, <2>1 DEF AskChat
  <2>3. [op |-> "create", chat |-> c, kind |-> k, ids |-> ids] \in Request
    BY <2>2 DEF Request
  <2>4. QED
    BY <1>0, <1>2, <2>2, <2>3, GoesTyped, EditsTyped, SameRows, TypeParts DEF AskChat
<1>3. CASE CreateChat(t)
  <2>1. reqs[t].chat \in Chats /\ reqs[t].kind \in Kinds /\ reqs[t].ids \subseteq Ids
    BY <1>3, RequestFields DEF CreateChat, On, TypeOK
  <2>2. lists' \in [Places -> IdLists] /\ chats' \in [Chats -> {"new", "live", "gone"}]
    BY <1>0, <1>3, <2>1 DEF CreateChat, RowsTyped, IdLists
  <2>3. RowsTyped'
    BY <1>0, <1>3, <2>2 DEF CreateChat, RowsTyped
  <2>4. QED
    BY <1>0, <1>3, <2>3, GoesIdle, EditsTyped, TypeParts DEF CreateChat, On
<1>4. CASE AskDelete(t)
  <2>1. PICK c \in Chats : Goes(t, [op |-> "purge", chat |-> c, todo |-> ItsOwn(c)])
    BY <1>4, PlacesAre DEF AskDelete
  <2>2. ItsOwn(c) \subseteq Ids
    BY <1>0, KindsAre DEF ItsOwn, RowsTyped
  <2>3. [op |-> "purge", chat |-> c, todo |-> ItsOwn(c)] \in Request
    BY <2>2 DEF Request
  <2>4. QED
    BY <1>0, <1>4, <2>1, <2>3, GoesTyped, EditsTyped, SameRows, TypeParts DEF AskDelete
<1>5. CASE DeleteChat(t)
  <2>1. /\ lists' \in [Places -> IdLists]
        /\ hidden' \in [Chats -> IdLists] /\ paused' \in [Chats -> IdLists]
    <3>1. PICK c : /\ lists' = [lists EXCEPT ![c] = Nothing]
                   /\ hidden' = [hidden EXCEPT ![c] = Nothing]
                   /\ paused' = [paused EXCEPT ![c] = Nothing]
      BY <1>5 DEF DeleteChat
    <3>2. QED
      BY <1>0, <3>1, NothingTyped DEF RowsTyped
  <2>2. chats' \in [Chats -> {"new", "live", "gone"}] /\ inSpace' \in [Chats -> Spaces \cup {NoSpace}]
    BY <1>0, <1>5 DEF DeleteChat, RowsTyped
  <2>3. RowsTyped'
    BY <1>0, <1>5, <2>1, <2>2 DEF DeleteChat, RowsTyped
  <2>4. QED
    BY <1>0, <1>5, <2>3, GoesIdle, EditsTyped, TypeParts DEF DeleteChat, On
<1>6. QED
  BY <1>1, <1>2, <1>3, <1>4, <1>5

LEMMA TypedCharacters ==
  ASSUME TypeOK, NEW t \in Threads,
         \/ CreateCharacter(t) \/ AskCharacter(t) \/ MakeCharacter(t) \/ ToolCreates(t) \/ Look(t) \/ Attach(t)
         \/ Promote(t)
  PROVE  TypeOK'
<1>0. RowsTyped /\ FilesTyped /\ (UNCHANGED files => FilesTyped') /\ (UNCHANGED rows => RowsTyped')
  BY TypeParts, SameFiles, SameRows
<1>1. CASE CreateCharacter(t) \/ Promote(t)
  <2>1. items' \in [Kinds -> SUBSET Ids] /\ owner' \in [Ids -> Chats \cup {NoChat}]
    BY <1>0, <1>1, NewCharacterTyped DEF CreateCharacter, Promote, RowsTyped
  <2>2. RowsTyped'
    BY <1>0, <1>1, <2>1 DEF CreateCharacter, Promote, RowsTyped
  <2>3. QED
    BY <1>0, <1>1, <2>2, AtOnceTyped, TypeParts DEF CreateCharacter, Promote
<1>2. CASE AskCharacter(t)
  <2>1. PICK c \in live : Goes(t, [op |-> "make", chat |-> c, ids |-> lists[c]["character"]])
    BY <1>2 DEF AskCharacter
  <2>2. [op |-> "make", chat |-> c, ids |-> lists[c]["character"]] \in Request
    BY <1>0, KindsAre, PlacesAre DEF Request, RowsTyped, IdLists
  <2>3. QED
    BY <1>0, <1>2, <2>1, <2>2, GoesTyped, EditsTyped, TypeParts DEF AskCharacter
<1>3. CASE MakeCharacter(t)
  <2>1. reqs[t].chat \in Chats /\ reqs[t].ids \subseteq Ids
    BY <1>3, RequestFields DEF MakeCharacter, On, TypeOK
  <2>2. items' \in [Kinds -> SUBSET Ids] /\ owner' \in [Ids -> Chats \cup {NoChat}]
    BY <1>0, <1>3, <2>1, NewCharacterTyped DEF MakeCharacter
  <2>3. RowsTyped'
    BY <1>0, <1>3, <2>2 DEF MakeCharacter, RowsTyped
  <2>4. [op |-> "attach", chat |-> reqs[t].chat, kind |-> "character", id |-> NextId("character"),
         ids |-> reqs[t].ids] \in Request
    BY <1>3, <2>1, KindsAre DEF MakeCharacter, NewCharacter, Request
  <2>5. QED
    BY <1>0, <1>3, <2>3, <2>4, GoesTyped, EditsTyped, TypeParts DEF MakeCharacter, On
<1>4. CASE ToolCreates(t)
  <2>1. PICK c \in live, k \in {"character", "instruction"} :
          /\ NextId(k) \in Ids
          /\ Inserted(k)
          /\ Goes(t, [op |-> "look", chat |-> c, kind |-> k, id |-> NextId(k)])
          /\ \/ /\ owner' = [owner EXCEPT ![NextId(k)] = c]
                /\ \E ps \in SUBSET Fresh : /\ images' = [images EXCEPT ![NextId(k)] = ps]
                                            /\ disk' = [disk EXCEPT ![NextId(k)] = @ \cup ps]
             \/ UNCHANGED <<owner, files>>
    BY <1>4 DEF ToolCreates
  <2>2. items' \in [Kinds -> SUBSET Ids]
    BY <1>0, <2>1, InsertedTyped, KindsAre
  <2>3. owner' \in [Ids -> Chats \cup {NoChat}]
    BY <1>0, <2>1, PlacesAre DEF RowsTyped
  <2>4. FilesTyped'
    BY <1>0, <2>1 DEF FilesTyped, Fresh, files
  <2>5. RowsTyped'
    BY <1>0, <1>4, <2>2, <2>3 DEF ToolCreates, RowsTyped
  <2>6. [op |-> "look", chat |-> c, kind |-> k, id |-> NextId(k)] \in Request
    BY <2>1, KindsAre, PlacesAre DEF Request
  <2>7. QED
    BY <1>4, <2>1, <2>4, <2>5, <2>6, GoesTyped, EditsTyped, TypeParts DEF ToolCreates
<1>5. CASE Look(t)
  <2>1. reqs[t].chat \in Chats /\ reqs[t].kind \in Kinds /\ reqs[t].id \in Ids
    BY <1>5, RequestFields DEF Look, On, TypeOK
  <2>2. lists[reqs[t].chat][reqs[t].kind] \subseteq Ids
    BY <1>0, <2>1, PlacesAre DEF RowsTyped, IdLists
  <2>3. [op |-> "attach", chat |-> reqs[t].chat, kind |-> reqs[t].kind, id |-> reqs[t].id,
         ids |-> lists[reqs[t].chat][reqs[t].kind]] \in Request
    BY <2>1, <2>2 DEF Request
  <2>4. QED
    BY <1>0, <1>5, <2>3, GoesTyped, EditsTyped, TypeParts DEF Look, On
<1>6. CASE Attach(t)
  <2>1. reqs[t].kind \in Kinds /\ Attached(reqs[t]) \subseteq Ids
    BY <1>6, RequestFields DEF Attach, On, TypeOK, Attached
  <2>2. lists' \in [Places -> IdLists]
    BY <1>0, <1>6, <2>1, ListSet, ZenonT(40) DEF Attach, RowsTyped
  <2>3. RowsTyped'
    BY <1>0, <1>6, <2>2 DEF Attach, RowsTyped
  <2>4. QED
    BY <1>0, <1>6, <2>3, GoesIdle, EditsTyped, TypeParts DEF Attach, On
<1>7. QED
  BY <1>1, <1>2, <1>3, <1>4, <1>5, <1>6

LEMMA DeleteRowTyped ==
  ASSUME TypeOK, NEW t \in Threads, NEW i \in Ids, NEW c \in Chats \cup {NoChat}, NEW todo \in SUBSET Ids,
         DeleteRow(t, i, c, todo), Starts(t) \/ UNCHANGED edits
  PROVE  TypeOK'
<1>1. RowsTyped /\ FilesTyped
  BY TypeParts
<1>2. items' \in [Kinds -> SUBSET Ids] /\ lists' \in [Places -> IdLists] /\ snippets' \in [Ids -> SUBSET Ids]
  BY <1>1, DetachedTyped, KindsAre DEF DeleteRow, RowsTyped
<1>3. RowsTyped'
  BY <1>1, <1>2 DEF DeleteRow, RowsTyped
<1>4. FilesTyped'
  BY <1>1 DEF DeleteRow, FilesTyped
<1>5. [op |-> "rmtree", id |-> i, chat |-> c, todo |-> todo] \in Request
  BY DEF Request
<1>6. QED
  BY <1>3, <1>4, <1>5, GoesTyped, EditsTyped, TypeParts DEF DeleteRow

LEMMA TypedDeletion ==
  ASSUME TypeOK, NEW t \in Threads, DeleteCharacter(t) \/ RemoveFolder(t) \/ DetachAgain(t) \/ PurgeOne(t)
  PROVE  TypeOK'
<1>0. RowsTyped /\ FilesTyped /\ (UNCHANGED files => FilesTyped') /\ (UNCHANGED rows => RowsTyped')
  BY TypeParts, SameFiles, SameRows
<1>1. CASE DeleteCharacter(t)
  <2>1. PICK i \in Ids : DeleteRow(t, i, NoChat, {})
    BY <1>0, <1>1, KindsAre DEF DeleteCharacter, RowsTyped
  <2>2. Starts(t) /\ {} \in SUBSET Ids /\ NoChat \in Chats \cup {NoChat}
    BY <1>1 DEF DeleteCharacter
  <2>3. QED
    BY <2>1, <2>2, DeleteRowTyped
<1>2. CASE PurgeOne(t)
  <2>1. reqs[t].chat \in Chats /\ reqs[t].todo \subseteq Ids /\ UNCHANGED edits
    BY <1>2, RequestFields DEF PurgeOne, On, TypeOK
  <2>2. PICK i \in reqs[t].todo : DeleteRow(t, i, reqs[t].chat, reqs[t].todo \ {i})
    BY <1>2 DEF PurgeOne
  <2>3. reqs[t].todo \ {i} \in SUBSET Ids /\ i \in Ids /\ reqs[t].chat \in Chats \cup {NoChat}
    BY <2>1
  <2>4. QED
    BY <2>1, <2>2, <2>3, DeleteRowTyped
<1>3. CASE RemoveFolder(t)
  <2>1. reqs[t].id \in Ids /\ reqs[t].chat \in Chats \cup {NoChat} /\ reqs[t].todo \subseteq Ids
    BY <1>3, RequestFields DEF RemoveFolder, On, TypeOK
  <2>2. [op |-> "detach", id |-> reqs[t].id, chat |-> reqs[t].chat, todo |-> reqs[t].todo] \in Request
    BY <2>1 DEF Request
  <2>3. FilesTyped'
    BY <1>0, <1>3 DEF RemoveFolder, FolderGone, FilesTyped
  <2>4. QED
    BY <1>0, <1>3, <2>2, <2>3, GoesTyped, EditsTyped, TypeParts DEF RemoveFolder, On
<1>4. CASE DetachAgain(t)
  <2>1. reqs[t].id \in Ids /\ reqs[t].chat \in Chats \cup {NoChat} /\ reqs[t].todo \subseteq Ids
    BY <1>4, RequestFields DEF DetachAgain, On, TypeOK
  <2>2. reqs[t].chat # NoChat => [op |-> "purge", chat |-> reqs[t].chat, todo |-> reqs[t].todo] \in Request
    BY <2>1 DEF Request
  <2>3. reqs' \in [Threads -> Request]
    BY <1>4, <2>2, GoesTyped, Idles DEF DetachAgain
  <2>4. \A p \in Places : [lists[p] EXCEPT !["character"] = @ \ {reqs[t].id}] \in IdLists
    BY <1>0, KindsAre DEF RowsTyped, IdLists
  <2>5. DOMAIN lists = Places
    BY <1>0 DEF RowsTyped
  <2>6. lists' \in [Places -> IdLists]
    BY <1>0, <1>4, <2>4, <2>5 DEF DetachAgain, RowsTyped
  <2>7. RowsTyped'
    BY <1>0, <1>4, <2>6 DEF DetachAgain, RowsTyped
  <2>8. QED
    BY <1>0, <1>4, <2>3, <2>7, EditsTyped, TypeParts DEF DetachAgain, On
<1>5. QED
  BY <1>1, <1>2, <1>3, <1>4

LEMMA TypedForks ==
  ASSUME TypeOK, NEW t \in Threads, AskFork(t) \/ CopyCharacter(t) \/ EndFork(t)
  PROVE  TypeOK'
<1>0. RowsTyped /\ FilesTyped /\ (UNCHANGED files => FilesTyped') /\ (UNCHANGED rows => RowsTyped')
  BY TypeParts, SameFiles, SameRows
<1>1. CASE AskFork(t)
  <2>0. \A c \in live : ItsOwn(c) \subseteq Ids
    BY <1>0, KindsAre DEF ItsOwn, RowsTyped
  <2>1. PICK c \in live, d \in Chats, used \in SUBSET Ids :
          /\ chats' = [chats EXCEPT ![d] = "live"]
          /\ inSpace' = [inSpace EXCEPT ![d] = inSpace[c]]
          /\ lists' = [lists EXCEPT ![d] = [lists[c] EXCEPT !["character"] = {}]]
          /\ hidden' = [hidden EXCEPT ![d] = hidden[c]]
          /\ paused' = [paused EXCEPT ![d] = paused[c]]
          /\ Goes(t, [op |-> "fork", chat |-> c, new |-> d, ids |-> lists[c]["character"],
                      todo |-> used \cup lists[c]["character"]])
    BY <1>1, <2>0 DEF AskFork
  <2>2. c \in Chats /\ lists[c] \in IdLists /\ lists[c]["character"] \subseteq Ids /\ used \subseteq Ids
    BY <1>0, PlacesAre, KindsAre DEF RowsTyped, IdLists
  <2>3. [lists[c] EXCEPT !["character"] = {}] \in IdLists
    BY <2>2 DEF IdLists
  <2>4. lists' \in [Places -> IdLists]
    BY <1>0, <2>1, <2>3 DEF RowsTyped
  <2>5. /\ chats' \in [Chats -> {"new", "live", "gone"}] /\ inSpace' \in [Chats -> Spaces \cup {NoSpace}]
        /\ hidden' \in [Chats -> IdLists] /\ paused' \in [Chats -> IdLists]
    BY <1>0, <2>1, <2>2 DEF RowsTyped
  <2>6. RowsTyped'
    BY <1>0, <1>1, <2>4, <2>5 DEF AskFork, RowsTyped
  <2>7. [op |-> "fork", chat |-> c, new |-> d, ids |-> lists[c]["character"],
         todo |-> used \cup lists[c]["character"]] \in Request
    BY <2>2 DEF Request
  <2>8. QED
    BY <1>0, <1>1, <2>1, <2>6, <2>7, GoesTyped, EditsTyped, TypeParts DEF AskFork
<1>2. ASSUME reqs[t].op = "fork"
      PROVE  reqs[t].chat \in Chats /\ reqs[t].new \in Chats /\ reqs[t].ids \subseteq Ids /\ reqs[t].todo \subseteq Ids
  BY <1>2, RequestFields DEF TypeOK
<1>3. CASE CopyCharacter(t)
  <2>1. reqs[t].chat \in Chats /\ reqs[t].new \in Chats /\ reqs[t].ids \subseteq Ids /\ reqs[t].todo \subseteq Ids
    BY <1>2, <1>3 DEF CopyCharacter, On
  <2>2. PICK i \in reqs[t].todo :
          \/ /\ NewCharacter(reqs[t].new)
             /\ images' = [images EXCEPT ![NextId("character")] = images[i] \cap disk[i]]
             /\ disk' = [disk EXCEPT ![NextId("character")] = @ \cup (images[i] \cap disk[i])]
             /\ ForksOn(t, i, CopiesFor(reqs[t], i))
          \/ ForksOn(t, i, reqs[t].ids) /\ UNCHANGED <<items, owner, files>>
    BY <1>3 DEF CopyCharacter
  <2>3. items' \in [Kinds -> SUBSET Ids] /\ owner' \in [Ids -> Chats \cup {NoChat}]
    BY <1>0, <2>1, <2>2, NewCharacterTyped DEF RowsTyped
  <2>4. RowsTyped'
    BY <1>0, <1>3, <2>3 DEF CopyCharacter, RowsTyped
  <2>5. FilesTyped'
    <3>1. images[i] \cap disk[i] \subseteq Pictures
      BY <1>0, <2>1 DEF FilesTyped
    <3>2. QED
      BY <1>0, <2>2, <3>1 DEF FilesTyped, files
  <2>6. PICK ids \in SUBSET Ids : ForksOn(t, i, ids)
    BY <2>1, <2>2 DEF NewCharacter, CopiesFor
  <2>7. [op |-> "fork", chat |-> reqs[t].chat, new |-> reqs[t].new, ids |-> ids, todo |-> reqs[t].todo \ {i}] \in Request
    BY <2>1 DEF Request
  <2>8. QED
    BY <1>3, <2>4, <2>5, <2>6, <2>7, GoesTyped, EditsTyped, TypeParts DEF CopyCharacter, On, ForksOn
<1>4. CASE EndFork(t)
  <2>1. lists' \in [Places -> IdLists]
    BY <1>0, <1>2, <1>4, ListSet, KindsAre, ZenonT(40) DEF EndFork, On, RowsTyped
  <2>2. RowsTyped'
    BY <1>0, <1>4, <2>1 DEF EndFork, RowsTyped
  <2>3. QED
    BY <1>0, <1>4, <2>2, GoesIdle, EditsTyped, TypeParts DEF EndFork, On
<1>5. QED
  BY <1>1, <1>3, <1>4

LEMMA TypedImages ==
  ASSUME TypeOK, NEW t \in Threads, AskImage(t) \/ AddImage(t) \/ DropImage(t)
  PROVE  TypeOK'
<1>0. RowsTyped /\ FilesTyped /\ (UNCHANGED files => FilesTyped') /\ (UNCHANGED rows => RowsTyped')
  BY TypeParts, SameFiles, SameRows
<1>1. CASE AskImage(t)
  <2>1. PICK i \in items["character"], op \in {"upload", "drop"}, p \in Pictures :
          Goes(t, [op |-> op, id |-> i, seen |-> images[i], picture |-> p])
    BY <1>1 DEF AskImage
  <2>2. [op |-> op, id |-> i, seen |-> images[i], picture |-> p] \in Request
    BY <1>0, KindsAre DEF Request, RowsTyped, FilesTyped
  <2>3. QED
    BY <1>0, <1>1, <2>1, <2>2, GoesTyped, EditsTyped, TypeParts DEF AskImage
<1>2. CASE AddImage(t) \/ DropImage(t)
  <2>1. reqs[t].seen \subseteq Pictures /\ reqs[t].picture \in Pictures
    BY <1>2, RequestFields DEF AddImage, DropImage, On, TypeOK
  <2>2. FilesTyped'
    BY <1>0, <1>2, <2>1 DEF AddImage, DropImage, Listing, FilesTyped, files
  <2>3. QED
    BY <1>0, <1>2, <2>2, GoesIdle, EditsTyped, TypeParts DEF AddImage, DropImage, On
<1>3. QED
  BY <1>1, <1>2

LEMMA TypedStep == TypeOK /\ [Next]_vars => TypeOK'
<1>1. ASSUME TypeOK, NEW t \in Threads, Step(t) PROVE TypeOK'
  BY <1>1, TypedInstructions, TypedLists, TypedPlaces, TypedCharacters, TypedDeletion, TypedForks, TypedImages DEF Step
<1>2. CASE UNCHANGED vars
  BY <1>2 DEF vars, rows, files, TypeOK
<1>3. QED
  BY <1>1, <1>2 DEF Next


LEMMA InitTyped == Init => TypeOK
<1>1. ASSUME Init PROVE RowsTyped /\ FilesTyped
  BY <1>1, NothingTyped DEF Init, RowsTyped, FilesTyped, Nothing, Places
<1>2. ASSUME Init PROVE reqs \in [Threads -> Request] /\ edits \in 0 .. MaxEdits
  BY <1>2, Idles, BoundsAssumption DEF Init
<1>3. QED
  BY <1>1, <1>2, TypeParts

\* Rows, files and what requests hold keep their shape.
THEOREM ListsTypeCorrect == Spec => []TypeOK
BY InitTyped, TypedStep, PTL DEF Spec

-----------------------------------------------------------------------------
(* One handler at a time *)

\* The ids of a kind name rows.
Fits(k, ids) == ids \subseteq items[k]

ListsFit ==
  /\ \A p \in Places, k \in Kinds : Fits(k, lists[p][k])
  /\ \A g \in Ids : snippets[g] \subseteq items["instruction"]
  /\ \A i \in items["character"] : owner[i] \in live \cup {NoChat}

\* What a handler of lists has read or made is still so when it writes.
Attaches(r) ==
  /\ r.op = "list" => Fits(r.kind, r.ids)
  /\ r.op = "group" => r.ids \subseteq items["instruction"]
  /\ r.op = "create" => chats[r.chat] = "new" /\ Fits(r.kind, r.ids)
  /\ r.op = "make" => r.chat \in live /\ r.ids = lists[r.chat]["character"]
  /\ r.op \in {"look", "attach"} => r.chat \in live /\ Fits(r.kind, {r.id})
  /\ r.op = "attach" => r.ids = lists[r.chat][r.kind]

\* What a branch is given, if it is the chat's own, is still to be copied.
Copies(r) ==
  r.op = "fork" =>
    /\ r.chat \in live /\ r.new \in live /\ r.chat # r.new
    /\ r.ids \subseteq items["character"]
    /\ \A i \in r.ids : owner[i] = r.chat => i \in r.todo

\* A deletion has taken the row before the folder, and the chat goes last.
Deletes(r) ==
  /\ r.op \in {"rmtree", "detach"} => r.id \notin items["character"]
  /\ r.op = "rmtree" => images[r.id] = {}
  /\ r.op \in {"rmtree", "detach", "purge"} /\ r.chat # NoChat => r.chat \in live /\ ItsOwn(r.chat) \subseteq r.todo

Pictured(r) == r.op \in {"upload", "drop"} => r.id \in items["character"] /\ r.seen = images[r.id]

Holds(r) == Attaches(r) /\ Copies(r) /\ Deletes(r) /\ Pictured(r)

\* A character's folder, but for that of the row which was just deleted.
Kept(i) == images[i] = disk[i] /\ (i \in items["character"] \/ disk[i] = {})

Settled(t) ==
  /\ ListsFit
  /\ Holds(reqs[t])
  /\ \A i \in Ids : Kept(i) \/ (reqs[t].op = "rmtree" /\ reqs[t].id = i)

OneAtATime == \A t, u \in Threads : reqs[t] # Idle /\ reqs[u] # Idle => t = u

\* Between requests all is in order, and each thread's request finds it so but for
\* what it is about.
SerialInv ==
  /\ TypeOK
  /\ OneAtATime
  /\ AtRest => ListsFit /\ \A i \in Ids : Kept(i)
  /\ \A t \in Threads : (\A u \in Threads : u # t => reqs[u] = Idle) => Settled(t)

LEMMA IdleHolds == \A t \in Threads : (reqs[t] = Idle => Holds(reqs[t])) /\ (reqs'[t] = Idle => Holds(reqs[t])')
BY DEF Idle, Holds, Attaches, Copies, Deletes, Pictured

\* A step is that of one handler, which was under way or begins.
LEMMA Acts ==
  ASSUME TypeOK, NEW t \in Threads, Step(t)
  PROVE  /\ Starts(t) \/ reqs[t] # Idle
         /\ \A u \in Threads : u # t => reqs'[u] = reqs[u]
<1>1. \A r : Goes(t, r) => \A u \in Threads : u # t => reqs'[u] = reqs[u]
  BY DEF Goes, TypeOK
<1>2. \A op : On(t, op) /\ op # "idle" => reqs[t] # Idle
  BY DEF On, Idle
<1>3. AtOnce(t) => Starts(t) /\ \A u \in Threads : u # t => reqs'[u] = reqs[u]
  BY DEF AtOnce
<1>4. CASE SaveInstruction(t) \/ SwitchOff(t) \/ DeleteInstruction(t) \/ SaveSpace(t) \/ DeleteSpace(t) \/ MoveToSpace(t)
           \/ CreateCharacter(t) \/ Promote(t)
  BY <1>3, <1>4 DEF SaveInstruction, SwitchOff, DeleteInstruction, SaveSpace, DeleteSpace, MoveToSpace, CreateCharacter,
                    Promote
<1>5. CASE AskGroup(t) \/ AskList(t) \/ AskChat(t) \/ AskCharacter(t) \/ ToolCreates(t)
  BY <1>1, <1>5 DEF AskGroup, AskList, AskChat, AskCharacter, ToolCreates
<1>6. CASE DeleteCharacter(t) \/ AskDelete(t) \/ AskFork(t) \/ AskImage(t)
  BY <1>1, <1>6 DEF DeleteCharacter, DeleteRow, AskDelete, AskFork, AskImage
<1>7. CASE SaveGroup(t) \/ SaveList(t) \/ CreateChat(t) \/ MakeCharacter(t) \/ Look(t) \/ Attach(t)
  BY <1>1, <1>2, <1>7 DEF SaveGroup, SaveList, CreateChat, MakeCharacter, Look, Attach
<1>8. CASE RemoveFolder(t) \/ DetachAgain(t) \/ PurgeOne(t) \/ DeleteChat(t)
  BY <1>1, <1>2, <1>8 DEF RemoveFolder, DetachAgain, PurgeOne, DeleteRow, DeleteChat
<1>9. CASE CopyCharacter(t) \/ EndFork(t) \/ AddImage(t) \/ DropImage(t)
  BY <1>1, <1>2, <1>9 DEF CopyCharacter, ForksOn, EndFork, AddImage, DropImage
<1>10. QED
  BY <1>4, <1>5, <1>6, <1>7, <1>8, <1>9 DEF Step

\* With one handler at a time the others are idle before and after.
LEMMA Alone ==
  ASSUME Serial, SerialInv, NEW t \in Threads, Step(t)
  PROVE  /\ \A u \in Threads : u # t => reqs[u] = Idle /\ reqs'[u] = Idle
         /\ Settled(t)
<1>1. TypeOK /\ OneAtATime
  BY DEF SerialInv
<1>2. \A u \in Threads : u # t => reqs[u] = Idle
  BY <1>1, Acts DEF Starts, OneAtATime
<1>3. QED
  BY <1>1, <1>2, Acts DEF SerialInv

LEMMA SettledAgain ==
  ASSUME Serial, SerialInv, NEW t \in Threads, Step(t), Settled(t)'
  PROVE  SerialInv'
<1>1. \A u \in Threads : u # t => reqs'[u] = Idle
  BY Alone
<1>2. TypeOK' /\ OneAtATime'
  BY <1>1, TypedStep DEF SerialInv, Next, OneAtATime
<1>3. ASSUME NEW v \in Threads, \A u \in Threads : u # v => reqs'[u] = Idle
      PROVE  Settled(v)'
  <2>1. CASE v = t
    BY <2>1
  <2>2. CASE v # t
    <3>1. reqs'[t] = Idle /\ reqs'[v] = Idle
      BY <1>1, <1>3, <2>2
    <3>2. QED
      BY <3>1 DEF Settled
  <2>3. QED
    BY <2>1, <2>2
<1>4. AtRest' => ListsFit' /\ \A i \in Ids : Kept(i)'
  BY Idles DEF AtRest, Settled
<1>5. QED
  BY <1>2, <1>3, <1>4 DEF SerialInv

\* A key that is handed out names no row.
LEMMA Least ==
  ASSUME NEW T, T \subseteq Nat, T # {}
  PROVE  \E x \in T : \A y \in T : x <= y
<1>1. PICK x \in T : \A y \in T : ~ (<<y, x>> \in OpToRel(<, Nat))
  BY NatLessThanWellFounded, WFMin
<1>2. \A y \in T : ~ (y < x)
  BY <1>1 DEF OpToRel
<1>3. QED
  BY <1>2

LEMMA NextIdNew ==
  ASSUME TypeOK, NEW k \in Kinds
  PROVE  NextId(k) \notin items[k]
<1> DEFINE above == {n \in 1 .. MaxId + 1 : \A i \in items[k] : i < n}
<1>1. MaxId \in Nat /\ items[k] \subseteq 1 .. MaxId
  BY BoundsAssumption DEF TypeOK, Ids
<1>2. above \subseteq Nat /\ MaxId + 1 \in above
  BY <1>1
<1>3. PICK n \in above : \A m \in above : n <= m
  BY <1>2, Least
<1>4. n - 1 \in items[k] \cup {0}
  <2>1. SUFFICES ASSUME n # 1, n - 1 \notin items[k] PROVE n - 1 \in above
    BY <1>1, <1>3
  <2>2. n - 1 \in 1 .. MaxId + 1
    BY <1>1, <2>1
  <2>3. \A i \in items[k] : i < n - 1
    BY <1>1, <1>3, <2>1
  <2>4. QED
    BY <2>2, <2>3
<1>5. \E m \in 1 .. MaxId + 1 : m - 1 \in items[k] \cup {0} /\ \A i \in items[k] : i < m
  BY <1>3, <1>4
<1>6. NextId(k) \in 1 .. MaxId + 1 /\ \A i \in items[k] : i < NextId(k)
  BY <1>5 DEF NextId
<1>7. QED
  BY <1>1, <1>6

-----------------------------------------------------------------------------
(* Every step settles *)

\* What a request that begins has read.
LEMMA SettledAsk ==
  ASSUME TypeOK, NEW t \in Threads, Settled(t), reqs[t] = Idle, UNCHANGED <<rows, files>>, Holds(reqs[t])'
  PROVE  Settled(t)'
BY DEF Settled, Idle, ListsFit, Fits, Kept, live, rows, files

LEMMA FitsKept ==
  ASSUME \A k \in Kinds : items[k] \subseteq items'[k],
         \A i \in items["character"] : owner'[i] \in {owner[i], NoChat}
  PROVE  \A k, ids : k \in Kinds /\ Fits(k, ids) => Fits(k, ids)'
BY DEF Fits

LEMMA SettledAsks ==
  ASSUME TypeOK, NEW t \in Threads, Settled(t),
         \/ AskGroup(t) \/ AskList(t) \/ AskChat(t) \/ AskCharacter(t) \/ AskDelete(t) \/ AskImage(t)
  PROVE  Settled(t)'
<1>0. /\ reqs[t] = Idle /\ UNCHANGED <<rows, files>>
      /\ \A r : Goes(t, r) => reqs'[t] = r
  BY DEF AskGroup, AskList, AskChat, AskCharacter, AskDelete, AskImage, Starts, Goes, TypeOK
<1>1. SUFFICES Holds(reqs[t])'
  BY <1>0, SettledAsk
<1>2. CASE AskGroup(t)
  <2>1. PICK g \in Ids, ids \in SUBSET items["instruction"] : reqs'[t] = [op |-> "group", id |-> g, ids |-> ids]
    BY <1>0, <1>2 DEF AskGroup
  <2>2. QED
    BY <1>0, <2>1 DEF Holds, Attaches, Copies, Deletes, Pictured, rows
<1>3. CASE AskList(t)
  <2>1. PICK p \in Present, k \in Kinds, i \in Ids :
          /\ Toggled(lists[p][k], i) \subseteq items[k]
          /\ reqs'[t] = [op |-> "list", place |-> p, kind |-> k, ids |-> Toggled(lists[p][k], i)]
    BY <1>0, <1>3 DEF AskList
  <2>2. Fits(k, Toggled(lists[p][k], i))'
    BY <1>0, <2>1 DEF Fits, Toggled, rows
  <2>3. QED
    BY <1>0, <2>1, <2>2 DEF Holds, Attaches, Copies, Deletes, Pictured, Fits, Toggled, rows
<1>4. CASE AskChat(t)
  <2>1. PICK c \in Chats, k \in Kinds : \E ids \in SUBSET items[k] :
          /\ chats[c] = "new"
          /\ reqs'[t] = [op |-> "create", chat |-> c, kind |-> k, ids |-> ids]
    BY <1>0, <1>4 DEF AskChat
  <2>2. PICK ids \in SUBSET items[k] : reqs'[t] = [op |-> "create", chat |-> c, kind |-> k, ids |-> ids]
    BY <2>1
  <2>3. QED
    BY <1>0, <2>1, <2>2 DEF Holds, Attaches, Copies, Deletes, Pictured, Fits, rows
<1>5. CASE AskCharacter(t)
  <2>1. PICK c \in live : reqs'[t] = [op |-> "make", chat |-> c, ids |-> lists[c]["character"]]
    BY <1>0, <1>5 DEF AskCharacter
  <2>2. QED
    BY <1>0, <2>1 DEF Holds, Attaches, Copies, Deletes, Pictured, live, rows
<1>6. CASE AskDelete(t)
  <2>1. PICK c \in live : reqs'[t] = [op |-> "purge", chat |-> c, todo |-> ItsOwn(c)]
    BY <1>0, <1>6 DEF AskDelete
  <2>2. QED
    BY <1>0, <2>1 DEF Holds, Attaches, Copies, Deletes, Pictured, live, rows, ItsOwn
<1>7. CASE AskImage(t)
  <2>1. PICK i \in items["character"], op \in {"upload", "drop"}, p \in Pictures :
          reqs'[t] = [op |-> op, id |-> i, seen |-> images[i], picture |-> p]
    BY <1>0, <1>7 DEF AskImage
  <2>2. QED
    BY <1>0, <2>1 DEF Holds, Attaches, Copies, Deletes, Pictured, rows, files
<1>8. QED
  BY <1>2, <1>3, <1>4, <1>5, <1>6, <1>7

\* Steps that end a request, or take one call, and leave characters alone.
LEMMA SettledIdle ==
  ASSUME TypeOK, NEW t \in Threads, Settled(t), reqs[t].op # "rmtree", ListsFit', reqs'[t] = Idle,
         items'["character"] = items["character"], UNCHANGED files
  PROVE  Settled(t)'
BY IdleHolds DEF Settled, Kept, files

LEMMA SettledInstructions ==
  ASSUME TypeOK, NEW t \in Threads, Settled(t),
         SaveInstruction(t) \/ SaveGroup(t) \/ DeleteInstruction(t)
  PROVE  Settled(t)'
<1>1. reqs'[t] = Idle /\ reqs[t].op # "rmtree" /\ UNCHANGED files
  BY Idles DEF SaveInstruction, SaveGroup, DeleteInstruction, AtOnce, Starts, On, Goes, TypeOK
<1>2. CASE SaveInstruction(t) \/ SaveGroup(t)
  <2>1. PICK k \in Kinds \ {"character"}, i \in Ids : items' = [items EXCEPT ![k] = @ \cup {i}]
    <3>1. CASE SaveInstruction(t)
      BY <3>1, KindsAre DEF SaveInstruction, Inserted
    <3>2. CASE SaveGroup(t)
      <4>1. reqs[t].id \in Ids
        BY <3>2, RequestFields DEF SaveGroup, On, TypeOK
      <4>2. QED
        BY <3>2, <4>1, KindsAre DEF SaveGroup
    <3>3. QED
      BY <1>2, <3>1, <3>2
  <2>2. /\ \A j \in Kinds : items[j] \subseteq items'[j]
        /\ items'["character"] = items["character"] /\ UNCHANGED <<owner, lists, chats>>
    BY <1>2, <2>1, KindsAre DEF SaveInstruction, SaveGroup, TypeOK
  <2>3. \A g \in Ids : snippets'[g] \subseteq items["instruction"]
    BY <1>2 DEF SaveInstruction, SaveGroup, On, Settled, Holds, Attaches, ListsFit, TypeOK
  <2>4. ListsFit'
    BY <2>2, <2>3, KindsAre DEF Settled, ListsFit, Fits, live
  <2>5. QED
    BY <1>1, <2>2, <2>4, SettledIdle
<1>3. CASE DeleteInstruction(t)
  <2>1. PICK k \in Kinds \ {"character"}, i \in Ids : items' = [items EXCEPT ![k] = @ \ {i}] /\ Detached(k, {i})
    BY <1>3 DEF DeleteInstruction, TypeOK
  <2>2. /\ items'["character"] = items["character"] /\ UNCHANGED <<owner, chats>>
        /\ \A j \in Kinds : items'[j] = IF j = k THEN items[j] \ {i} ELSE items[j]
    BY <1>3, <2>1, KindsAre DEF DeleteInstruction, TypeOK
  <2>3. \A p \in Places, j \in Kinds : lists'[p][j] = IF j = k THEN lists[p][j] \ {i} ELSE lists[p][j]
    BY <2>1 DEF Detached, TypeOK, Places, IdLists
  <2>4. ASSUME NEW p \in Places, NEW j \in Kinds PROVE Fits(j, lists[p][j])'
    <3>1. Fits(j, lists[p][j])
      BY DEF Settled, ListsFit
    <3>2. CASE j = k
      BY <2>2, <2>3, <3>1, <3>2 DEF Fits
    <3>3. CASE j # k
      BY <2>2, <2>3, <3>1, <3>3 DEF Fits
    <3>4. QED
      BY <3>2, <3>3
  <2>5. \A g \in Ids : snippets'[g] \subseteq items'["instruction"]
    <3>1. CASE k = "instruction"
      BY <2>1, <2>2, <3>1, KindsAre DEF Detached, Settled, ListsFit
    <3>2. CASE k = "instruction_group"
      BY <2>1, <2>2, <3>2, KindsAre DEF Detached, Settled, ListsFit
    <3>3. QED
      BY <3>1, <3>2 DEF Kinds
  <2>6. ListsFit'
    BY <2>2, <2>4, <2>5 DEF Settled, ListsFit, live
  <2>7. QED
    BY <1>1, <2>2, <2>6, SettledIdle
<1>4. QED
  BY <1>2, <1>3

\* One list is replaced by ids that fit.
LEMMA FitsPut ==
  ASSUME RowsTyped, ListsFit, NEW p \in Places, NEW k \in Kinds, NEW ids, Fits(k, ids),
         lists' = [lists EXCEPT ![p][k] = ids], UNCHANGED <<items, owner, snippets>>, live \subseteq live'
  PROVE  ListsFit'
<1>1. \A q \in Places, j \in Kinds : lists'[q][j] = IF q = p /\ j = k THEN ids ELSE lists[q][j]
  BY DEF RowsTyped, IdLists
<1>2. QED
  BY <1>1 DEF ListsFit, Fits

LEMMA SettledLists ==
  ASSUME TypeOK, NEW t \in Threads, Settled(t),
         SaveList(t) \/ SwitchOff(t) \/ SaveSpace(t) \/ DeleteSpace(t) \/ MoveToSpace(t) \/ CreateChat(t) \/ Attach(t)
  PROVE  Settled(t)'
<1>0. RowsTyped /\ ListsFit
  BY TypeParts DEF Settled
<1>1. reqs'[t] = Idle /\ reqs[t].op # "rmtree" /\ UNCHANGED <<items, owner, snippets, files>>
  BY Idles DEF SaveList, SwitchOff, SaveSpace, DeleteSpace, MoveToSpace, CreateChat, Attach, AtOnce, Starts, On, Goes, TypeOK
<1>2. SUFFICES ListsFit'
  BY <1>1, SettledIdle
<1>3. CASE SwitchOff(t) \/ SaveSpace(t) \/ MoveToSpace(t)
  <2>1. UNCHANGED <<lists, chats>>
    BY <1>3 DEF SwitchOff, SaveSpace, MoveToSpace
  <2>2. QED
    BY <1>0, <1>1, <2>1 DEF ListsFit, Fits, live
<1>4. CASE DeleteSpace(t)
  <2>1. PICK s \in Places : lists' = [lists EXCEPT ![s] = Nothing] /\ UNCHANGED chats
    BY <1>4 DEF DeleteSpace, TypeOK, Places, Buckets
  <2>2. \A p \in Places, k \in Kinds : lists'[p][k] \in {{}, lists[p][k]}
    BY <1>0, <2>1 DEF Nothing, RowsTyped
  <2>3. QED
    BY <1>0, <1>1, <2>1, <2>2 DEF ListsFit, Fits, live
<1>5. CASE SaveList(t)
  <2>1. reqs[t].kind \in Kinds /\ reqs[t].place \in Places /\ Fits(reqs[t].kind, reqs[t].ids)
    BY <1>5, RequestFields DEF SaveList, On, TypeOK, Settled, Holds, Attaches
  <2>2. CASE reqs[t].place \in Present
    BY <1>0, <1>1, <1>5, <2>1, <2>2, FitsPut DEF SaveList, live
  <2>3. CASE reqs[t].place \notin Present
    BY <1>0, <1>1, <1>5, <2>3 DEF SaveList, ListsFit, Fits, live
  <2>4. QED
    BY <2>2, <2>3
<1>6. CASE CreateChat(t)
  <2>1. /\ reqs[t].kind \in Kinds /\ reqs[t].chat \in Places /\ Fits(reqs[t].kind, reqs[t].ids)
        /\ live \subseteq live'
    BY <1>6, RequestFields DEF CreateChat, On, TypeOK, Settled, Holds, Attaches, Places, live
  <2>2. QED
    BY <1>0, <1>1, <1>6, <2>1, FitsPut DEF CreateChat
<1>7. CASE Attach(t)
  <2>1. /\ reqs[t].kind \in Kinds /\ reqs[t].chat \in Chats /\ reqs[t].chat \in live
        /\ Fits(reqs[t].kind, {reqs[t].id}) /\ reqs[t].ids = lists[reqs[t].chat][reqs[t].kind]
    BY <1>7, RequestFields DEF Attach, On, TypeOK, Settled, Holds, Attaches
  <2>2. Fits(reqs[t].kind, reqs[t].ids)
    BY <1>0, <2>1, PlacesAre DEF ListsFit
  <2>3. Fits(reqs[t].kind, Attached(reqs[t]))
    BY <2>1, <2>2 DEF Fits, Attached
  <2>4. lists' = [lists EXCEPT ![reqs[t].chat][reqs[t].kind] = Attached(reqs[t])] /\ live \subseteq live'
    BY <1>7, <2>1 DEF Attach, live
  <2>5. QED
    BY <1>0, <1>1, <2>1, <2>3, <2>4, FitsPut, PlacesAre
<1>8. QED
  BY <1>3, <1>4, <1>5, <1>6, <1>7

LEMMA AllKept ==
  ASSUME NEW t \in Threads, Settled(t), reqs[t].op # "rmtree"
  PROVE  \A i \in Ids : Kept(i)
BY DEF Settled

\* A new row leaves what fits as it is.
LEMMA ListsFitAfterInsert ==
  ASSUME TypeOK, ListsFit, NEW k \in Kinds, NextId(k) \in Ids, Inserted(k),
         \/ k # "character" /\ UNCHANGED owner
         \/ k = "character" /\ \E c \in live' \cup {NoChat} : owner' = [owner EXCEPT ![NextId(k)] = c],
         UNCHANGED <<lists, snippets>>, live \subseteq live'
  PROVE  /\ ListsFit'
         /\ \A j \in Kinds : items[j] \subseteq items'[j]
         /\ \A i \in items["character"] : owner'[i] = owner[i]
<1>1. NextId(k) \notin items[k]
  BY NextIdNew
<1>2. \A j \in Kinds : items[j] \subseteq items'[j] /\ items'[j] \subseteq items[j] \cup {NextId(k)} /\ (j # k => items'[j] = items[j])
  BY DEF Inserted, TypeOK
<1>3. \A i \in items["character"] : owner'[i] = owner[i]
  BY <1>1, KindsAre DEF TypeOK
<1>4. \A p \in Places, j \in Kinds : Fits(j, lists[p][j])'
  BY <1>2, <1>3, FitsKept DEF ListsFit, Fits
<1>5. \A g \in Ids : snippets'[g] \subseteq items'["instruction"]
  BY <1>2, KindsAre DEF ListsFit
<1>6. \A i \in items'["character"] : owner'[i] \in live' \cup {NoChat}
  <2>1. CASE k = "character"
    <3>1. ASSUME NEW i \in items'["character"], i # NextId(k) PROVE owner'[i] \in live' \cup {NoChat}
      BY <1>2, <1>3, <2>1, <3>1 DEF ListsFit
    <3>2. owner'[NextId(k)] \in live' \cup {NoChat}
      BY <2>1 DEF TypeOK
    <3>3. QED
      BY <1>2, <2>1, <3>1, <3>2
  <2>2. CASE k # "character"
    BY <1>2, <1>3, <2>2, KindsAre DEF ListsFit
  <2>3. QED
    BY <2>1, <2>2
<1>7. QED
  BY <1>2, <1>3, <1>4, <1>5, <1>6 DEF ListsFit

LEMMA SettledCreations ==
  ASSUME TypeOK, NEW t \in Threads, Settled(t),
         CreateCharacter(t) \/ MakeCharacter(t) \/ ToolCreates(t) \/ Look(t) \/ Promote(t)
  PROVE  Settled(t)'
<1>0. /\ ListsFit /\ reqs[t].op # "rmtree" /\ UNCHANGED <<lists, snippets, chats>>
      /\ live' = live /\ (\A i \in Ids : Kept(i))
      /\ \A r : Goes(t, r) => reqs'[t] = r
  <2>1. reqs[t].op # "rmtree" /\ UNCHANGED <<lists, snippets, chats>>
    BY Idles DEF CreateCharacter, MakeCharacter, ToolCreates, Look, Promote, AtOnce, Starts, On, rows
  <2>2. QED
    BY <2>1, AllKept DEF Settled, live, Goes, TypeOK
<1>1. CASE CreateCharacter(t)
  <2>1. NextId("character") \in Ids /\ Inserted("character") /\ owner' = [owner EXCEPT ![NextId("character")] = NoChat]
        /\ reqs'[t] = Idle /\ UNCHANGED files
    BY <1>1 DEF CreateCharacter, NewCharacter, AtOnce, Starts
  <2>2. ListsFit' /\ items["character"] \subseteq items'["character"]
    BY <1>0, <2>1, ListsFitAfterInsert, KindsAre
  <2>3. QED
    BY <1>0, <2>1, <2>2, IdleHolds DEF Settled, Kept, files
<1>2. CASE Promote(t)
  <2>1. PICK i \in items["character"] : owner' = [owner EXCEPT ![i] = NoChat]
    BY <1>2 DEF Promote
  <2>2. reqs'[t] = Idle /\ UNCHANGED <<items, files>>
    BY <1>2 DEF Promote, AtOnce, Starts
  <2>3. \A j \in Ids : owner'[j] \in {owner[j], NoChat}
    BY <2>1 DEF TypeOK
  <2>4. ListsFit'
    BY <1>0, <2>2, <2>3, KindsAre DEF ListsFit, Fits, TypeOK
  <2>5. QED
    BY <1>0, <2>2, <2>4, IdleHolds DEF Settled, Kept, files
<1>3. CASE MakeCharacter(t)
  <2>1. /\ reqs[t].chat \in live /\ reqs[t].ids = lists[reqs[t].chat]["character"]
        /\ reqs[t].chat \in Chats
    BY <1>3 DEF MakeCharacter, On, Settled, Holds, Attaches, live
  <2>2. /\ NextId("character") \in Ids /\ Inserted("character")
        /\ owner' = [owner EXCEPT ![NextId("character")] = reqs[t].chat] /\ UNCHANGED files
        /\ reqs'[t] = [op |-> "attach", chat |-> reqs[t].chat, kind |-> "character",
                       id |-> NextId("character"), ids |-> reqs[t].ids]
    BY <1>0, <1>3 DEF MakeCharacter, NewCharacter
  <2>3. ListsFit' /\ items["character"] \subseteq items'["character"]
    BY <1>0, <2>1, <2>2, ListsFitAfterInsert, KindsAre
  <2>4. NextId("character") \in items'["character"] /\ owner'[NextId("character")] = reqs[t].chat
    BY <2>2, KindsAre DEF Inserted, TypeOK
  <2>5. Holds(reqs[t])'
    BY <1>0, <2>1, <2>2, <2>4 DEF Holds, Attaches, Copies, Deletes, Pictured, Fits
  <2>6. QED
    BY <1>0, <2>2, <2>3, <2>5 DEF Settled, Kept, files
<1>4. CASE ToolCreates(t)
  <2>1. PICK c \in live, k \in {"character", "instruction"} :
          /\ NextId(k) \in Ids /\ Inserted(k)
          /\ reqs'[t] = [op |-> "look", chat |-> c, kind |-> k, id |-> NextId(k)]
          /\ \/ /\ k = "character"
                /\ owner' = [owner EXCEPT ![NextId(k)] = c]
                /\ \E ps \in SUBSET Fresh : /\ images' = [images EXCEPT ![NextId(k)] = ps]
                                            /\ disk' = [disk EXCEPT ![NextId(k)] = @ \cup ps]
             \/ k = "instruction" /\ UNCHANGED <<owner, files>>
    BY <1>0, <1>4 DEF ToolCreates
  <2>2. /\ ListsFit' /\ items["character"] \subseteq items'["character"]
    BY <1>0, <2>1, ListsFitAfterInsert, KindsAre
  <2>3. NextId(k) \in items'[k] /\ (k = "character" => owner'[NextId(k)] = c)
    BY <2>1, KindsAre DEF Inserted, TypeOK
  <2>4. Holds(reqs[t])'
    BY <1>0, <2>1, <2>3 DEF Holds, Attaches, Copies, Deletes, Pictured, Fits
  <2>5. \A i \in Ids : Kept(i)'
    <3>1. CASE k = "instruction"
      BY <1>0, <2>1, <2>2, <3>1 DEF Kept, files
    <3>2. CASE k = "character"
      <4>1. disk[NextId(k)] = {}
        BY <1>0, <2>1, <3>2, NextIdNew, KindsAre DEF Kept
      <4>2. PICK ps : /\ images' = [images EXCEPT ![NextId(k)] = ps]
                      /\ disk' = [disk EXCEPT ![NextId(k)] = ps]
        BY <2>1, <3>2, <4>1 DEF TypeOK
      <4>3. QED
        BY <1>0, <2>1, <2>2, <2>3, <3>2, <4>2 DEF Kept, TypeOK
    <3>3. QED
      BY <2>1, <3>1, <3>2
  <2>6. QED
    BY <2>2, <2>4, <2>5 DEF Settled
<1>5. CASE Look(t)
  <2>1. reqs[t].chat \in live /\ Fits(reqs[t].kind, {reqs[t].id})
    BY <1>5 DEF Look, On, Settled, Holds, Attaches
  <2>2. /\ reqs'[t] = [op |-> "attach", chat |-> reqs[t].chat, kind |-> reqs[t].kind, id |-> reqs[t].id,
                       ids |-> lists[reqs[t].chat][reqs[t].kind]]
        /\ UNCHANGED <<rows, files>>
    BY <1>0, <1>5 DEF Look
  <2>3. Holds(reqs[t])'
    BY <1>0, <2>1, <2>2 DEF Holds, Attaches, Copies, Deletes, Pictured, Fits, rows
  <2>4. QED
    BY <1>0, <2>2, <2>3 DEF Settled, ListsFit, Fits, Kept, live, rows, files
<1>6. QED
  BY <1>1, <1>2, <1>3, <1>4, <1>5

\* A character's row goes, from every list and with its images.
LEMMA SettledDeleteRow ==
  ASSUME TypeOK, NEW t \in Threads, ListsFit, \A j \in Ids : Kept(j), NEW i \in Ids, NEW c, NEW todo,
         DeleteRow(t, i, c, todo), c # NoChat => c \in live /\ ItsOwn(c) \subseteq todo \cup {i}
  PROVE  Settled(t)'
<1>1. /\ reqs'[t] = [op |-> "rmtree", id |-> i, chat |-> c, todo |-> todo]
      /\ items' = [items EXCEPT !["character"] = @ \ {i}]
      /\ owner' = [owner EXCEPT ![i] = NoChat] /\ images' = [images EXCEPT ![i] = {}]
      /\ UNCHANGED <<chats, disk, snippets>> /\ live' = live
  BY DEF DeleteRow, Goes, TypeOK, Detached, live
<1>2. \A p \in Places, k \in Kinds : lists'[p][k] = IF k = "character" THEN lists[p][k] \ {i} ELSE lists[p][k]
  BY DEF DeleteRow, Detached, TypeOK, Places, IdLists
<1>3. /\ items'["character"] = items["character"] \ {i}
      /\ \A k \in Kinds : k # "character" => items'[k] = items[k]
      /\ \A j \in Ids : j # i => owner'[j] = owner[j] /\ images'[j] = images[j]
      /\ images'[i] = {} /\ owner'[i] = NoChat
  BY <1>1, KindsAre DEF TypeOK
<1>4. ASSUME NEW p \in Places, NEW k \in Kinds PROVE Fits(k, lists[p][k])'
  <2>1. Fits(k, lists[p][k]) /\ (k = "character" => items[k] \subseteq Ids)
    BY DEF ListsFit, TypeOK
  <2>2. CASE k = "character"
    BY <1>2, <1>3, <2>1, <2>2 DEF Fits
  <2>3. CASE k # "character"
    BY <1>2, <1>3, <2>1, <2>3 DEF Fits
  <2>4. QED
    BY <2>2, <2>3
<1>5. ListsFit'
  BY <1>1, <1>3, <1>4, KindsAre DEF ListsFit, TypeOK
<1>6. Holds(reqs[t])'
  <2>1. c # NoChat => ItsOwn(c)' \subseteq todo
    BY <1>3, KindsAre DEF ItsOwn, TypeOK
  <2>2. QED
    BY <1>1, <1>3, <2>1 DEF Holds, Attaches, Copies, Deletes, Pictured
<1>7. \A j \in Ids : j # i => Kept(j)'
  BY <1>1, <1>3 DEF Kept
<1>8. QED
  BY <1>1, <1>5, <1>6, <1>7 DEF Settled

LEMMA SettledDeletion ==
  ASSUME TypeOK, NEW t \in Threads, Settled(t),
         DeleteCharacter(t) \/ PurgeOne(t) \/ RemoveFolder(t) \/ DetachAgain(t) \/ DeleteChat(t)
  PROVE  Settled(t)'
<1>0. ListsFit /\ RowsTyped /\ \A r : Goes(t, r) => reqs'[t] = r
  BY TypeParts DEF Settled, Goes, TypeOK
<1>1. CASE DeleteCharacter(t)
  <2>1. PICK i \in Ids : DeleteRow(t, i, NoChat, {})
    BY <1>1, KindsAre DEF DeleteCharacter, TypeOK
  <2>2. \A j \in Ids : Kept(j)
    BY <1>1, AllKept, Idles DEF DeleteCharacter, Starts
  <2>3. QED
    BY <1>0, <2>1, <2>2, SettledDeleteRow
<1>2. CASE PurgeOne(t)
  <2>1. reqs[t].op = "purge" /\ reqs[t].todo \subseteq Ids /\ reqs[t].chat \in Chats
    BY <1>2, RequestFields DEF PurgeOne, On, TypeOK
  <2>2. PICK i \in reqs[t].todo : DeleteRow(t, i, reqs[t].chat, reqs[t].todo \ {i})
    BY <1>2 DEF PurgeOne
  <2>3. reqs[t].chat # NoChat => reqs[t].chat \in live /\ ItsOwn(reqs[t].chat) \subseteq (reqs[t].todo \ {i}) \cup {i}
    BY <2>1 DEF Settled, Holds, Deletes
  <2>4. i \in Ids /\ \A j \in Ids : Kept(j)
    BY <2>1, AllKept
  <2>5. QED
    BY <1>0, <2>2, <2>3, <2>4, SettledDeleteRow
<1>3. CASE RemoveFolder(t)
  <2>1. reqs[t].op = "rmtree" /\ reqs[t].id \in Ids
    BY <1>3, RequestFields DEF RemoveFolder, On, TypeOK
  <2>2. /\ reqs'[t] = [op |-> "detach", id |-> reqs[t].id, chat |-> reqs[t].chat, todo |-> reqs[t].todo]
        /\ disk' = [disk EXCEPT ![reqs[t].id] = {}] /\ UNCHANGED <<rows, images>>
    BY <1>0, <1>3 DEF RemoveFolder, FolderGone
  <2>3. images[reqs[t].id] = {}
    BY <2>1 DEF Settled, Holds, Deletes
  <2>4. \A i \in Ids : Kept(i)'
    <3>1. \A i \in Ids : i # reqs[t].id => Kept(i)
      BY DEF Settled
    <3>2. QED
      BY <2>1, <2>2, <2>3, <3>1 DEF Kept, TypeOK, rows
  <2>5. Holds(reqs[t])'
    <3>1. Deletes(reqs[t])
      BY DEF Settled, Holds
    <3>2. UNCHANGED <<items, owner, chats>>
      BY <2>2 DEF rows
    <3>3. QED
      BY <2>1, <2>2, <3>1, <3>2 DEF Holds, Attaches, Copies, Deletes, Pictured, live, ItsOwn
  <2>6. ListsFit'
    BY <1>0, <2>2 DEF ListsFit, Fits, live, rows
  <2>7. QED
    BY <2>4, <2>5, <2>6 DEF Settled
<1>4. CASE DetachAgain(t)
  <2>1. reqs[t].op = "detach" /\ Deletes(reqs[t]) /\ UNCHANGED <<items, owner, chats, snippets, files>>
    BY <1>4 DEF DetachAgain, On, Settled, Holds
  <2>2. \A p \in Places, k \in Kinds : lists'[p][k] \subseteq lists[p][k]
    <3>1. lists' = [p \in Places |-> IF p \in live THEN [lists[p] EXCEPT !["character"] = @ \ {reqs[t].id}] ELSE lists[p]]
      BY <1>0, <1>4 DEF DetachAgain, RowsTyped
    <3>2. \A p \in Places, k \in Kinds : [lists[p] EXCEPT !["character"] = @ \ {reqs[t].id}][k] \subseteq lists[p][k]
      BY <1>0 DEF RowsTyped, IdLists
    <3>3. QED
      BY <3>1, <3>2
  <2>3. ListsFit'
    BY <1>0, <2>1, <2>2 DEF ListsFit, Fits, live
  <2>4. Holds(reqs[t])'
    <3>1. CASE reqs[t].chat = NoChat
      BY <1>0, <1>4, <3>1, IdleHolds DEF DetachAgain
    <3>2. CASE reqs[t].chat # NoChat
      <4>1. reqs'[t] = [op |-> "purge", chat |-> reqs[t].chat, todo |-> reqs[t].todo]
        BY <1>0, <1>4, <3>2 DEF DetachAgain
      <4>2. QED
        BY <2>1, <3>2, <4>1 DEF Holds, Attaches, Copies, Deletes, Pictured, live, ItsOwn
    <3>3. QED
      BY <3>1, <3>2
  <2>5. \A i \in Ids : Kept(i)'
    BY <2>1, AllKept DEF Kept, files
  <2>6. QED
    BY <2>3, <2>4, <2>5 DEF Settled
<1>5. CASE DeleteChat(t)
  <2>1. PICK c \in Chats : /\ c = reqs[t].chat /\ reqs[t].op = "purge" /\ reqs[t].todo = {}
                           /\ chats' = [chats EXCEPT ![c] = "gone"] /\ lists' = [lists EXCEPT ![c] = Nothing]
                           /\ reqs'[t] = Idle /\ UNCHANGED <<items, owner, snippets, files>>
    BY <1>0, <1>5, RequestFields DEF DeleteChat, On, TypeOK
  <2>2. ItsOwn(c) = {}
    BY <2>1, BoundsAssumption DEF Settled, Holds, Deletes
  <2>3. \A p \in Places, k \in Kinds : lists'[p][k] \in {{}, lists[p][k]}
    BY <1>0, <2>1 DEF RowsTyped, Nothing
  <2>4. \A i \in items["character"] : owner[i] \in live' \cup {NoChat}
    BY <1>0, <2>1, <2>2 DEF ListsFit, live, ItsOwn, RowsTyped
  <2>5. ListsFit'
    BY <1>0, <2>1, <2>3, <2>4 DEF ListsFit, Fits
  <2>6. QED
    BY <2>1, <2>5, SettledIdle
<1>6. QED
  BY <1>1, <1>2, <1>3, <1>4, <1>5

LEMMA SettledForks ==
  ASSUME TypeOK, NEW t \in Threads, Settled(t), AskFork(t) \/ CopyCharacter(t) \/ EndFork(t)
  PROVE  Settled(t)'
<1>0. /\ ListsFit /\ RowsTyped /\ (\A r : Goes(t, r) => reqs'[t] = r)
      /\ reqs[t].op # "rmtree" /\ (\A i \in Ids : Kept(i))
  <2>1. reqs[t].op # "rmtree"
    BY Idles DEF AskFork, CopyCharacter, EndFork, Starts, On
  <2>2. QED
    BY <2>1, AllKept, TypeParts DEF Settled, Goes, TypeOK
<1>1. CASE AskFork(t)
  <2>1. PICK c \in live, d \in Chats : \E used :
          /\ chats[d] = "new"
          /\ chats' = [chats EXCEPT ![d] = "live"]
          /\ lists' = [lists EXCEPT ![d] = [lists[c] EXCEPT !["character"] = {}]]
          /\ reqs'[t] = [op |-> "fork", chat |-> c, new |-> d, ids |-> lists[c]["character"],
                         todo |-> used \cup lists[c]["character"]]
    BY <1>0, <1>1 DEF AskFork
  <2>2. PICK used : reqs'[t] = [op |-> "fork", chat |-> c, new |-> d, ids |-> lists[c]["character"],
                                todo |-> used \cup lists[c]["character"]]
    BY <2>1
  <2>3. c \in Places /\ d \in Places /\ c # d /\ c \in live' /\ d \in live' /\ live \subseteq live'
    BY <1>0, <2>1, PlacesAre DEF live, RowsTyped
  <2>4. UNCHANGED <<items, owner, snippets, files>>
    BY <1>1 DEF AskFork
  <2>5. \A p \in Places, k \in Kinds :
          lists'[p][k] = IF p = d THEN (IF k = "character" THEN {} ELSE lists[c][k]) ELSE lists[p][k]
    BY <1>0, <2>1, <2>3 DEF RowsTyped, IdLists
  <2>6. ASSUME NEW p \in Places, NEW k \in Kinds PROVE Fits(k, lists[p][k])'
    <3>1. Fits(k, lists[p][k]) /\ Fits(k, lists[c][k])
      BY <1>0, <2>3 DEF ListsFit
    <3>2. QED
      BY <2>4, <2>5, <3>1 DEF Fits
  <2>7. ListsFit'
    BY <1>0, <2>3, <2>4, <2>6 DEF ListsFit
  <2>8. Holds(reqs[t])'
    <3>1. Fits("character", lists[c]["character"])
      BY <1>0, <2>3, KindsAre DEF ListsFit
    <3>2. QED
      BY <2>2, <2>3, <2>4, <3>1 DEF Holds, Attaches, Copies, Deletes, Pictured, Fits
  <2>9. QED
    BY <1>0, <2>4, <2>7, <2>8 DEF Settled, Kept, files
<1>2. ASSUME reqs[t].op = "fork"
      PROVE  /\ reqs[t].chat \in Chats /\ reqs[t].new \in Chats /\ reqs[t].ids \subseteq Ids /\ reqs[t].todo \subseteq Ids
             /\ Copies(reqs[t])
  BY <1>2, RequestFields DEF TypeOK, Settled, Holds
<1>3. CASE CopyCharacter(t)
  <2>1. /\ reqs[t].op = "fork" /\ UNCHANGED <<chats, lists, snippets>>
        /\ reqs[t].chat \in Chats /\ reqs[t].new \in Chats /\ Copies(reqs[t])
    BY <1>2, <1>3 DEF CopyCharacter, On
  <2>2. live' = live /\ reqs[t].chat \in live /\ reqs[t].new \in live /\ reqs[t].chat # reqs[t].new
    BY <2>1 DEF live, Copies
  <2>3. PICK i \in reqs[t].todo :
       \/ /\ i \in ItsOwn(reqs[t].chat)
          /\ NewCharacter(reqs[t].new)
          /\ images' = [images EXCEPT ![NextId("character")] = images[i] \cap disk[i]]
          /\ disk' = [disk EXCEPT ![NextId("character")] = @ \cup (images[i] \cap disk[i])]
          /\ ForksOn(t, i, CopiesFor(reqs[t], i))
       \/ /\ i \notin ItsOwn(reqs[t].chat)
          /\ ForksOn(t, i, reqs[t].ids)
          /\ UNCHANGED <<items, owner, files>>
    BY <1>3 DEF CopyCharacter
  <2>4. CASE i \notin ItsOwn(reqs[t].chat)
    <3>1. /\ UNCHANGED <<items, owner, files>>
          /\ reqs'[t] = [op |-> "fork", chat |-> reqs[t].chat, new |-> reqs[t].new, ids |-> reqs[t].ids,
                         todo |-> reqs[t].todo \ {i}]
      BY <1>0, <2>3, <2>4 DEF ForksOn
    <3>2. \A j \in reqs[t].ids : owner[j] = reqs[t].chat => j # i
      BY <2>1, <2>4 DEF Copies, ItsOwn
    <3>3. Holds(reqs[t])'
      BY <2>1, <2>2, <3>1, <3>2 DEF Holds, Attaches, Copies, Deletes, Pictured
    <3>4. ListsFit'
      BY <1>0, <2>1, <2>2, <3>1 DEF ListsFit, Fits
    <3>5. QED
      BY <1>0, <3>1, <3>3, <3>4 DEF Settled, Kept, files
  <2>5. CASE i \in ItsOwn(reqs[t].chat)
    <3> DEFINE n == NextId("character")
    <3>1. /\ n \in Ids /\ Inserted("character") /\ owner' = [owner EXCEPT ![n] = reqs[t].new]
          /\ images' = [images EXCEPT ![n] = images[i] \cap disk[i]]
          /\ disk' = [disk EXCEPT ![n] = @ \cup (images[i] \cap disk[i])]
          /\ reqs'[t] = [op |-> "fork", chat |-> reqs[t].chat, new |-> reqs[t].new, ids |-> CopiesFor(reqs[t], i),
                         todo |-> reqs[t].todo \ {i}]
      BY <1>0, <2>3, <2>5 DEF ForksOn, NewCharacter
    <3>2. n \notin items["character"]
      BY NextIdNew, KindsAre
    <3>3. /\ ListsFit' /\ items["character"] \subseteq items'["character"]
          /\ \A j \in items["character"] : owner'[j] = owner[j]
      BY <1>0, <2>1, <2>2, <3>1, ListsFitAfterInsert, KindsAre
    <3>4. n \in items'["character"] /\ owner'[n] = reqs[t].new
      BY <3>1, KindsAre DEF Inserted, TypeOK
    <3> HIDE DEF n
    <3>5. CopiesFor(reqs[t], i) \subseteq (reqs[t].ids \ {i}) \cup {n}
      BY DEF CopiesFor, n
    <3>6. Copies(reqs[t])'
      <4>1. \A j \in reqs[t].ids : j \in items["character"] /\ (owner[j] = reqs[t].chat => j \in reqs[t].todo)
        BY <2>1 DEF Copies
      <4>2. \A j \in CopiesFor(reqs[t], i) :
              /\ j \in items'["character"]
              /\ owner'[j] = reqs[t].chat => j \in reqs[t].todo \ {i}
        BY <2>2, <3>3, <3>4, <3>5, <4>1
      <4>3. QED
        BY <2>2, <3>1, <4>2 DEF Copies
    <3>7. Holds(reqs[t])'
      BY <3>1, <3>6 DEF Holds, Attaches, Deletes, Pictured
    <3>8. \A j \in Ids : Kept(j)'
      <4>1. disk[n] = {} /\ images[i] \cap disk[i] \subseteq Pictures
        BY <1>0, <2>5, <3>1, <3>2, KindsAre DEF Kept, n, ItsOwn, TypeOK
      <4>2. disk' = [disk EXCEPT ![n] = images[i] \cap disk[i]]
        BY <3>1, <4>1 DEF TypeOK
      <4>3. QED
        BY <1>0, <3>1, <3>3, <3>4, <4>2, ZenonT(40) DEF Kept, TypeOK
    <3>9. QED
      BY <3>3, <3>7, <3>8 DEF Settled
  <2>6. QED
    BY <2>4, <2>5
<1>4. CASE EndFork(t)
  <2>1. /\ reqs[t].new \in Chats /\ reqs[t].todo = {} /\ Copies(reqs[t]) /\ reqs[t].op = "fork"
        /\ UNCHANGED <<items, owner, snippets, chats, files>> /\ reqs'[t] = Idle
    BY <1>0, <1>2, <1>4 DEF EndFork, On
  <2>2. Fits("character", reqs[t].ids) /\ reqs[t].new \in live
    BY <2>1 DEF Fits, Copies
  <2>3. lists' = [lists EXCEPT ![reqs[t].new]["character"] = reqs[t].ids] /\ live' = live
    BY <1>4, <2>1, <2>2 DEF EndFork, live
  <2>4. ListsFit'
    BY <1>0, <2>1, <2>2, <2>3, FitsPut, PlacesAre, KindsAre
  <2>5. QED
    BY <1>0, <2>1, <2>4, SettledIdle
<1>5. QED
  BY <1>1, <1>3, <1>4

LEMMA SettledImages ==
  ASSUME TypeOK, NEW t \in Threads, Settled(t), AddImage(t) \/ DropImage(t)
  PROVE  Settled(t)'
<1>1. reqs[t].op \in {"upload", "drop"} /\ UNCHANGED rows /\ reqs'[t] = Idle
  BY DEF AddImage, DropImage, On, Goes, TypeOK
<1>2. /\ reqs[t].id \in items["character"] /\ reqs[t].id \in Ids /\ reqs[t].seen = images[reqs[t].id]
      /\ \A i \in Ids : Kept(i)
  BY <1>1, AllKept, RequestFields DEF Settled, Holds, Pictured, TypeOK
<1>3. UNCHANGED files
      \/ \E ps : images' = [images EXCEPT ![reqs[t].id] = ps] /\ disk' = [disk EXCEPT ![reqs[t].id] = ps]
  <2>1. disk[reqs[t].id] = reqs[t].seen
    BY <1>2 DEF Kept
  <2>2. CASE AddImage(t)
    BY <1>2, <2>1, <2>2 DEF AddImage, Listing, TypeOK
  <2>3. CASE DropImage(t)
    BY <1>2, <2>1, <2>3 DEF DropImage, Listing, TypeOK
  <2>4. QED
    BY <2>2, <2>3
<1>4. \A i \in Ids : Kept(i)'
  BY <1>1, <1>2, <1>3 DEF Kept, TypeOK, rows, files
<1>5. ListsFit'
  BY <1>1 DEF Settled, ListsFit, Fits, live, rows
<1>6. QED
  BY <1>1, <1>4, <1>5, IdleHolds DEF Settled

LEMMA SettledStep ==
  ASSUME TypeOK, NEW t \in Threads, Settled(t), Step(t)
  PROVE  Settled(t)'
BY SettledAsks, SettledInstructions, SettledLists, SettledCreations, SettledDeletion, SettledForks, SettledImages DEF Step

LEMMA SerialStep ==
  ASSUME Serial, SerialInv, [Next]_vars
  PROVE  SerialInv'
<1>1. ASSUME NEW t \in Threads, Step(t) PROVE SerialInv'
  BY <1>1, Alone, SettledStep, SettledAgain DEF SerialInv
<1>2. CASE UNCHANGED vars
  <2>1. TypeOK'
    BY <1>2, TypedStep DEF SerialInv
  <2>2. OneAtATime'
    BY <1>2 DEF vars, SerialInv, OneAtATime
  <2>3. \A t \in Threads : Settled(t) => Settled(t)'
    BY <1>2 DEF vars, rows, files, Settled, Holds, Attaches, Copies, Deletes, Pictured, ListsFit, Fits, Kept, live, ItsOwn
  <2>4. (AtRest => ListsFit /\ \A i \in Ids : Kept(i))'
    BY <1>2 DEF vars, rows, files, SerialInv, AtRest, ListsFit, Fits, Kept, live
  <2>5. QED
    BY <1>2, <2>1, <2>2, <2>3, <2>4 DEF SerialInv, vars
<1>3. QED
  BY <1>1, <1>2 DEF Next

LEMMA SerialInit == Init => SerialInv
<1>1. ASSUME Init PROVE SerialInv
  <2>1. TypeOK
    BY <1>1, InitTyped
  <2>2. OneAtATime /\ \A t \in Threads : Holds(reqs[t])
    BY <1>1, IdleHolds DEF Init, OneAtATime
  <2>3. ListsFit
    BY <1>1, KindsAre DEF Init, ListsFit, Fits, Nothing, Places
  <2>4. \A i \in Ids : Kept(i)
    BY <1>1 DEF Init, Kept
  <2>5. QED
    BY <2>1, <2>2, <2>3, <2>4 DEF SerialInv, Settled
<1>2. QED
  BY <1>1

LEMMA SerialHolds ==
  ASSUME Serial
  PROVE  Spec => []SerialInv
<1>1. Init => SerialInv
  BY SerialInit
<1>2. SerialInv /\ [Next]_vars => SerialInv'
  BY SerialStep
<1>3. QED
  BY <1>1, <1>2, PTL DEF Spec

\* With one handler at a time every id in a list names a row, and an ad-hoc
\* character goes with its chat: what handlers read in one call of the metadata
\* manager and write in a later one is still there, and _detach_id reaches every
\* list (delete_for_conversation, api_fork_conversation).
THEOREM ListsAreHeld ==
  ASSUME Serial
  PROVE  Spec => []ListsHold
<1>1. SerialInv => ListsHold
  BY DEF SerialInv, TypeOK, Places, ListsFit, Fits, ListsHold
<1>2. QED
  BY <1>1, SerialHolds, PTL

-----------------------------------------------------------------------------
(* What a chat sends *)

\* A chat's space is there: deleting one unfiles its chats.
Filed == TypeOK /\ \A c \in Chats : inSpace[c] \in spaces \cup {NoSpace}

LEMMA FiledStep == Filed /\ [Next]_vars => Filed'
<1>1. ASSUME Filed, NEW t \in Threads, Step(t) PROVE \A c \in Chats : inSpace'[c] \in spaces' \cup {NoSpace}
  <2>1. CASE UNCHANGED <<spaces, inSpace>>
    BY <1>1, <2>1 DEF Filed
  <2>2. CASE SaveSpace(t) \/ DeleteSpace(t) \/ MoveToSpace(t)
    BY <1>1, <2>2 DEF Filed, SaveSpace, DeleteSpace, MoveToSpace, TypeOK
  <2>3. CASE AskFork(t)
    <3>1. PICK c \in Chats, d \in Chats : inSpace' = [inSpace EXCEPT ![d] = inSpace[c]] /\ UNCHANGED spaces
      BY <2>3, PlacesAre DEF AskFork
    <3>2. QED
      BY <1>1, <3>1 DEF Filed, TypeOK
  <2>4. CASE DeleteChat(t)
    BY <1>1, <2>4 DEF Filed, DeleteChat, TypeOK
  <2>5. QED
    BY <1>1, <2>1, <2>2, <2>3, <2>4
       DEF Step, SaveInstruction, AskGroup, SaveGroup, AskList, SaveList, SwitchOff, DeleteInstruction, AskChat,
           CreateChat, CreateCharacter, AskCharacter, MakeCharacter, ToolCreates, Look, Attach, Promote,
           DeleteCharacter, RemoveFolder, DetachAgain, AskDelete, PurgeOne, DeleteRow, CopyCharacter, EndFork,
           AskImage, AddImage, DropImage, rows
<1>2. CASE UNCHANGED vars
  BY <1>2, TypedStep DEF Filed, vars, rows
<1>3. QED
  BY <1>1, <1>2, TypedStep DEF Filed, Next

LEMMA FiledHolds == Spec => []Filed
<1>1. Init => Filed
  BY InitTyped DEF Init, Filed
<1>2. QED
  BY <1>1, FiledStep, PTL DEF Spec

\* What a chat uses is there, and does not grow while its lists and space stay.
LEMMA EffectiveThere ==
  ASSUME Filed, TypeOK', ListsFit, NEW c \in live, NEW k \in Kinds
  PROVE  /\ Effective(c, k) \subseteq items[k]
         /\ UNCHANGED <<lists, hidden, inSpace>> => Effective(c, k)' \subseteq Effective(c, k)
<1>1. inSpace[c] \in spaces \cup {NoSpace} /\ NoSpace \notin spaces' /\ spaces \subseteq Spaces
  BY PlacesAre, BoundsAssumption DEF Filed, TypeOK
<1>2. \A p \in Places : lists[p][k] \subseteq items[k]
  BY DEF ListsFit, Fits
<1>3. Effective(c, k) \subseteq items[k]
  BY <1>1, <1>2 DEF Effective, Inherited, Places, Buckets, live
<1>4. UNCHANGED <<lists, hidden, inSpace>> => Inherited(c, k)' \subseteq Inherited(c, k)
  BY <1>1 DEF Inherited
<1>5. QED
  BY <1>3, <1>4 DEF Effective

\* With one handler at a time a chat whose lists, groups, space and switches stay as
\* they are sends nothing more, whatever is saved, deleted and saved again under the
\* same key: what it uses are rows, and a key that is handed out is that of none.
THEOREM NothingIsSentUnasked ==
  ASSUME Serial
  PROVE  Spec => NothingUnasked
<1> DEFINE unasked ==
      UNCHANGED <<lists, snippets, hidden, paused, inSpace>> =>
        \A c \in live : Cast(c)' \subseteq Cast(c) /\ Sent(c)' \subseteq Sent(c)
<1>1. SerialInv /\ Filed /\ [Next]_vars => [unasked]_vars
  <2>1. SUFFICES ASSUME SerialInv, Filed, NEW t \in Threads, Step(t),
                        UNCHANGED <<lists, snippets, hidden, paused, inSpace>>, NEW c \in live
                 PROVE  Cast(c)' \subseteq Cast(c) /\ Sent(c)' \subseteq Sent(c)
    BY DEF Next
  <2>2. ListsFit /\ TypeOK'
    BY <2>1, Alone, TypedStep DEF Settled, Filed, Next
  <2>3. \A k \in Kinds : Effective(c, k) \subseteq items[k] /\ Effective(c, k)' \subseteq Effective(c, k)
    BY <2>1, <2>2, EffectiveThere
  <2>4. Cast(c)' \subseteq Cast(c)
    BY <2>3, KindsAre DEF Cast
  <2>5. Sent(c)' \subseteq Sent(c)
    <3> DEFINE on(k) == Effective(c, k) \ paused[c][k]
    <3>1. /\ on("instruction")' \subseteq on("instruction")
          /\ on("instruction") \subseteq items["instruction"]
          /\ on("instruction_group")' \subseteq on("instruction_group")
          /\ on("instruction_group") \subseteq items["instruction_group"] /\ items["instruction_group"] \subseteq Ids
      BY <2>1, <2>3, KindsAre DEF Filed, TypeOK
    <3>2. \A g \in Ids : snippets'[g] = snippets[g] /\ snippets[g] \subseteq items["instruction"]
      BY <2>1, <2>2 DEF ListsFit
    <3> HIDE DEF on
    <3>3. ASSUME NEW i \in Sent(c)' PROVE i \in Sent(c)
      <4>1. i \in on("instruction")' \/ \E g \in on("instruction_group")' : i \in snippets'[g]
        BY <3>3 DEF Sent, on
      <4>2. i \in on("instruction") \/ \E g \in on("instruction_group") : i \in snippets[g]
        BY <3>1, <3>2, <4>1
      <4>3. i \in items["instruction"]
        BY <3>1, <3>2, <4>2
      <4>4. QED
        BY <3>1, <4>2, <4>3 DEF Sent, on
    <3>4. QED
      BY <3>3
  <2>6. QED
    BY <2>4, <2>5
<1>2. QED
  BY <1>1, SerialHolds, FiledHolds, PTL DEF Spec, NothingUnasked

\* With one handler at a time a finished branch is attached to none of the ad-hoc
\* characters of the chat it comes from, however many are attached or used.
THEOREM BranchesHaveCopies ==
  ASSUME Serial
  PROVE  Spec => BranchHasCopies
<1> DEFINE copied ==
      \A t \in Threads : reqs[t].op = "fork" /\ reqs'[t] = Idle =>
        \A i \in lists'[reqs[t].new]["character"] : owner'[i] # reqs[t].chat
<1>1. SerialInv /\ [Next]_vars => [copied]_vars
  <2>1. SUFFICES ASSUME SerialInv, NEW t \in Threads, Step(t), NEW u \in Threads,
                        reqs[u].op = "fork", reqs'[u] = Idle
                 PROVE  \A i \in lists'[reqs[u].new]["character"] : owner'[i] # reqs[u].chat
    BY DEF Next
  <2>2. u = t /\ TypeOK /\ Copies(reqs[t]) /\ reqs[t].new \in Chats
    BY <2>1, Alone, Acts, Idles, RequestFields DEF SerialInv, Settled, Holds, TypeOK
  <2>3. EndFork(t)
    <3>1. \A op : op # "fork" => ~ On(t, op)
      BY <2>1, <2>2 DEF On
    <3>2. ~ Starts(t) /\ ~ AtOnce(t)
      BY <2>1, <2>2, Idles DEF Starts, AtOnce
    <3>3. ~ CopyCharacter(t)
      <4>1. \A i, ids : ~ ForksOn(t, i, ids)
        BY <2>1, <2>2, Idles DEF ForksOn, Goes, TypeOK
      <4>2. QED
        BY <4>1 DEF CopyCharacter
    <3>4. QED
      BY <2>1, <3>1, <3>2, <3>3
         DEF Step, SaveInstruction, AskGroup, SaveGroup, AskList, SaveList, SwitchOff, DeleteInstruction, SaveSpace,
             DeleteSpace, MoveToSpace, AskChat, CreateChat, CreateCharacter, AskCharacter, MakeCharacter, ToolCreates,
             Look, Attach, Promote, DeleteCharacter, RemoveFolder, DetachAgain, AskDelete, PurgeOne, DeleteChat,
             AskFork, AskImage, AddImage, DropImage
  <2>4. lists' = [lists EXCEPT ![reqs[t].new]["character"] = reqs[t].ids] /\ UNCHANGED owner /\ reqs[t].todo = {}
    BY <2>1, <2>2, <2>3 DEF EndFork, Copies
  <2>5. lists'[reqs[t].new]["character"] = reqs[t].ids
    BY <2>2, <2>4, KindsAre DEF TypeOK, IdLists
  <2>6. QED
    BY <2>1, <2>2, <2>4, <2>5 DEF Copies
<1>2. QED
  BY <1>1, SerialHolds, PTL DEF Spec, BranchHasCopies

-----------------------------------------------------------------------------
(* A character's images *)

\* With one handler at a time a character's images are the files in its folder,
\* although rows and folders go in separate steps and keys are handed out again.
THEOREM ImagesAreThere ==
  ASSUME Serial
  PROVE  Spec => []ImagesThere
<1>1. SerialInv => ImagesThere
  <2>1. SUFFICES ASSUME SerialInv, AtRest PROVE ImagesThere
    BY DEF ImagesThere
  <2>3. \A i \in Ids : Kept(i)
    BY <2>1 DEF SerialInv
  <2>4. QED
    BY <2>3 DEF ImagesThere, Kept
<1>2. QED
  BY <1>1, SerialHolds, PTL

-----------------------------------------------------------------------------
(* How many images a character has, whatever runs at once *)

Few(ps) == ps \subseteq Pictures /\ Cardinality(ps) <= MAX_IMAGES

\* The limit holds of what a handler has read, too, for that is what it adds to.
LimitInv ==
  /\ TypeOK
  /\ \A i \in Ids : Few(images[i])
  /\ \A t \in Threads : reqs[t].op \in {"upload", "drop"} => Few(reqs[t].seen)

LEMMA Finite == \A ps \in SUBSET Pictures : IsFiniteSet(ps) /\ Cardinality(ps) \in Nat
BY BoundsAssumption, FS_Subset, FS_CardinalityType

LEMMA NoPictures == Few({})
BY BoundsAssumption, FS_EmptySet DEF Few

LEMMA FewerPictures ==
  ASSUME NEW ps, NEW qs, qs \subseteq ps, Few(ps)
  PROVE  Few(qs)
<1>1. Cardinality(qs) <= Cardinality(ps)
  BY Finite, FS_Subset DEF Few
<1>2. Cardinality(qs) \in Nat /\ Cardinality(ps) \in Nat /\ MAX_IMAGES \in Nat
  BY Finite, BoundsAssumption DEF Few
<1>3. QED
  BY <1>1, <1>2 DEF Few

LEMMA OneMorePicture ==
  ASSUME NEW ps \in SUBSET Pictures, NEW p \in Pictures, Cardinality(ps) < MAX_IMAGES
  PROVE  Few(ps \cup {p})
<1>1. Cardinality(ps \cup {p}) \in {Cardinality(ps), Cardinality(ps) + 1}
  BY Finite, FS_AddElement
<1>2. Cardinality(ps) \in Nat /\ MAX_IMAGES \in Nat
  BY Finite, BoundsAssumption
<1>3. QED
  BY <1>1, <1>2 DEF Few

\* Only AskImage reads images.
LEMMA ReadsNothing ==
  ASSUME TypeOK, NEW t \in Threads, Step(t), ~ AskImage(t)
  PROVE  reqs'[t].op \notin {"upload", "drop"}
<1>1. \A r : Goes(t, r) => reqs'[t] = r
  BY DEF Goes, TypeOK
<1>2. AtOnce(t) => reqs'[t] = Idle
  BY DEF AtOnce, Starts
<1>3. CASE SaveInstruction(t) \/ SwitchOff(t) \/ DeleteInstruction(t) \/ SaveSpace(t) \/ DeleteSpace(t) \/ MoveToSpace(t)
           \/ CreateCharacter(t) \/ Promote(t)
  BY <1>2, <1>3, Idles DEF SaveInstruction, SwitchOff, DeleteInstruction, SaveSpace, DeleteSpace, MoveToSpace,
                           CreateCharacter, Promote
<1>4. CASE SaveGroup(t) \/ SaveList(t) \/ CreateChat(t) \/ Attach(t) \/ DeleteChat(t) \/ EndFork(t)
           \/ AddImage(t) \/ DropImage(t)
  <2>1. Goes(t, Idle)
    BY <1>4 DEF SaveGroup, SaveList, CreateChat, Attach, DeleteChat, EndFork, AddImage, DropImage
  <2>2. QED
    BY <1>1, <2>1, Idles
<1>5. CASE AskGroup(t)
  <2>1. \E g, ids : reqs'[t] = [op |-> "group", id |-> g, ids |-> ids]
    BY <1>1, <1>5 DEF AskGroup
  <2>2. QED
    BY <2>1
<1>6. CASE AskList(t)
  <2>1. \E p, k, ids : reqs'[t] = [op |-> "list", place |-> p, kind |-> k, ids |-> ids]
    BY <1>1, <1>6 DEF AskList
  <2>2. QED
    BY <2>1
<1>7. CASE AskChat(t)
  <2>1. \E c, k, ids : reqs'[t] = [op |-> "create", chat |-> c, kind |-> k, ids |-> ids]
    BY <1>1, <1>7 DEF AskChat
  <2>2. QED
    BY <2>1
<1>8. CASE AskCharacter(t)
  <2>1. \E c, ids : reqs'[t] = [op |-> "make", chat |-> c, ids |-> ids]
    BY <1>1, <1>8 DEF AskCharacter
  <2>2. QED
    BY <2>1
<1>9. CASE MakeCharacter(t) \/ Look(t)
  <2>1. \E c, k, i, ids : reqs'[t] = [op |-> "attach", chat |-> c, kind |-> k, id |-> i, ids |-> ids]
    BY <1>1, <1>9 DEF MakeCharacter, Look
  <2>2. QED
    BY <2>1
<1>10. CASE ToolCreates(t)
  <2>1. \E c, k : reqs'[t] = [op |-> "look", chat |-> c, kind |-> k, id |-> NextId(k)]
    BY <1>1, <1>10 DEF ToolCreates
  <2>2. QED
    BY <2>1
<1>11. CASE DeleteCharacter(t) \/ PurgeOne(t)
  <2>1. \E i, c, todo : reqs'[t] = [op |-> "rmtree", id |-> i, chat |-> c, todo |-> todo]
    BY <1>1, <1>11 DEF DeleteCharacter, PurgeOne, DeleteRow
  <2>2. QED
    BY <2>1
<1>12. CASE RemoveFolder(t)
  <2>1. \E i, c, todo : reqs'[t] = [op |-> "detach", id |-> i, chat |-> c, todo |-> todo]
    BY <1>1, <1>12 DEF RemoveFolder
  <2>2. QED
    BY <2>1
<1>13. CASE DetachAgain(t) \/ AskDelete(t)
  <2>1. reqs'[t] = Idle \/ \E c, todo : reqs'[t] = [op |-> "purge", chat |-> c, todo |-> todo]
    <3>1. CASE AskDelete(t)
      BY <1>1, <3>1 DEF AskDelete
    <3>2. CASE DetachAgain(t)
      BY <1>1, <3>2 DEF DetachAgain
    <3>3. QED
      BY <1>13, <3>1, <3>2
  <2>2. \A c, todo : [op |-> "purge", chat |-> c, todo |-> todo].op \notin {"upload", "drop"}
    OBVIOUS
  <2>3. QED
    BY <2>1, <2>2, Idles
<1>14. CASE AskFork(t) \/ CopyCharacter(t)
  <2>1. \E c, d, ids, todo :
          reqs'[t] = [op |-> "fork", chat |-> c, new |-> d, ids |-> ids, todo |-> todo]
    <3>1. CASE AskFork(t)
      <4>1. \E c, d, ids, todo : Goes(t, [op |-> "fork", chat |-> c, new |-> d, ids |-> ids, todo |-> todo])
        BY <3>1 DEF AskFork
      <4>2. QED
        BY <1>1, <4>1
    <3>2. CASE CopyCharacter(t)
      BY <1>1, <3>2 DEF CopyCharacter, ForksOn
    <3>3. QED
      BY <1>14, <3>1, <3>2
  <2>2. QED
    BY <2>1
<1>15. QED
  BY <1>3, <1>4, <1>5, <1>6, <1>7, <1>8, <1>9, <1>10, <1>11, <1>12, <1>13, <1>14 DEF Step

\* What is written to a character: nothing, a few of its pictures or of those a
\* handler read, some new ones, or one more where there was room.
LEMMA FewWritten ==
  ASSUME LimitInv, NEW t \in Threads, Step(t), NEW i \in Ids
  PROVE  Few(images'[i])
<1>1. Few(images[i]) /\ images \in [Ids -> SUBSET Pictures]
  BY DEF LimitInv, TypeOK
<1>2. UNCHANGED images => Few(images'[i])
  BY <1>1
<1>3. \A j, ps : Few(ps) /\ images' = [images EXCEPT ![j] = ps] => Few(images'[i])
  BY <1>1
<1>4. CASE ToolCreates(t)
  <2>1. UNCHANGED images \/ \E ps \in SUBSET Pictures : Cardinality(ps) \in 1 .. MAX_IMAGES
                                                     /\ images' = [images EXCEPT ![NextId("character")] = ps]
    BY <1>4 DEF ToolCreates, files, Fresh
  <2>2. \A ps \in SUBSET Pictures : Cardinality(ps) \in 1 .. MAX_IMAGES => Few(ps)
    BY BoundsAssumption DEF Few
  <2>3. QED
    BY <1>2, <1>3, <2>1, <2>2
<1>5. CASE DeleteCharacter(t) \/ PurgeOne(t)
  <2>1. \E j : images' = [images EXCEPT ![j] = {}]
    BY <1>5 DEF DeleteCharacter, PurgeOne, DeleteRow
  <2>2. QED
    BY <1>3, <2>1, NoPictures
<1>6. CASE CopyCharacter(t)
  <2>1. UNCHANGED images \/ \E j \in Ids : images' = [images EXCEPT ![NextId("character")] = images[j] \cap disk[j]]
    BY <1>6, KindsAre DEF CopyCharacter, files, ItsOwn, LimitInv, TypeOK
  <2>2. \A j \in Ids : Few(images[j] \cap disk[j])
    BY FewerPictures DEF LimitInv
  <2>3. QED
    BY <1>2, <1>3, <2>1, <2>2
<1>7. CASE AddImage(t)
  <2>1. Few(reqs[t].seen) /\ reqs[t].picture \in Pictures
    BY <1>7, RequestFields DEF AddImage, On, LimitInv, TypeOK
  <2>2. HasRoom(reqs[t]) => Few(reqs[t].seen \cup {reqs[t].picture})
    BY <2>1, OneMorePicture DEF HasRoom, Few
  <2>3. QED
    BY <1>2, <1>3, <1>7, <2>2 DEF AddImage, Listing, files
<1>8. CASE DropImage(t)
  <2>1. Few(reqs[t].seen \ {reqs[t].picture})
    BY <1>8, FewerPictures DEF DropImage, On, LimitInv
  <2>2. QED
    BY <1>2, <1>3, <1>8, <2>1 DEF DropImage, Listing
<1>9. CASE UNCHANGED images
  BY <1>2, <1>9
<1>10. QED
  BY <1>4, <1>5, <1>6, <1>7, <1>8, <1>9
     DEF Step, SaveInstruction, AskGroup, SaveGroup, AskList, SaveList, SwitchOff, DeleteInstruction, SaveSpace,
         DeleteSpace, MoveToSpace, AskChat, CreateChat, CreateCharacter, AskCharacter, MakeCharacter, Look, Attach,
         Promote, RemoveFolder, DetachAgain, AskDelete, DeleteChat, AskFork, EndFork, AskImage, files

LEMMA LimitStep == LimitInv /\ [Next]_vars => LimitInv'
<1>1. ASSUME LimitInv, NEW t \in Threads, Step(t) PROVE LimitInv'
  <2>1. TypeOK' /\ \A i \in Ids : Few(images'[i])
    BY <1>1, FewWritten, TypedStep DEF LimitInv, Next
  <2>2. \A u \in Threads : u # t => reqs'[u] = reqs[u]
    BY <1>1, Acts DEF LimitInv
  <2>3. reqs'[t].op \in {"upload", "drop"} => Few(reqs'[t].seen)
    <3>1. CASE ~ AskImage(t)
      BY <1>1, <3>1, ReadsNothing DEF LimitInv
    <3>2. CASE AskImage(t)
      <4>1. \E i \in Ids, op \in {"upload", "drop"}, p \in Pictures :
              reqs'[t] = [op |-> op, id |-> i, seen |-> images[i], picture |-> p]
        BY <1>1, <3>2, KindsAre DEF AskImage, Goes, LimitInv, TypeOK
      <4>2. QED
        BY <1>1, <4>1 DEF LimitInv
    <3>3. QED
      BY <3>1, <3>2
  <2>4. QED
    BY <1>1, <2>1, <2>2, <2>3 DEF LimitInv
<1>2. ASSUME LimitInv, UNCHANGED vars PROVE LimitInv'
  BY <1>2, TypedStep DEF vars, files, LimitInv
<1>3. QED
  BY <1>1, <1>2 DEF Next

\* Whatever runs at once, no character has more than MAX_IMAGES images: two
\* uploads that both found room write one image each to what they both read, so
\* what _add_image can lose is an image and never the limit (characters.py:300-308).
THEOREM LimitHolds == Spec => []ImageLimit
<1>1. Init => LimitInv
  BY InitTyped, NoPictures, Idles DEF Init, LimitInv
<1>2. LimitInv => ImageLimit
  BY DEF LimitInv, Few, ImageLimit
<1>3. QED
  BY <1>1, <1>2, LimitStep, PTL DEF Spec

=============================================================================
