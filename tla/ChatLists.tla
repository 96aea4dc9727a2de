----------------------------- MODULE ChatLists -----------------------------
(***************************************************************************)
(* What is attached where: the id lists of chats, spaces, groups and the   *)
(* defaults; the snippets, groups and characters they name; a character's  *)
(* reference images on disk; and the chats that own characters.            *)
(*                                                                         *)
(* One call of the metadata manager, which holds its lock throughout, is   *)
(* one step.  A handler that reads or checks in one call and writes in a   *)
(* later one is in flight in between; the reply thread's tools are         *)
(* handlers like the others.  An id list is a set: its order is left out.  *)
(***************************************************************************)
EXTENDS FiniteSets, Naturals

CONSTANTS
  Chats, Spaces,   \* the chats and spaces there may be
  NoChat, NoSpace, \* not in a chat, not in a space
  Defaults,        \* the settings' bucket, which every chat inherits
  MaxId,           \* bound on the keys of each kind
  Pictures,        \* file names of images (uuids in the code)
  MAX_IMAGES,      \* images of one character (6 in the code)
  Threads,         \* handlers and reply threads that may be under way at once
  Serial,          \* whether one of them runs at a time
  MaxEdits         \* bound on the requests

ASSUME BoundsAssumption ==
  /\ NoChat \notin Chats /\ NoSpace \notin Spaces
  /\ Chats \cap (Spaces \cup {Defaults}) = {}
  /\ MaxId \in Nat /\ MAX_IMAGES \in Nat /\ MaxEdits \in Nat
  /\ IsFiniteSet(Pictures)
  /\ Serial \in BOOLEAN

VARIABLES
  items,    \* the rows of each kind
  owner,    \* the chat an ad-hoc character was made in
  images,   \* a character's images
  disk,     \* the files in its folder
  chats,    \* the chats: uuids are not used again
  spaces,   \* the spaces
  inSpace,  \* the space a chat is in
  lists,    \* the id lists of chats, spaces and the defaults
  snippets, \* a group's snippets
  hidden,   \* defaults a chat has switched off
  paused,   \* what is attached but not sent
  reqs,     \* what is in flight
  edits

rows == <<items, owner, chats, spaces, inSpace, lists, snippets, hidden, paused>>
files == <<images, disk>>
vars == <<rows, files, reqs, edits>>

Kinds == {"character", "instruction", "instruction_group"}
Ids == 1 .. MaxId
Buckets == Spaces \cup {Defaults}
IdLists == [Kinds -> SUBSET Ids]

Idle == [op |-> "idle"]

Request ==
  {Idle}
    \cup [op: {"list"}, place: Chats \cup Buckets, kind: Kinds, ids: SUBSET Ids]
    \cup [op: {"group"}, id: Ids, ids: SUBSET Ids]
    \cup [op: {"attach"}, chat: Chats, kind: Kinds, id: Ids, ids: SUBSET Ids]
    \cup [op: {"look"}, chat: Chats, kind: Kinds, id: Ids]
    \cup [op: {"make"}, chat: Chats, ids: SUBSET Ids]
    \cup [op: {"create"}, chat: Chats, kind: Kinds, ids: SUBSET Ids]
    \cup [op: {"fork"}, chat: Chats, new: Chats, ids: SUBSET Ids, todo: SUBSET Ids]
    \cup [op: {"rmtree", "detach"}, id: Ids, chat: Chats \cup {NoChat}, todo: SUBSET Ids]
    \cup [op: {"purge"}, chat: Chats, todo: SUBSET Ids]
    \cup [op: {"upload", "drop"}, id: Ids, seen: SUBSET Pictures, picture: Pictures]

\* Rows, files and requests have a valid shape.
TypeOK ==
  /\ items \in [Kinds -> SUBSET Ids]
  /\ owner \in [Ids -> Chats \cup {NoChat}]
  /\ images \in [Ids -> SUBSET Pictures]
  /\ disk \in [Ids -> SUBSET Pictures]
  /\ chats \in [Chats -> {"new", "live", "gone"}]
  /\ spaces \subseteq Spaces
  /\ inSpace \in [Chats -> Spaces \cup {NoSpace}]
  /\ lists \in [Chats \cup Buckets -> IdLists]
  /\ snippets \in [Ids -> SUBSET Ids]
  /\ hidden \in [Chats -> IdLists] /\ paused \in [Chats -> IdLists]
  /\ reqs \in [Threads -> Request]
  /\ edits \in 0 .. MaxEdits

live == {c \in Chats : chats[c] = "live"}

Nothing == [k \in Kinds |-> {}]

Init ==
  /\ items = Nothing
  /\ owner = [i \in Ids |-> NoChat]
  /\ images = [i \in Ids |-> {}] /\ disk = [i \in Ids |-> {}]
  /\ chats = [c \in Chats |-> "new"]
  /\ spaces = {}
  /\ inSpace = [c \in Chats |-> NoSpace]
  /\ lists = [p \in Chats \cup Buckets |-> Nothing]
  /\ snippets = [g \in Ids |-> {}]
  /\ hidden = [c \in Chats |-> Nothing] /\ paused = [c \in Chats |-> Nothing]
  /\ reqs = [t \in Threads |-> Idle]
  /\ edits = 0

-----------------------------------------------------------------------------
(* What a chat uses *)

Inherited(c, k) ==
  (lists[Defaults][k] \cup (IF inSpace[c] \in spaces THEN lists[inSpace[c]][k] ELSE {})) \ hidden[c][k]

Effective(c, k) == Inherited(c, k) \cup lists[c][k]

\* characters.load: missing ones are skipped.
Cast(c) == Effective(c, "character") \cap items["character"]

\* _conversation_instructions: the groups' snippets, then the single ones.
Sent(c) ==
  LET groups == (Effective(c, "instruction_group") \ paused[c]["instruction_group"]) \cap items["instruction_group"]
      single == Effective(c, "instruction") \ paused[c]["instruction"]
  IN  (single \cup UNION {snippets[g] : g \in groups}) \cap items["instruction"]

\* SQLite's next key: one more than the largest there is.
NextId(k) == CHOOSE n \in 1 .. MaxId + 1 : n - 1 \in items[k] \cup {0} /\ \A i \in items[k] : i < n

-----------------------------------------------------------------------------
(* Requests *)

Starts(t) ==
  /\ reqs[t] = Idle
  /\ Serial => \A u \in Threads : reqs[u] = Idle
  /\ edits < MaxEdits
  /\ edits' = edits + 1

Goes(t, r) == reqs' = [reqs EXCEPT ![t] = r]

\* A handler whose work is one call.
AtOnce(t) == Starts(t) /\ UNCHANGED reqs

\* A step of a handler that is in flight.
On(t, op) == reqs[t].op = op /\ UNCHANGED edits

Inserted(k) == items' = [items EXCEPT ![k] = @ \cup {NextId(k)}]

SaveInstruction(t) ==
  /\ AtOnce(t)
  /\ NextId("instruction") \in Ids
  /\ Inserted("instruction")
  /\ UNCHANGED <<owner, chats, spaces, inSpace, lists, snippets, hidden, paused, files>>

\* The snippets are looked up one by one, then the group is saved.
AskGroup(t) ==
  /\ Starts(t)
  /\ \E g \in items["instruction_group"] \cup {NextId("instruction_group")}, ids \in SUBSET items["instruction"] :
       g \in Ids /\ Goes(t, [op |-> "group", id |-> g, ids |-> ids])
  /\ UNCHANGED <<rows, files>>

SaveGroup(t) ==
  /\ On(t, "group")
  /\ \E g \in {reqs[t].id} :
       /\ items' = [items EXCEPT !["instruction_group"] = @ \cup {g}]
       /\ snippets' = [snippets EXCEPT ![g] = reqs[t].ids]
  /\ Goes(t, Idle)
  /\ UNCHANGED <<owner, chats, spaces, inSpace, lists, hidden, paused, files>>

Present == live \cup spaces \cup {Defaults}

Toggled(ids, i) == IF i \in ids THEN ids \ {i} ELSE ids \cup {i}

\* PATCH of a chat, PUT of a space or the settings: one id on or off the list, whose
\* ids are all looked up.  Any character will do, another chat's ad-hoc one included.
AskList(t) ==
  /\ Starts(t)
  /\ \E p \in Present, k \in Kinds, i \in Ids :
       \E ids \in {Toggled(lists[p][k], i)} :
         /\ ids \subseteq items[k]
         /\ Goes(t, [op |-> "list", place |-> p, kind |-> k, ids |-> ids])
  /\ UNCHANGED <<rows, files>>

\* Nothing is written to a chat or space that is gone.
SaveList(t) ==
  /\ On(t, "list")
  /\ lists' = IF reqs[t].place \in Present
                THEN [lists EXCEPT ![reqs[t].place][reqs[t].kind] = reqs[t].ids] ELSE lists
  /\ Goes(t, Idle)
  /\ UNCHANGED <<items, owner, chats, spaces, inSpace, snippets, hidden, paused, files>>

\* A default is switched off or on in a chat; an attached snippet paused or resumed.
SwitchOff(t) ==
  /\ AtOnce(t)
  /\ \E c \in live, k \in Kinds, i \in Ids :
       \/ /\ i \in hidden[c][k] \/ i \in Inherited(c, k)
          /\ hidden' = [hidden EXCEPT ![c][k] = Toggled(@, i)]
          /\ UNCHANGED paused
       \/ /\ k # "character" /\ (i \in paused[c][k] \/ i \in Effective(c, k))
          /\ paused' = [paused EXCEPT ![c][k] = Toggled(@, i)]
          /\ UNCHANGED hidden
  /\ UNCHANGED <<items, owner, chats, spaces, inSpace, lists, snippets, files>>

\* Mutant: a deleted snippet stays in the groups.
DetachedFromLists(k, ids) ==
  /\ lists' = [p \in DOMAIN lists |-> [lists[p] EXCEPT ![k] = @ \ ids]]
  /\ UNCHANGED snippets

\* Mutant: the settings' defaults keep the id, and groups their snippets.
DetachedFromChats(k, ids) ==
  /\ lists' = [p \in DOMAIN lists |-> IF p = Defaults THEN lists[p] ELSE [lists[p] EXCEPT ![k] = @ \ ids]]
  /\ UNCHANGED snippets

\* _detach_id: out of every chat, space, the defaults and, a snippet, the groups.
Detached(k, ids) ==
  /\ lists' = [p \in DOMAIN lists |-> [lists[p] EXCEPT ![k] = @ \ ids]]
  /\ snippets' = CASE k = "instruction" -> [g \in Ids |-> snippets[g] \ ids]
                   [] k = "instruction_group" -> [g \in Ids |-> IF g \in ids THEN {} ELSE snippets[g]]
                   [] OTHER -> snippets

DeleteInstruction(t) ==
  /\ AtOnce(t)
  /\ \E k \in Kinds \ {"character"} : \E i \in items[k] :
       items' = [items EXCEPT ![k] = @ \ {i}] /\ Detached(k, {i})
  /\ UNCHANGED <<owner, chats, spaces, inSpace, hidden, paused, files>>

SaveSpace(t) ==
  /\ AtOnce(t)
  /\ \E s \in Spaces \ spaces : spaces' = spaces \cup {s}
  /\ UNCHANGED <<items, owner, chats, inSpace, lists, snippets, hidden, paused, files>>

\* A deleted space's chats are unfiled in the same transaction.
DeleteSpace(t) ==
  /\ AtOnce(t)
  /\ \E s \in spaces :
       /\ spaces' = spaces \ {s}
       /\ lists' = [lists EXCEPT ![s] = Nothing]
       /\ inSpace' = [c \in Chats |-> IF inSpace[c] = s THEN NoSpace ELSE inSpace[c]]
  /\ UNCHANGED <<items, owner, chats, snippets, hidden, paused, files>>

MoveToSpace(t) ==
  /\ AtOnce(t)
  /\ \E c \in live, s \in spaces \cup {NoSpace} : inSpace' = [inSpace EXCEPT ![c] = s]
  /\ UNCHANGED <<items, owner, chats, spaces, lists, snippets, hidden, paused, files>>

\* The ids of one kind are looked up, then the chat is created with them.
AskChat(t) ==
  /\ Starts(t)
  /\ \E c \in Chats, k \in Kinds : \E ids \in SUBSET items[k] :
       chats[c] = "new" /\ Goes(t, [op |-> "create", chat |-> c, kind |-> k, ids |-> ids])
  /\ UNCHANGED <<rows, files>>

CreateChat(t) ==
  /\ On(t, "create")
  /\ chats[reqs[t].chat] = "new"
  /\ chats' = [chats EXCEPT ![reqs[t].chat] = "live"]
  /\ lists' = [lists EXCEPT ![reqs[t].chat][reqs[t].kind] = reqs[t].ids]
  /\ Goes(t, Idle)
  /\ UNCHANGED <<items, owner, spaces, inSpace, snippets, hidden, paused, files>>

-----------------------------------------------------------------------------
(* Characters *)

\* Names of new images are uuids.
Fresh == Pictures \ UNION {disk[i] \cup images[i] : i \in Ids}

NewCharacter(c) ==
  /\ NextId("character") \in Ids
  /\ Inserted("character")
  /\ owner' = [owner EXCEPT ![NextId("character")] = c]

\* A saved character, from the characters page.
CreateCharacter(t) ==
  /\ AtOnce(t)
  /\ NewCharacter(NoChat)
  /\ UNCHANGED <<chats, spaces, inSpace, lists, snippets, hidden, paused, files>>

\* One made in a chat: the chat is read, the character created, the list written.
AskCharacter(t) ==
  /\ Starts(t)
  /\ \E c \in live : Goes(t, [op |-> "make", chat |-> c, ids |-> lists[c]["character"]])
  /\ UNCHANGED <<rows, files>>

MakeCharacter(t) ==
  /\ On(t, "make")
  /\ NewCharacter(reqs[t].chat)
  /\ Goes(t, [op |-> "attach", chat |-> reqs[t].chat, kind |-> "character",
              id |-> NextId("character"), ids |-> reqs[t].ids])
  /\ UNCHANGED <<chats, spaces, inSpace, lists, snippets, hidden, paused, files>>

\* The reply's create_character and create_instruction: made, then attached.
\* create_from_files copies at most MAX_IMAGES pictures into the new folder.
ToolCreates(t) ==
  /\ Starts(t)
  /\ \E c \in live, k \in {"character", "instruction"} :
       /\ NextId(k) \in Ids
       /\ Inserted(k)
       /\ Goes(t, [op |-> "look", chat |-> c, kind |-> k, id |-> NextId(k)])
       /\ \/ /\ k = "character"
             /\ owner' = [owner EXCEPT ![NextId(k)] = c]
             /\ \E ps \in SUBSET Fresh :
                  /\ Cardinality(ps) \in 1 .. MAX_IMAGES
                  /\ images' = [images EXCEPT ![NextId(k)] = ps]
                  /\ disk' = [disk EXCEPT ![NextId(k)] = @ \cup ps]
          \/ k = "instruction" /\ UNCHANGED <<owner, files>>
  /\ UNCHANGED <<chats, spaces, inSpace, lists, snippets, hidden, paused>>

Look(t) ==
  /\ On(t, "look")
  /\ Goes(t, [op |-> "attach", chat |-> reqs[t].chat, kind |-> reqs[t].kind, id |-> reqs[t].id,
              ids |-> lists[reqs[t].chat][reqs[t].kind]])
  /\ UNCHANGED <<rows, files>>

\* Mutant: the id is read before the insert assigned it.
AttachedUnsaved(r) == r.ids \cup {0}

Attached(r) == r.ids \cup {r.id}

Attach(t) ==
  /\ On(t, "attach")
  /\ lists' = IF reqs[t].chat \in live
                THEN [lists EXCEPT ![reqs[t].chat][reqs[t].kind] = Attached(reqs[t])] ELSE lists
  /\ Goes(t, Idle)
  /\ UNCHANGED <<items, owner, chats, spaces, inSpace, snippets, hidden, paused, files>>

Promote(t) ==
  /\ AtOnce(t)
  /\ \E i \in items["character"] : owner' = [owner EXCEPT ![i] = NoChat]
  /\ UNCHANGED <<items, chats, spaces, inSpace, lists, snippets, hidden, paused, files>>

\* _delete, for a character or for each of a chat's: the row, its folder, and
\* once more the chats' lists.
DeleteRow(t, i, c, todo) ==
  /\ items' = [items EXCEPT !["character"] = @ \ {i}]
  /\ owner' = [owner EXCEPT ![i] = NoChat]
  /\ images' = [images EXCEPT ![i] = {}]
  /\ Detached("character", {i})
  /\ Goes(t, [op |-> "rmtree", id |-> i, chat |-> c, todo |-> todo])
  /\ UNCHANGED <<chats, spaces, inSpace, hidden, paused, disk>>

DeleteCharacter(t) ==
  /\ Starts(t)
  /\ \E i \in items["character"] : DeleteRow(t, i, NoChat, {})

\* Mutant: the folder stays.
FolderKept(i) == disk

FolderGone(i) == [disk EXCEPT ![i] = {}]

RemoveFolder(t) ==
  /\ On(t, "rmtree")
  /\ disk' = FolderGone(reqs[t].id)
  /\ Goes(t, [op |-> "detach", id |-> reqs[t].id, chat |-> reqs[t].chat, todo |-> reqs[t].todo])
  /\ UNCHANGED <<rows, images>>

DetachAgain(t) ==
  /\ On(t, "detach")
  /\ lists' = [p \in DOMAIN lists |->
                 IF p \in live THEN [lists[p] EXCEPT !["character"] = @ \ {reqs[t].id}] ELSE lists[p]]
  /\ Goes(t, IF reqs[t].chat = NoChat THEN Idle
             ELSE [op |-> "purge", chat |-> reqs[t].chat, todo |-> reqs[t].todo])
  /\ UNCHANGED <<items, owner, chats, spaces, inSpace, snippets, hidden, paused, files>>

\* delete_for_conversation: the chat's ad-hoc characters go before it.
ItsOwn(c) == {i \in items["character"] : owner[i] = c}

AskDelete(t) ==
  /\ Starts(t)
  /\ \E c \in live : Goes(t, [op |-> "purge", chat |-> c, todo |-> ItsOwn(c)])
  /\ UNCHANGED <<rows, files>>

PurgeOne(t) ==
  /\ On(t, "purge")
  /\ \E i \in reqs[t].todo : DeleteRow(t, i, reqs[t].chat, reqs[t].todo \ {i})

DeleteChat(t) ==
  /\ On(t, "purge") /\ reqs[t].todo = {}
  /\ \E c \in {reqs[t].chat} :
       /\ chats' = [chats EXCEPT ![c] = "gone"]
       /\ lists' = [lists EXCEPT ![c] = Nothing]
       /\ inSpace' = [inSpace EXCEPT ![c] = NoSpace]
       /\ hidden' = [hidden EXCEPT ![c] = Nothing]
       /\ paused' = [paused EXCEPT ![c] = Nothing]
  /\ Goes(t, Idle)
  /\ UNCHANGED <<items, owner, spaces, snippets, files>>

\* A branch has the chat's lists; its characters are attached at the end.  Copied
\* are the chat's own ones, attached or used by the media that come along.
AskFork(t) ==
  /\ Starts(t)
  /\ \E c \in live, d \in Chats : \E used \in SUBSET ItsOwn(c) :
       /\ chats[d] = "new"
       /\ chats' = [chats EXCEPT ![d] = "live"]
       /\ inSpace' = [inSpace EXCEPT ![d] = inSpace[c]]
       /\ lists' = [lists EXCEPT ![d] = [lists[c] EXCEPT !["character"] = {}]]
       /\ hidden' = [hidden EXCEPT ![d] = hidden[c]]
       /\ paused' = [paused EXCEPT ![d] = paused[c]]
       /\ Goes(t, [op |-> "fork", chat |-> c, new |-> d, ids |-> lists[c]["character"],
                   todo |-> used \cup lists[c]["character"]])
  /\ UNCHANGED <<items, owner, spaces, snippets, files>>

\* Mutant: the branch is given the character itself.
OriginalsFor(r, i) == r.ids

\* The list of the branch, with the copy in place of the original.
CopiesFor(r, i) == IF i \in r.ids THEN (r.ids \ {i}) \cup {NextId("character")} ELSE r.ids

ForksOn(t, i, ids) ==
  Goes(t, [op |-> "fork", chat |-> reqs[t].chat, new |-> reqs[t].new, ids |-> ids, todo |-> reqs[t].todo \ {i}])

CopyCharacter(t) ==
  /\ On(t, "fork")
  /\ \E i \in reqs[t].todo :
       \/ /\ i \in ItsOwn(reqs[t].chat)
          /\ NewCharacter(reqs[t].new)
          /\ images' = [images EXCEPT ![NextId("character")] = images[i] \cap disk[i]]
          /\ disk' = [disk EXCEPT ![NextId("character")] = @ \cup (images[i] \cap disk[i])]
          /\ ForksOn(t, i, CopiesFor(reqs[t], i))
       \/ /\ i \notin ItsOwn(reqs[t].chat)
          /\ ForksOn(t, i, reqs[t].ids)
          /\ UNCHANGED <<items, owner, files>>
  /\ UNCHANGED <<chats, spaces, inSpace, lists, snippets, hidden, paused>>

EndFork(t) ==
  /\ On(t, "fork") /\ reqs[t].todo = {}
  /\ lists' = IF reqs[t].new \in live THEN [lists EXCEPT ![reqs[t].new]["character"] = reqs[t].ids] ELSE lists
  /\ Goes(t, Idle)
  /\ UNCHANGED <<items, owner, chats, spaces, inSpace, snippets, hidden, paused, files>>

-----------------------------------------------------------------------------
(* A character's images *)

\* An upload, or a picture from a chat or the library; or one is dropped.
AskImage(t) ==
  /\ Starts(t)
  /\ \E i \in items["character"], op \in {"upload", "drop"}, p \in Pictures :
       /\ IF op = "upload" THEN p \in Fresh ELSE p \in images[i]
       /\ Goes(t, [op |-> op, id |-> i, seen |-> images[i], picture |-> p])
  /\ UNCHANGED <<rows, files>>

\* Mutant: the limit is checked after the image was added.
HasRoomBefore(r) == Cardinality(r.seen) <= MAX_IMAGES

HasRoom(r) == Cardinality(r.seen) < MAX_IMAGES

\* update_character: a character that was deleted is not written.
Listing(i, ps) == images' = IF i \in items["character"] THEN [images EXCEPT ![i] = ps] ELSE images

\* _add_image, with the character as the handler read it.
AddImage(t) ==
  /\ On(t, "upload")
  /\ \E r \in {reqs[t]} :
       IF HasRoom(r)
         THEN Listing(r.id, r.seen \cup {r.picture}) /\ disk' = [disk EXCEPT ![r.id] = @ \cup {r.picture}]
         ELSE UNCHANGED files
  /\ Goes(t, Idle)
  /\ UNCHANGED rows

DropImage(t) ==
  /\ On(t, "drop")
  /\ \E r \in {reqs[t]} :
       Listing(r.id, r.seen \ {r.picture}) /\ disk' = [disk EXCEPT ![r.id] = @ \ {r.picture}]
  /\ Goes(t, Idle)
  /\ UNCHANGED rows

Step(t) ==
  \/ SaveInstruction(t) \/ AskGroup(t) \/ SaveGroup(t) \/ AskList(t) \/ SaveList(t) \/ SwitchOff(t)
  \/ DeleteInstruction(t) \/ SaveSpace(t) \/ DeleteSpace(t) \/ MoveToSpace(t) \/ AskChat(t) \/ CreateChat(t)
  \/ CreateCharacter(t) \/ AskCharacter(t) \/ MakeCharacter(t) \/ ToolCreates(t) \/ Look(t) \/ Attach(t)
  \/ Promote(t) \/ DeleteCharacter(t) \/ RemoveFolder(t) \/ DetachAgain(t)
  \/ AskDelete(t) \/ PurgeOne(t) \/ DeleteChat(t) \/ AskFork(t) \/ CopyCharacter(t) \/ EndFork(t)
  \/ AskImage(t) \/ AddImage(t) \/ DropImage(t)

Next == \E t \in Threads : Step(t)

Spec == Init /\ [][Next]_vars

-----------------------------------------------------------------------------
(* Properties *)

AtRest == \A t \in Threads : reqs[t] = Idle

\* SQLite gives a deleted row's key to the next one.  So an id in a list must
\* name a row that is there, or what is created next is attached unasked; and an
\* ad-hoc character does not outlive its chat, whose pages alone show it
\* (_detach_id, delete_for_conversation).
ListsHold ==
  AtRest =>
    /\ \A p \in DOMAIN lists, k \in Kinds : lists[p][k] \subseteq items[k]
    /\ \A g \in Ids : snippets[g] \subseteq items["instruction"]
    /\ \A i \in items["character"] : owner[i] # NoChat => owner[i] \in live

\* Saving or deleting something changes what is sent by no chat that nobody
\* attached it to: of a chat whose lists, groups, space and switches stay as they
\* are, the characters and snippets become no more, whichever keys are given to new
\* characters, snippets, groups and spaces (_effective_ids, _conversation_instructions).
NothingUnasked ==
  [][UNCHANGED <<lists, snippets, hidden, paused, inSpace>> =>
       \A c \in live : Cast(c)' \subseteq Cast(c) /\ Sent(c)' \subseteq Sent(c)]_vars

\* A finished branch is attached to none of the ad-hoc characters of the chat it is
\* a branch of, which would be taken from it when that chat is deleted: it has
\* copies (api_fork_conversation, copy_to_conversation).
BranchHasCopies ==
  [][\A t \in Threads : reqs[t].op = "fork" /\ reqs'[t] = Idle =>
       \A i \in lists'[reqs[t].new]["character"] : owner'[i] # reqs[t].chat]_vars

\* A character's images are the files in its folder, and a key that is handed
\* out again finds no folder of the character that had it before.
ImagesThere ==
  AtRest => \A i \in Ids : images[i] = disk[i] /\ (i \notin items["character"] => disk[i] = {})

\* No character has more than MAX_IMAGES images, whatever runs at once.
ImageLimit == \A i \in Ids : Cardinality(images[i]) <= MAX_IMAGES

=============================================================================
