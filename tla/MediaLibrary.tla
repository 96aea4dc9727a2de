---------------------------- MODULE MediaLibrary ----------------------------
(***************************************************************************)
(* The media library: an index over files that live in the chats' folders  *)
(* and in the library's own, recorded by messages and by the entries that  *)
(* outlive them.  Its list is built from two reads of the database and a   *)
(* look at the folders, and kept for a while; writes drop the kept list.   *)
(*                                                                         *)
(* A call of the metadata manager and a change of a folder are a step      *)
(* each.  A row stands for a prompt with its attachments or a reply with   *)
(* its pictures; which rows a deletion takes is ChatTree's business, and   *)
(* a video that is still rendering MediaItems'.                            *)
(***************************************************************************)
EXTENDS FiniteSets, Naturals, Sequences

CONSTANTS
  Chats,       \* the chats there may be
  Shelf,       \* the library's own folder
  Uploads,     \* names of uploads: the hash of what is in them
  Made,        \* names of generated pictures: uuids in the code
  Black,       \* the generated pictures that are solid black
  CopyOf,      \* the upload a generated picture becomes when copied
  NoFile,      \* a generation that was refused has no file
  NoRow,       \* no such row
  NoList,      \* no list is kept
  MaxRow,      \* bound on the rows' keys
  LIST_TTL,    \* how long a list is served, in ticks (30 s)
  ORPHAN_GRACE, \* how old an unrecorded file must be to be listed (an hour)
  MaxTime,     \* bound on the clock
  Handlers,    \* requests that may be under way at once
  Lister,      \* the handler that lists
  Serial,      \* whether one of the others runs at a time
  Reattach,    \* whether a chat's own pictures are attached again
  MaxEdits     \* bound on the requests

Files == Uploads \cup Made
Folders == Chats \cup {Shelf}
Rows == 1 .. MaxRow
Time == 0 .. MaxTime

Item == [file: Files \cup {NoFile}, upload: BOOLEAN, refs: SUBSET Files]
Row == [chat: Chats, items: SUBSET Item]
Entry == [chat: Chats, item: Item]
Listed == [origin: {"library", "chat", "orphan"}, folder: Folders, file: Files]

ASSUME LibraryAssumption ==
  /\ Shelf \notin Chats /\ Lister \notin Handlers /\ NoRow \notin Row
  /\ Uploads \cap Made = {} /\ NoFile \notin Files
  /\ Black \subseteq Made /\ CopyOf \in [Made -> Uploads]
  /\ {MaxRow, LIST_TTL, ORPHAN_GRACE, MaxTime, MaxEdits} \subseteq Nat
  /\ Serial \in BOOLEAN /\ Reattach \in BOOLEAN

VARIABLES
  chats,   \* the chats: uuids are not used again
  rows,    \* the messages with media
  entries, \* the library's entries: media whose message is gone
  disk,    \* the files in each folder
  since,   \* when a file was written, or last removed
  waiting, \* attachments in each chat's composer
  kept,    \* the list that is kept
  now,
  reqs,    \* what is in flight
  edits

store == <<chats, rows, entries>>
files == <<disk, since>>
vars == <<store, files, waiting, kept, now, reqs, edits>>

\* Rows, folders and the kept list have a valid shape.
TypeOK ==
  /\ chats \in [Chats -> {"new", "live", "gone"}]
  /\ rows \in [Rows -> Row \cup {NoRow}]
  /\ entries \subseteq Entry
  /\ disk \in [Folders -> SUBSET Files]
  /\ since \in [Folders -> [Files -> Time]]
  /\ waiting \in [Chats -> SUBSET Files]
  /\ kept \in [at: Time, items: SUBSET Listed] \cup {NoList}
  /\ now \in Time /\ edits \in 0 .. MaxEdits

live == {c \in Chats : chats[c] = "live"}

RowsOf(c) == {m \in Rows : rows[m] # NoRow /\ rows[m].chat = c}

Idle == [op |-> "idle"]

\* One of the chats may be there already, with no media yet.
Init ==
  /\ chats \in [Chats -> {"new", "live"}] /\ Cardinality(live) <= 1
  /\ rows = [m \in Rows |-> NoRow]
  /\ entries = {}
  /\ disk = [d \in Folders |-> {}]
  /\ since = [d \in Folders |-> [f \in Files |-> 0]]
  /\ waiting = [c \in Chats |-> {}]
  /\ kept = NoList
  /\ now = 0
  /\ reqs = [t \in Handlers \cup {Lister} |-> Idle]
  /\ edits = 0

Starts(t) ==
  /\ reqs[t] = Idle
  /\ Serial => \A u \in Handlers : reqs[u] = Idle
  /\ edits < MaxEdits
  /\ edits' = edits + 1

Goes(t, r) == reqs' = [reqs EXCEPT ![t] = r]

AtOnce(t) == Starts(t) /\ UNCHANGED reqs

On(t, op) == reqs[t].op = op /\ UNCHANGED edits

Written(d, f) ==
  /\ disk' = [disk EXCEPT ![d] = @ \cup {f}]
  /\ since' = [since EXCEPT ![d][f] = now]

Removed(d, fs) ==
  /\ disk' = [disk EXCEPT ![d] = @ \ fs]
  /\ since' = [since EXCEPT ![d] = [f \in Files |-> IF f \in fs \cap disk[d] THEN now ELSE @[f]]]

\* store_deduped: what is there already is not written again.
Stored(d, f) == IF f \in disk[d] THEN UNCHANGED files ELSE Written(d, f)

Appended(m, item) ==
  rows' = IF rows[m] = NoRow THEN rows ELSE [rows EXCEPT ![m].items = @ \cup {item}]

\* SQLite's next key.
NextRow == CHOOSE n \in 1 .. MaxRow + 1 :
             (n = 1 \/ rows[n - 1] # NoRow) /\ \A m \in n .. MaxRow : rows[m] = NoRow

-----------------------------------------------------------------------------
(* What records a file *)

\* Mutant: the references a picture was made from are not counted.
FileOnly(item) == {item.file} \cap Files

\* _referenced_files: an item's own file and what it was made from.
Uses(item) == ({item.file} \cup item.refs) \cap Files

InUse(c, f) ==
  \/ \E m \in RowsOf(c) : \E i \in rows[m].items : f \in Uses(i)
  \/ \E e \in entries : e.chat = c /\ f \in Uses(e.item)

\* _blocked_reason: refused by a filter, or a black picture that is there.
Blocked(c, item) ==
  /\ ~ item.upload
  /\ item.file = NoFile \/ item.file \in Black \cap disk[c]

-----------------------------------------------------------------------------
(* Chats, messages and their media *)

NewChat(t) ==
  /\ AtOnce(t)
  /\ \E c \in Chats : chats[c] = "new" /\ chats' = [chats EXCEPT ![c] = "live"]
  /\ UNCHANGED <<rows, entries, files, waiting, kept, now>>

\* An attachment: uploaded, or picked from the chat's own folder or another.
Picked(c) == Uploads \cup (IF Reattach THEN disk[c] ELSE {})

\* api_upload_attachment does not drop the kept list; an import that copies does.
AttachFile(t) ==
  /\ AtOnce(t)
  /\ \E c \in live : \E f \in Picked(c) :
       /\ Stored(c, f)
       /\ waiting' = [waiting EXCEPT ![c] = @ \cup {f}]
  /\ UNCHANGED <<store, kept, now>>

\* api_import_media: a picture of the library or of another chat is copied.
ImportFile(t) ==
  /\ AtOnce(t)
  /\ \E c \in live, d \in Folders : \E f \in disk[d] :
       /\ d # c
       /\ \E u \in {IF f \in Made THEN CopyOf[f] ELSE f} :
            Stored(c, u) /\ waiting' = [waiting EXCEPT ![c] = @ \cup {u}]
  /\ kept' = NoList
  /\ UNCHANGED <<store, now>>

\* api_send_message: the attachments are there, then the prompt records them.
AskSend(t) ==
  /\ Starts(t)
  /\ \E c \in live : \E fs \in SUBSET waiting[c] :
       fs \subseteq disk[c] /\ Goes(t, [op |-> "send", chat |-> c, files |-> fs])
  /\ UNCHANGED <<store, files, waiting, kept, now>>

Send(t) ==
  /\ On(t, "send") /\ NextRow \in Rows
  /\ \E c \in {reqs[t].chat}, fs \in {reqs[t].files} :
       /\ rows' = [rows EXCEPT ![NextRow] =
            [chat |-> c, items |-> {[file |-> f, upload |-> TRUE, refs |-> {}] : f \in fs}]]
       /\ waiting' = [waiting EXCEPT ![c] = @ \ fs]
  /\ Goes(t, Idle)
  /\ UNCHANGED <<chats, entries, files, kept, now>>

\* A reply's picture is saved, made from what the chat has, then recorded; one
\* that a filter refused has no file.
Generate(t) ==
  /\ Starts(t)
  /\ \E c \in live : \E m \in RowsOf(c), refs \in SUBSET {f \in disk[c] : InUse(c, f)} :
       \/ \E g \in Made :
            /\ \A d \in Folders : g \notin disk[d] /\ (d \in Chats => ~ InUse(d, g))
            /\ Written(c, g)
            /\ Goes(t, [op |-> "made", row |-> m, item |-> [file |-> g, upload |-> FALSE, refs |-> refs]])
            /\ UNCHANGED rows
       \/ /\ Appended(m, [file |-> NoFile, upload |-> FALSE, refs |-> refs])
          /\ UNCHANGED <<files, reqs>>
  /\ UNCHANGED <<chats, entries, waiting, kept, now>>

RecordMade(t) ==
  /\ On(t, "made")
  /\ Appended(reqs[t].row, reqs[t].item)
  /\ Goes(t, Idle)
  /\ UNCHANGED <<chats, entries, files, waiting, kept, now>>

\* delete_chat_exchange: the generated media of the rows that go become entries.
DeleteExchange(t) ==
  /\ AtOnce(t)
  /\ \E c \in live : \E gone \in SUBSET RowsOf(c) \ {{}} :
       /\ rows' = [m \in Rows |-> IF m \in gone THEN NoRow ELSE rows[m]]
       /\ entries' = entries \cup {[chat |-> c, item |-> i] :
            i \in {j \in UNION {rows[m].items : m \in gone} : ~ j.upload /\ j.file # NoFile}}
  /\ UNCHANGED <<chats, files, waiting, kept, now>>

\* api_fork_conversation: the chat, then links to the files, then the rows.
AskFork(t) ==
  /\ Starts(t)
  /\ \E c \in live, d \in Chats : \E path \in SUBSET RowsOf(c) :
       /\ chats[d] = "new" /\ path # {}
       /\ chats' = [chats EXCEPT ![d] = "live"]
       /\ Goes(t, [op |-> "link", chat |-> c, new |-> d, items |-> UNION {rows[m].items : m \in path}])
  /\ UNCHANGED <<rows, entries, files, waiting, kept, now>>

\* A link has the age of the file it is to.
LinkFiles(t) ==
  /\ On(t, "link")
  /\ \E r \in {reqs[t]} : \E fs \in {((UNION {Uses(i) : i \in r.items}) \cap disk[r.chat]) \ disk[r.new]} :
       /\ disk' = [disk EXCEPT ![r.new] = @ \cup fs]
       /\ since' = [since EXCEPT ![r.new] = [f \in Files |-> IF f \in fs THEN since[r.chat][f] ELSE @[f]]]
       /\ Goes(t, [op |-> "branch", new |-> r.new, items |-> r.items])
  /\ UNCHANGED <<store, waiting, kept, now>>

AddBranch(t) ==
  /\ On(t, "branch") /\ NextRow \in Rows
  /\ rows' = [rows EXCEPT ![NextRow] = [chat |-> reqs[t].new, items |-> reqs[t].items]]
  /\ Goes(t, Idle)
  /\ UNCHANGED <<chats, entries, files, waiting, kept, now>>

\* api_delete_conversation: the rows, then the folder is renamed out of the way.
AskDeleteChat(t) ==
  /\ Starts(t)
  /\ \E c \in live :
       /\ chats' = [chats EXCEPT ![c] = "gone"]
       /\ rows' = [m \in Rows |-> IF m \in RowsOf(c) THEN NoRow ELSE rows[m]]
       /\ entries' = {e \in entries : e.chat # c}
       /\ Goes(t, [op |-> "trash", chat |-> c])
  /\ UNCHANGED <<files, waiting, kept, now>>

TrashFolder(t) ==
  /\ On(t, "trash")
  /\ Removed(reqs[t].chat, disk[reqs[t].chat])
  /\ Goes(t, Idle)
  /\ UNCHANGED <<store, waiting, kept, now>>

-----------------------------------------------------------------------------
(* Removing media *)

\* api_upload_media
UploadToShelf(t) ==
  /\ AtOnce(t)
  /\ \E f \in Uploads : Stored(Shelf, f)
  /\ kept' = NoList
  /\ UNCHANGED <<store, waiting, now>>

\* The rows to write without the file's items, as they were read.
Rewrites(c, f) ==
  {[row |-> m, items |-> {i \in rows[m].items : i.file # f}] :
     m \in {n \in RowsOf(c) : \E i \in rows[n].items : i.file = f}}

\* Mutant: the entries stay.
EntriesKept(r) == entries

OtherEntries(r) == {e \in entries : ~ (e.chat = r.chat /\ e.item.file = r.file)}

\* api_delete_media: what is resolved is removed from the messages as they were
\* read, each in a call of its own, then from the entries, then from the folder.
\* resolve: a chat's folder is reached though the chat is gone.
AskDelete(t) ==
  /\ Starts(t)
  /\ \E d \in Folders : \E f \in disk[d] :
       Goes(t, IF d = Shelf THEN [op |-> "unlink", by |-> "delete", folder |-> d, file |-> f]
               ELSE [op |-> "rewrite", chat |-> d, file |-> f, todo |-> Rewrites(d, f)])
  /\ UNCHANGED <<store, files, waiting, kept, now>>

Rewrite(t) ==
  /\ On(t, "rewrite")
  /\ \E w \in reqs[t].todo :
       /\ rows' = IF rows[w.row] = NoRow THEN rows ELSE [rows EXCEPT ![w.row].items = w.items]
       /\ Goes(t, [reqs[t] EXCEPT !.todo = @ \ {w}])
  /\ UNCHANGED <<chats, entries, files, waiting, kept, now>>

DropEntries(t) ==
  /\ On(t, "rewrite") /\ reqs[t].todo = {}
  /\ \E r \in {reqs[t]} :
       /\ entries' = OtherEntries(r)
       /\ Goes(t, [op |-> "unlink", by |-> "delete", folder |-> r.chat, file |-> r.file])
  /\ UNCHANGED <<chats, rows, files, waiting, kept, now>>

\* api_delete_library_item: the entry, then its file.
DeleteEntry(t) ==
  /\ Starts(t)
  /\ \E e \in entries :
       /\ entries' = entries \ {e}
       /\ Goes(t, [op |-> "unlink", by |-> "entry", folder |-> e.chat, file |-> e.item.file])
  /\ UNCHANGED <<chats, rows, files, waiting, kept, now>>

\* api_discard_attachment: only an upload that nothing uses.
AskDiscard(t) ==
  /\ Starts(t)
  /\ \E c \in live : \E f \in disk[c] \cap Uploads :
       /\ ~ InUse(c, f)
       /\ Goes(t, [op |-> "unlink", by |-> "discard", folder |-> c, file |-> f])
       /\ waiting' = [waiting EXCEPT ![c] = @ \ {f}]
  /\ UNCHANGED <<store, files, kept, now>>

\* The kept list is dropped by api_delete_media only.
Unlink(t) ==
  /\ On(t, "unlink")
  /\ Removed(reqs[t].folder, {reqs[t].file})
  /\ kept' = IF reqs[t].by = "delete" THEN NoList ELSE kept
  /\ Goes(t, Idle)
  /\ UNCHANGED <<store, waiting, now>>

\* api_clear_blocked: what is blocked is found in the messages and in the entries.
AskClear(t) ==
  /\ Starts(t)
  /\ \E found \in {[c \in Chats |-> {i \in UNION {rows[m].items : m \in RowsOf(c)} : Blocked(c, i)}]} :
       Goes(t, [op |-> "clear", found |-> found,
                left |-> {p \in Chats \X Files : \E i \in found[p[1]] : i.file = p[2]},
                gone |-> {e \in entries : Blocked(e.chat, e.item)},
                todo |-> {m \in Rows : rows[m] # NoRow /\ rows[m].items \cap found[rows[m].chat] # {}}])
  /\ UNCHANGED <<store, files, waiting, kept, now>>

\* The files go one by one: the messages' first, then each entry and its own.
ClearFile(t) ==
  /\ On(t, "clear")
  /\ \E p \in reqs[t].left :
       /\ Removed(p[1], {p[2]})
       /\ Goes(t, [reqs[t] EXCEPT !.left = @ \ {p}])
  /\ UNCHANGED <<store, waiting, kept, now>>

ClearEntry(t) ==
  /\ On(t, "clear") /\ reqs[t].left = {}
  /\ \E e \in reqs[t].gone :
       /\ entries' = entries \ {e}
       /\ Goes(t, [reqs[t] EXCEPT !.gone = @ \ {e}, !.left = {<<e.chat, e.item.file>>} \cap (Chats \X Files)])
  /\ UNCHANGED <<chats, rows, files, waiting, kept, now>>

\* Last, each message is read again and written without what was found.
ClearRow(t) ==
  /\ On(t, "clear") /\ reqs[t].left = {} /\ reqs[t].gone = {}
  /\ \E m \in reqs[t].todo :
       /\ rows' = IF rows[m] = NoRow THEN rows ELSE [rows EXCEPT ![m].items = @ \ reqs[t].found[rows[m].chat]]
       /\ Goes(t, [reqs[t] EXCEPT !.todo = @ \ {m}])
  /\ UNCHANGED <<chats, entries, files, waiting, kept, now>>

EndClear(t) ==
  /\ On(t, "clear") /\ reqs[t].left = {} /\ reqs[t].gone = {} /\ reqs[t].todo = {}
  /\ kept' = NoList
  /\ Goes(t, Idle)
  /\ UNCHANGED <<store, files, waiting, now>>

-----------------------------------------------------------------------------
(* Listing *)

\* A row or an entry, as a source of the list.
Recorded(source) ==
  IF source = "messages"
    THEN UNION {{[chat |-> rows[m].chat, item |-> i, age |-> m] : i \in rows[m].items} :
                  m \in {n \in Rows : rows[n] # NoRow}}
    ELSE {[chat |-> e.chat, item |-> e.item, age |-> MaxRow + 1] : e \in entries}

\* Mutant: the entries are read before the messages.
EntriesFirst == <<"entries", "messages">>

\* _build_items: what moves to the entries in between is seen twice, not missed.
ReadOrder == <<"messages", "entries">>

\* _chat_records: a file name is listed once, in the oldest chat that has it.
ChatRecords(read) ==
  LET there == {r \in read : r.item.file \in disk[r.chat]}
      best(f) == CHOOSE r \in there : r.item.file = f /\ \A s \in there : s.item.file = f => r.age <= s.age
  IN  {[origin |-> "chat", folder |-> best(f).chat, file |-> f] : f \in {r.item.file : r \in there}}

\* _chat_orphans: what nothing uses, unless it is new.
Orphans(read) ==
  {[origin |-> "orphan", folder |-> p[1], file |-> p[2]] : p \in
     {q \in live \X Files :
        /\ q[2] \in disk[q[1]]
        /\ since[q[1]][q[2]] + ORPHAN_GRACE <= now
        /\ ~ \E r \in read : r.chat = q[1] /\ q[2] \in Uses(r.item)}}

Fresh == kept # NoList /\ now - kept.at <= LIST_TTL

\* _all_items: nothing is built while the kept list is fresh.
AskList ==
  /\ reqs[Lister] = Idle /\ ~ Fresh
  /\ Goes(Lister, [op |-> "list", at |-> now, read |-> Recorded(ReadOrder[1]),
                   had |-> {<<r.chat, r.item>> : r \in Recorded("messages") \cup Recorded("entries")}])
  /\ UNCHANGED <<store, files, waiting, kept, now, edits>>

ReadSecond ==
  /\ On(Lister, "list")
  /\ Goes(Lister, [reqs[Lister] EXCEPT !.op = "scan", !.read = @ \cup Recorded(ReadOrder[2])])
  /\ UNCHANGED <<store, files, waiting, kept, now>>

ScanFolders ==
  /\ On(Lister, "scan")
  /\ \E r \in {reqs[Lister]} :
       Goes(Lister, [op |-> "keep", at |-> r.at, had |-> r.had,
         items |-> {[origin |-> "library", folder |-> Shelf, file |-> f] : f \in disk[Shelf]}
                     \cup ChatRecords(r.read) \cup Orphans(r.read)])
  /\ UNCHANGED <<store, files, waiting, kept, now>>

\* Mutant: the list is as old as its last read.
StampedLate(r) == now

\* Mutant: the list is kept with the time it runs out.
StampedExpiry(r) == r.at + LIST_TTL

Stamp(r) == r.at

KeepList ==
  /\ On(Lister, "keep")
  /\ kept' = [at |-> Stamp(reqs[Lister]), items |-> reqs[Lister].items]
  /\ Goes(Lister, Idle)
  /\ UNCHANGED <<store, files, waiting, now>>

Tick ==
  /\ now < MaxTime
  /\ now' = now + 1
  /\ UNCHANGED <<store, files, waiting, kept, reqs, edits>>

Step(t) ==
  \/ NewChat(t) \/ AttachFile(t) \/ ImportFile(t) \/ AskSend(t) \/ Send(t) \/ Generate(t) \/ RecordMade(t)
  \/ DeleteExchange(t) \/ AskFork(t) \/ LinkFiles(t) \/ AddBranch(t) \/ AskDeleteChat(t) \/ TrashFolder(t)
  \/ UploadToShelf(t) \/ AskDelete(t) \/ Rewrite(t) \/ DropEntries(t) \/ DeleteEntry(t)
  \/ AskDiscard(t) \/ Unlink(t) \/ AskClear(t) \/ ClearFile(t) \/ ClearEntry(t) \/ ClearRow(t) \/ EndClear(t)

Next == (\E t \in Handlers : Step(t)) \/ AskList \/ ReadSecond \/ ScanFolders \/ KeepList \/ Tick

Spec == Init /\ [][Next]_vars

-----------------------------------------------------------------------------
(* Properties *)

AtRest == \A t \in Handlers : reqs[t] = Idle

\* What a message or an entry of the library shows is in its chat's folder:
\* every way of removing a file removes what records it (api_delete_media,
\* api_clear_blocked, api_discard_attachment, _empty_trash).
FilesThere ==
  AtRest =>
    /\ \A c \in Chats : \A m \in RowsOf(c) : \A i \in rows[m].items : i.file \in disk[c] \cup {NoFile}
    /\ \A e \in entries : e.item.file \in disk[e.chat]

\* A list that is served shows nothing that has been gone for longer than
\* LIST_TTL: one built before a removal may be kept after it dropped the list.
StaleAtMostTTL ==
  Fresh => \A e \in kept.items :
             e.file \in disk[e.folder] \/ now <= since[e.folder][e.file] + LIST_TTL

\* What was recorded when the list was asked for, still is when it is there, and has
\* been on disk for as long: the list owes it to the user.
Lasting ==
  {r \in Recorded("messages") \cup Recorded("entries") :
     /\ <<r.chat, r.item>> \in reqs[Lister].had
     /\ r.item.file \in disk[r.chat]
     /\ since[r.chat][r.item.file] < reqs[Lister].at}

\* A list has all that was there while it was built, also what was moved from its
\* message to the library's entries in between (_build_items).
NothingMissed ==
  reqs[Lister].op = "keep" => \A r \in Lasting : \E e \in reqs[Lister].items : e.file = r.item.file

\* A list never offers for deletion, as an orphan, a file that a message or an entry
\* used while it was built, be it only as what a picture was made from (_chat_orphans).
OrphansUnused ==
  reqs[Lister].op = "keep" =>
    \A r \in Lasting, e \in reqs[Lister].items :
      e.origin = "orphan" /\ e.folder = r.chat => e.file \notin {r.item.file} \cup r.item.refs

=============================================================================
