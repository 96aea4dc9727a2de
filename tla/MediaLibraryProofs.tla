------------------------- MODULE MediaLibraryProofs -------------------------
(***************************************************************************)
(* What holds of the library for any number of chats, files, rows and      *)
(* requests, and for any times.                                            *)
(***************************************************************************)
EXTENDS MediaLibrary, WellFoundedInduction, TLAPS

\* Keys in Chats or not, files of an item's that may be NoFile.
Paths == Files \cup {NoFile}
Source == [chat: Chats, item: Item, age: Nat]
Todo == [row: Rows, items: SUBSET Item]

\* A clearing that is under way.
Clearing ==
  [op: {"clear"}, found: [Chats -> SUBSET Item], left: SUBSET (Chats \X Files), gone: SUBSET Entry, todo: SUBSET Rows]

\* What a handler has in hand between two of its calls.
Work ==
       {Idle}
  \cup [op: {"send"}, chat: Chats, files: SUBSET Files]
  \cup [op: {"made"}, row: Rows, item: Item]
  \cup [op: {"link"}, chat: Chats, new: Chats, items: SUBSET Item]
  \cup [op: {"branch"}, new: Chats, items: SUBSET Item]
  \cup [op: {"trash"}, chat: Chats]
  \cup [op: {"rewrite"}, chat: Chats, file: Files, todo: SUBSET Todo]
  \cup [op: {"unlink"}, by: {"delete", "entry", "discard"}, folder: Folders, file: Paths]
  \cup Clearing

Pairs == SUBSET (Chats \X Item)

\* What the lister has read.
Listing ==
       {Idle}
  \cup [op: {"list", "scan"}, at: Time, read: SUBSET Source, had: Pairs]
  \cup [op: {"keep"}, at: Time, items: SUBSET Listed, had: Pairs]

RequestsTyped ==
  /\ DOMAIN reqs = Handlers \cup {Lister} /\ reqs = [t \in DOMAIN reqs |-> reqs[t]]
  /\ \A t \in Handlers : reqs[t] \in Work
  /\ reqs[Lister] \in Listing

Typed == TypeOK /\ RequestsTyped

FilesTyped == disk \in [Folders -> SUBSET Files] /\ since \in [Folders -> [Files -> Time]]

-----------------------------------------------------------------------------
(* Shapes *)

LEMMA WorkTyped ==
  ASSUME NEW t \in Handlers, NEW r \in Work, RequestsTyped, Goes(t, r)
  PROVE  RequestsTyped'
<1>1. t # Lister
  BY LibraryAssumption
<1>2. QED
  BY <1>1 DEF Goes, RequestsTyped

LEMMA ListingTyped ==
  ASSUME NEW r \in Listing, RequestsTyped, Goes(Lister, r)
  PROVE  RequestsTyped'
BY LibraryAssumption DEF Goes, RequestsTyped

LEMMA IdleIsWork == Idle \in Work /\ Idle \in Listing
BY DEF Work, Listing

LEMMA SameRequests == RequestsTyped /\ UNCHANGED reqs => RequestsTyped'
BY DEF RequestsTyped

LEMMA EditsTyped ==
  ASSUME TypeOK, NEW t, Starts(t)
  PROVE  edits' \in 0 .. MaxEdits
BY LibraryAssumption DEF Starts, TypeOK

LEMMA WrittenTyped ==
  ASSUME TypeOK, NEW d \in Folders, NEW f \in Files, Written(d, f)
  PROVE  FilesTyped'
BY DEF TypeOK, Written, FilesTyped

LEMMA StoredTyped ==
  ASSUME TypeOK, NEW d \in Folders, NEW f \in Files, Stored(d, f)
  PROVE  FilesTyped'
<1>1. CASE UNCHANGED files
  BY <1>1 DEF TypeOK, files, FilesTyped
<1>2. CASE Written(d, f)
  BY <1>2, WrittenTyped
<1>3. QED
  BY <1>1, <1>2 DEF Stored

LEMMA RemovedTyped ==
  ASSUME TypeOK, NEW d \in Folders, NEW fs, Removed(d, fs)
  PROVE  FilesTyped'
<1>1. disk' \in [Folders -> SUBSET Files]
  BY DEF TypeOK, Removed
<1>2. now \in Time /\ since[d] \in [Files -> Time]
  BY DEF TypeOK
<1>3. [f \in Files |-> IF f \in fs \cap disk[d] THEN now ELSE since[d][f]] \in [Files -> Time]
  BY <1>2
<1>4. since' = [since EXCEPT ![d] = [f \in Files |-> IF f \in fs \cap disk[d] THEN now ELSE since[d][f]]]
  BY DEF Removed, TypeOK
<1>5. since' \in [Folders -> [Files -> Time]]
  BY <1>3, <1>4 DEF TypeOK
<1>6. QED
  BY <1>1, <1>5 DEF FilesTyped

\* A row of the table.
LEMMA RowFields ==
  ASSUME TypeOK, NEW m \in Rows, rows[m] # NoRow
  PROVE  rows[m] \in Row /\ rows[m].chat \in Chats /\ rows[m].items \subseteq Item
BY DEF TypeOK, Row

LEMMA NewItems ==
  ASSUME TypeOK, NEW m \in Rows, NEW is \in SUBSET Item,
         rows' = IF rows[m] = NoRow THEN rows ELSE [rows EXCEPT ![m].items = is]
  PROVE  rows' \in [Rows -> Row \cup {NoRow}]
<1>1. CASE rows[m] = NoRow
  BY <1>1 DEF TypeOK
<1>2. CASE rows[m] # NoRow
  <2>1. [rows[m] EXCEPT !.items = is] \in Row
    BY <1>2, RowFields DEF Row
  <2>2. rows' = [rows EXCEPT ![m] = [rows[m] EXCEPT !.items = is]]
    BY <1>2 DEF TypeOK
  <2>3. QED
    BY <2>1, <2>2 DEF TypeOK
<1>3. QED
  BY <1>1, <1>2

LEMMA AppendedTyped ==
  ASSUME TypeOK, NEW m \in Rows, NEW item \in Item, Appended(m, item)
  PROVE  rows' \in [Rows -> Row \cup {NoRow}]
<1>1. CASE rows[m] = NoRow
  BY <1>1 DEF Appended, TypeOK
<1>2. CASE rows[m] # NoRow
  <2>1. rows[m].items \cup {item} \in SUBSET Item
    BY <1>2, RowFields
  <2>2. rows' = [rows EXCEPT ![m].items = rows[m].items \cup {item}]
    BY <1>2 DEF Appended, TypeOK
  <2>3. QED
    BY <1>2, <2>1, <2>2, NewItems
<1>3. QED
  BY <1>1, <1>2

LEMMA FoldersFacts == Chats \subseteq Folders /\ Shelf \in Folders
BY DEF Folders

-----------------------------------------------------------------------------
(* Every step keeps the shapes *)

LEMMA TypedChats ==
  ASSUME Typed, NEW t \in Handlers, NewChat(t) \/ AttachFile(t) \/ ImportFile(t)
  PROVE  Typed'
<1>1. CASE NewChat(t)
  <2>1. chats' \in [Chats -> {"new", "live", "gone"}]
    BY <1>1 DEF NewChat, Typed, TypeOK
  <2>2. edits' \in 0 .. MaxEdits /\ RequestsTyped'
    BY <1>1, EditsTyped, SameRequests DEF NewChat, AtOnce, Typed
  <2>3. QED
    BY <1>1, <2>1, <2>2 DEF NewChat, Typed, TypeOK, files
<1>2. CASE AttachFile(t)
  <2>1. PICK c, f : c \in live /\ f \in Picked(c) /\ Stored(c, f) /\ waiting' = [waiting EXCEPT ![c] = @ \cup {f}]
    BY <1>2 DEF AttachFile
  <2>2. c \in Chats /\ c \in Folders /\ f \in Files
    BY <2>1, FoldersFacts DEF live, Picked, Files, Typed, TypeOK
  <2>3. FilesTyped'
    BY <2>1, <2>2, StoredTyped DEF Typed
  <2>4. waiting' \in [Chats -> SUBSET Files]
    BY <2>1, <2>2 DEF Typed, TypeOK
  <2>5. edits' \in 0 .. MaxEdits /\ RequestsTyped'
    BY <1>2, EditsTyped, SameRequests DEF AttachFile, AtOnce, Typed
  <2>6. QED
    BY <1>2, <2>3, <2>4, <2>5 DEF AttachFile, Typed, TypeOK, FilesTyped, store
<1>3. CASE ImportFile(t)
  <2>1. PICK c, d, f, u :
          /\ c \in live /\ d \in Folders
          /\ f \in disk[d] /\ u = IF f \in Made THEN CopyOf[f] ELSE f
          /\ Stored(c, u) /\ waiting' = [waiting EXCEPT ![c] = @ \cup {u}]
    BY <1>3 DEF ImportFile
  <2>2. c \in Chats /\ c \in Folders /\ f \in Files
    BY <2>1, FoldersFacts DEF live, Typed, TypeOK
  <2>3. u \in Files
    BY <2>1, <2>2, LibraryAssumption DEF Files
  <2>4. FilesTyped'
    BY <2>1, <2>2, <2>3, StoredTyped DEF Typed
  <2>5. waiting' \in [Chats -> SUBSET Files]
    BY <2>1, <2>2, <2>3 DEF Typed, TypeOK
  <2>6. edits' \in 0 .. MaxEdits /\ RequestsTyped'
    BY <1>3, EditsTyped, SameRequests DEF ImportFile, AtOnce, Typed
  <2>7. QED
    BY <1>3, <2>4, <2>5, <2>6 DEF ImportFile, Typed, TypeOK, FilesTyped, store
<1>4. QED
  BY <1>1, <1>2, <1>3

\* The key of the next row.
LEMMA AddedRow ==
  ASSUME TypeOK, NEW c \in Chats, NEW is \in SUBSET Item, NextRow \in Rows,
         rows' = [rows EXCEPT ![NextRow] = [chat |-> c, items |-> is]]
  PROVE  rows' \in [Rows -> Row \cup {NoRow}]
<1>1. [chat |-> c, items |-> is] \in Row
  BY DEF Row
<1>2. QED
  BY <1>1 DEF TypeOK

LEMMA TypedSend ==
  ASSUME Typed, NEW t \in Handlers, AskSend(t) \/ Send(t)
  PROVE  Typed'
<1>1. CASE AskSend(t)
  <2>1. PICK c, fs : c \in live /\ fs \subseteq waiting[c] /\ Goes(t, [op |-> "send", chat |-> c, files |-> fs])
    BY <1>1 DEF AskSend
  <2>2. c \in Chats /\ fs \subseteq Files
    BY <2>1 DEF live, Typed, TypeOK
  <2>3. [op |-> "send", chat |-> c, files |-> fs] \in Work
    BY <2>2 DEF Work
  <2>4. edits' \in 0 .. MaxEdits /\ RequestsTyped'
    BY <1>1, <2>1, <2>3, EditsTyped, WorkTyped DEF AskSend, Typed
  <2>5. QED
    BY <1>1, <2>4 DEF AskSend, Typed, TypeOK, store, files
<1>2. CASE Send(t)
  <2>1. reqs[t] \in Work /\ reqs[t].op = "send"
    BY <1>2 DEF Send, On, Typed, RequestsTyped
  <2>2. reqs[t].chat \in Chats /\ reqs[t].files \subseteq Files
    BY <2>1 DEF Work, Clearing, Idle
  <2>3. {[file |-> f, upload |-> TRUE, refs |-> {}] : f \in reqs[t].files} \in SUBSET Item
    <3>1. \A f \in reqs[t].files : [file |-> f, upload |-> TRUE, refs |-> {}] \in Item
      BY <2>2 DEF Item
    <3>2. QED
      BY <3>1
  <2>4. /\ NextRow \in Rows
        /\ rows' = [rows EXCEPT ![NextRow] = [chat |-> reqs[t].chat,
                     items |-> {[file |-> f, upload |-> TRUE, refs |-> {}] : f \in reqs[t].files}]]
        /\ waiting' = [waiting EXCEPT ![reqs[t].chat] = @ \ reqs[t].files]
    BY <1>2 DEF Send
  <2>5. rows' \in [Rows -> Row \cup {NoRow}]
    BY <2>2, <2>3, <2>4, AddedRow DEF Typed
  <2>6. waiting' \in [Chats -> SUBSET Files]
    BY <2>2, <2>4 DEF Typed, TypeOK
  <2>7. RequestsTyped'
    BY <1>2, WorkTyped, IdleIsWork DEF Send, Typed
  <2>8. QED
    BY <1>2, <2>5, <2>6, <2>7 DEF Send, On, Typed, TypeOK, files
<1>3. QED
  BY <1>1, <1>2

LEMMA TypedGenerate ==
  ASSUME Typed, NEW t \in Handlers, Generate(t) \/ RecordMade(t)
  PROVE  Typed'
<1>1. ASSUME NEW c \in live, NEW m \in RowsOf(c), NEW refs \in SUBSET {f \in disk[c] : InUse(c, f)}
      PROVE  /\ c \in Chats /\ c \in Folders /\ m \in Rows
             /\ \A f \in Paths : [file |-> f, upload |-> FALSE, refs |-> refs] \in Item
  <2>1. c \in Chats /\ c \in Folders /\ m \in Rows
    BY FoldersFacts DEF live, RowsOf
  <2>2. refs \subseteq Files
    BY <2>1 DEF Typed, TypeOK
  <2>3. QED
    BY <2>1, <2>2 DEF Item, Paths
<1>2. CASE Generate(t)
  <2>1. PICK c \in live : \E m \in RowsOf(c), refs \in SUBSET {f \in disk[c] : InUse(c, f)} :
          \/ \E g \in Made :
               /\ Written(c, g)
               /\ Goes(t, [op |-> "made", row |-> m, item |-> [file |-> g, upload |-> FALSE, refs |-> refs]])
               /\ UNCHANGED rows
          \/ Appended(m, [file |-> NoFile, upload |-> FALSE, refs |-> refs]) /\ UNCHANGED <<files, reqs>>
    BY <1>2 DEF Generate
  <2>2. PICK m \in RowsOf(c), refs \in SUBSET {f \in disk[c] : InUse(c, f)} :
          \/ \E g \in Made :
               /\ Written(c, g)
               /\ Goes(t, [op |-> "made", row |-> m, item |-> [file |-> g, upload |-> FALSE, refs |-> refs]])
               /\ UNCHANGED rows
          \/ Appended(m, [file |-> NoFile, upload |-> FALSE, refs |-> refs]) /\ UNCHANGED <<files, reqs>>
    BY <2>1
  <2>3. edits' \in 0 .. MaxEdits /\ UNCHANGED <<chats, entries, waiting, kept, now>>
    BY <1>2, EditsTyped DEF Generate, Typed
  <2>4. ASSUME NEW g \in Made, Written(c, g), UNCHANGED rows,
               Goes(t, [op |-> "made", row |-> m, item |-> [file |-> g, upload |-> FALSE, refs |-> refs]])
        PROVE  Typed'
    <3>1. [file |-> g, upload |-> FALSE, refs |-> refs] \in Item
      BY <1>1 DEF Paths, Files
    <3>2. [op |-> "made", row |-> m, item |-> [file |-> g, upload |-> FALSE, refs |-> refs]] \in Work
      BY <1>1, <3>1 DEF Work
    <3>3. RequestsTyped'
      BY <2>4, <3>2, WorkTyped DEF Typed
    <3>4. FilesTyped'
      BY <1>1, <2>4, WrittenTyped DEF Typed, Files
    <3>5. QED
      BY <2>3, <2>4, <3>3, <3>4 DEF Typed, TypeOK, FilesTyped
  <2>5. ASSUME Appended(m, [file |-> NoFile, upload |-> FALSE, refs |-> refs]), UNCHANGED <<files, reqs>>
        PROVE  Typed'
    <3>1. rows' \in [Rows -> Row \cup {NoRow}]
      BY <1>1, <2>5, AppendedTyped DEF Paths, Typed
    <3>2. RequestsTyped'
      BY <2>5, SameRequests DEF Typed
    <3>3. QED
      BY <2>3, <2>5, <3>1, <3>2 DEF Typed, TypeOK, files
  <2>6. QED
    BY <2>2, <2>4, <2>5
<1>3. CASE RecordMade(t)
  <2>1. reqs[t] \in Work /\ reqs[t].op = "made"
    BY <1>3 DEF RecordMade, On, Typed, RequestsTyped
  <2>2. reqs[t].row \in Rows /\ reqs[t].item \in Item
    BY <2>1 DEF Work, Clearing, Idle
  <2>3. rows' \in [Rows -> Row \cup {NoRow}]
    BY <1>3, <2>2, AppendedTyped DEF RecordMade, Typed
  <2>4. RequestsTyped'
    BY <1>3, WorkTyped, IdleIsWork DEF RecordMade, Typed
  <2>5. QED
    BY <1>3, <2>3, <2>4 DEF RecordMade, On, Typed, TypeOK, files
<1>4. QED
  BY <1>2, <1>3

LEMMA TypedDeleteExchange ==
  ASSUME Typed, NEW t \in Handlers, DeleteExchange(t)
  PROVE  Typed'
<1>1. PICK c, gone :
        /\ c \in live
        /\ gone \subseteq RowsOf(c)
        /\ rows' = [m \in Rows |-> IF m \in gone THEN NoRow ELSE rows[m]]
        /\ entries' = entries \cup {[chat |-> c, item |-> i] :
             i \in {j \in UNION {rows[m].items : m \in gone} : ~ j.upload /\ j.file # NoFile}}
  BY DEF DeleteExchange
<1>2. c \in Chats /\ \A m \in gone : m \in Rows /\ rows[m] # NoRow
  BY <1>1 DEF live, RowsOf
<1>3. rows' \in [Rows -> Row \cup {NoRow}]
  BY <1>1 DEF Typed, TypeOK
<1>4. \A i \in UNION {rows[m].items : m \in gone} : [chat |-> c, item |-> i] \in Entry
  <2>1. \A m \in gone : rows[m].items \subseteq Item
    BY <1>2, RowFields DEF Typed
  <2>2. QED
    BY <1>2, <2>1 DEF Entry
<1>5. entries' \subseteq Entry
  BY <1>1, <1>4 DEF Typed, TypeOK
<1>6. edits' \in 0 .. MaxEdits /\ RequestsTyped'
  BY EditsTyped, SameRequests DEF DeleteExchange, AtOnce, Typed
<1>7. QED
  BY <1>3, <1>5, <1>6 DEF DeleteExchange, Typed, TypeOK, files

LEMMA TypedFork ==
  ASSUME Typed, NEW t \in Handlers, AskFork(t) \/ LinkFiles(t) \/ AddBranch(t)
  PROVE  Typed'
<1>1. CASE AskFork(t)
  <2>1. PICK c, d, path :
          /\ c \in live /\ d \in Chats
          /\ path \subseteq RowsOf(c)
          /\ chats' = [chats EXCEPT ![d] = "live"]
          /\ Goes(t, [op |-> "link", chat |-> c, new |-> d, items |-> UNION {rows[m].items : m \in path}])
    BY <1>1 DEF AskFork
  <2>2. c \in Chats /\ \A m \in path : m \in Rows /\ rows[m] # NoRow
    BY <2>1 DEF live, RowsOf
  <2>3. UNION {rows[m].items : m \in path} \in SUBSET Item
    <3>1. \A m \in path : rows[m].items \subseteq Item
      BY <2>2, RowFields DEF Typed
    <3>2. QED
      BY <3>1
  <2>4. [op |-> "link", chat |-> c, new |-> d, items |-> UNION {rows[m].items : m \in path}] \in Work
    BY <2>1, <2>2, <2>3 DEF Work
  <2>5. edits' \in 0 .. MaxEdits /\ RequestsTyped'
    BY <1>1, <2>1, <2>4, EditsTyped, WorkTyped DEF AskFork, Typed
  <2>6. chats' \in [Chats -> {"new", "live", "gone"}]
    BY <2>1 DEF Typed, TypeOK
  <2>7. QED
    BY <1>1, <2>5, <2>6 DEF AskFork, Typed, TypeOK, files
<1>2. CASE LinkFiles(t)
  <2>1. reqs[t] \in Work /\ reqs[t].op = "link"
    BY <1>2 DEF LinkFiles, On, Typed, RequestsTyped
  <2>2. reqs[t].chat \in Chats /\ reqs[t].new \in Chats /\ reqs[t].items \in SUBSET Item
    BY <2>1 DEF Work, Clearing, Idle
  <2>3. PICK r, fs :
          /\ r = reqs[t] /\ fs \subseteq disk[r.chat]
          /\ disk' = [disk EXCEPT ![r.new] = @ \cup fs]
          /\ since' = [since EXCEPT ![r.new] = [f \in Files |-> IF f \in fs THEN since[r.chat][f] ELSE @[f]]]
          /\ Goes(t, [op |-> "branch", new |-> r.new, items |-> r.items])
    BY <1>2 DEF LinkFiles
  <2>4. r.new \in Folders /\ r.chat \in Folders /\ fs \subseteq Files
    BY <2>2, <2>3, FoldersFacts DEF Typed, TypeOK
  <2>5. disk' \in [Folders -> SUBSET Files]
    BY <2>3, <2>4 DEF Typed, TypeOK
  <2>6. since' \in [Folders -> [Files -> Time]]
    <3>1. since[r.chat] \in [Files -> Time] /\ since[r.new] \in [Files -> Time]
      BY <2>4 DEF Typed, TypeOK
    <3>2. [f \in Files |-> IF f \in fs THEN since[r.chat][f] ELSE since[r.new][f]] \in [Files -> Time]
      BY <3>1
    <3>3. since' = [since EXCEPT ![r.new] = [f \in Files |-> IF f \in fs THEN since[r.chat][f] ELSE since[r.new][f]]]
      BY <2>3, <2>4 DEF Typed, TypeOK
    <3>4. QED
      BY <2>4, <3>2, <3>3 DEF Typed, TypeOK
  <2>7. [op |-> "branch", new |-> r.new, items |-> r.items] \in Work
    BY <2>2, <2>3 DEF Work
  <2>8. RequestsTyped'
    BY <2>3, <2>7, WorkTyped DEF Typed
  <2>9. QED
    BY <1>2, <2>5, <2>6, <2>8 DEF LinkFiles, On, Typed, TypeOK, store
<1>3. CASE AddBranch(t)
  <2>1. reqs[t] \in Work /\ reqs[t].op = "branch"
    BY <1>3 DEF AddBranch, On, Typed, RequestsTyped
  <2>2. reqs[t].new \in Chats /\ reqs[t].items \in SUBSET Item
    BY <2>1 DEF Work, Clearing, Idle
  <2>3. rows' \in [Rows -> Row \cup {NoRow}]
    BY <1>3, <2>2, AddedRow DEF AddBranch, Typed
  <2>4. RequestsTyped'
    BY <1>3, WorkTyped, IdleIsWork DEF AddBranch, Typed
  <2>5. QED
    BY <1>3, <2>3, <2>4 DEF AddBranch, On, Typed, TypeOK, files
<1>4. QED
  BY <1>1, <1>2, <1>3

LEMMA TypedDeleteChat ==
  ASSUME Typed, NEW t \in Handlers, AskDeleteChat(t) \/ TrashFolder(t)
  PROVE  Typed'
<1>1. CASE AskDeleteChat(t)
  <2>1. PICK c \in live :
          /\ chats' = [chats EXCEPT ![c] = "gone"]
          /\ rows' = [m \in Rows |-> IF m \in RowsOf(c) THEN NoRow ELSE rows[m]]
          /\ entries' = {e \in entries : e.chat # c}
          /\ Goes(t, [op |-> "trash", chat |-> c])
    BY <1>1 DEF AskDeleteChat
  <2>2. [op |-> "trash", chat |-> c] \in Work
    BY DEF Work, live
  <2>3. edits' \in 0 .. MaxEdits /\ RequestsTyped'
    BY <1>1, <2>1, <2>2, EditsTyped, WorkTyped DEF AskDeleteChat, Typed
  <2>4. chats' \in [Chats -> {"new", "live", "gone"}]
    BY <2>1 DEF Typed, TypeOK
  <2>5. rows' \in [Rows -> Row \cup {NoRow}]
    BY <2>1 DEF Typed, TypeOK
  <2>6. entries' \subseteq Entry
    BY <2>1 DEF Typed, TypeOK
  <2>7. QED
    BY <1>1, <2>3, <2>4, <2>5, <2>6 DEF AskDeleteChat, Typed, TypeOK, files
<1>2. CASE TrashFolder(t)
  <2>1. reqs[t] \in Work /\ reqs[t].op = "trash"
    BY <1>2 DEF TrashFolder, On, Typed, RequestsTyped
  <2>2. reqs[t].chat \in Folders
    BY <2>1, FoldersFacts DEF Work, Clearing, Idle
  <2>3. FilesTyped'
    BY <1>2, <2>2, RemovedTyped DEF TrashFolder, Typed
  <2>4. RequestsTyped'
    BY <1>2, WorkTyped, IdleIsWork DEF TrashFolder, Typed
  <2>5. QED
    BY <1>2, <2>3, <2>4 DEF TrashFolder, On, Typed, TypeOK, FilesTyped, store
<1>3. QED
  BY <1>1, <1>2

LEMMA RewritesTyped ==
  ASSUME TypeOK, NEW c \in Chats, NEW f \in Files
  PROVE  Rewrites(c, f) \in SUBSET Todo
<1>1. \A m \in RowsOf(c) : m \in Rows /\ rows[m].items \subseteq Item
  BY RowFields DEF RowsOf
<1>2. \A m \in RowsOf(c) : [row |-> m, items |-> {i \in rows[m].items : i.file # f}] \in Todo
  BY <1>1 DEF Todo
<1>3. QED
  BY <1>2 DEF Rewrites

LEMMA TypedShelf ==
  ASSUME Typed, NEW t \in Handlers, UploadToShelf(t) \/ AskDelete(t)
  PROVE  Typed'
<1>1. CASE UploadToShelf(t)
  <2>1. PICK f \in Uploads : Stored(Shelf, f)
    BY <1>1 DEF UploadToShelf
  <2>2. FilesTyped'
    BY <2>1, StoredTyped, FoldersFacts DEF Typed, Files
  <2>3. edits' \in 0 .. MaxEdits /\ RequestsTyped'
    BY <1>1, EditsTyped, SameRequests DEF UploadToShelf, AtOnce, Typed
  <2>4. QED
    BY <1>1, <2>2, <2>3 DEF UploadToShelf, Typed, TypeOK, FilesTyped, store
<1>2. CASE AskDelete(t)
  <2>1. PICK d, f : /\ d \in Folders /\ f \in disk[d]
                   /\ Goes(t, IF d = Shelf THEN [op |-> "unlink", by |-> "delete", folder |-> d, file |-> f]
                                           ELSE [op |-> "rewrite", chat |-> d, file |-> f, todo |-> Rewrites(d, f)])
    BY <1>2 DEF AskDelete
  <2>2. f \in Files
    BY <2>1 DEF Typed, TypeOK
  <2>3. [op |-> "unlink", by |-> "delete", folder |-> d, file |-> f] \in Work
    BY <2>1, <2>2 DEF Work, Paths
  <2>4. ASSUME d # Shelf
        PROVE  [op |-> "rewrite", chat |-> d, file |-> f, todo |-> Rewrites(d, f)] \in Work
    <3>1. d \in Chats
      BY <2>1, <2>4 DEF Folders
    <3>2. Rewrites(d, f) \in SUBSET Todo
      BY <3>1, <2>2, RewritesTyped DEF Typed
    <3>3. QED
      BY <3>1, <3>2, <2>2 DEF Work
  <2>5. RequestsTyped'
    BY <2>1, <2>3, <2>4, WorkTyped DEF Typed
  <2>6. edits' \in 0 .. MaxEdits
    BY <1>2, EditsTyped DEF AskDelete, Typed
  <2>7. QED
    BY <1>2, <2>5, <2>6 DEF AskDelete, Typed, TypeOK, store, files
<1>3. QED
  BY <1>1, <1>2

LEMMA TypedRewrite ==
  ASSUME Typed, NEW t \in Handlers, Rewrite(t) \/ DropEntries(t)
  PROVE  Typed'
<1>1. reqs[t] \in Work /\ reqs[t].op = "rewrite"
  BY DEF Rewrite, DropEntries, On, Typed, RequestsTyped
<1>2. reqs[t] \in [op: {"rewrite"}, chat: Chats, file: Files, todo: SUBSET Todo]
  BY <1>1 DEF Work, Clearing, Idle
<1>3. CASE Rewrite(t)
  <2>1. PICK w \in reqs[t].todo :
          /\ rows' = IF rows[w.row] = NoRow THEN rows ELSE [rows EXCEPT ![w.row].items = w.items]
          /\ Goes(t, [reqs[t] EXCEPT !.todo = @ \ {w}])
    BY <1>3 DEF Rewrite
  <2>2. w.row \in Rows /\ w.items \in SUBSET Item
    BY <1>2 DEF Todo
  <2>3. rows' \in [Rows -> Row \cup {NoRow}]
    BY <2>1, <2>2, NewItems DEF Typed
  <2>4. [reqs[t] EXCEPT !.todo = @ \ {w}] \in [op: {"rewrite"}, chat: Chats, file: Files, todo: SUBSET Todo]
    BY <1>2
  <2>5. [reqs[t] EXCEPT !.todo = @ \ {w}] \in Work
    BY <2>4 DEF Work
  <2>6. RequestsTyped'
    BY <2>1, <2>5, WorkTyped DEF Typed
  <2>7. QED
    BY <1>3, <2>3, <2>6 DEF Rewrite, On, Typed, TypeOK, files
<1>4. CASE DropEntries(t)
  <2>1. PICK r : /\ r = reqs[t] /\ entries' = OtherEntries(r)
                 /\ Goes(t, [op |-> "unlink", by |-> "delete", folder |-> r.chat, file |-> r.file])
    BY <1>4 DEF DropEntries
  <2>2. [op |-> "unlink", by |-> "delete", folder |-> r.chat, file |-> r.file] \in Work
    BY <1>2, <2>1, FoldersFacts DEF Work, Paths
  <2>3. RequestsTyped'
    BY <2>1, <2>2, WorkTyped DEF Typed
  <2>4. entries' \subseteq Entry
    BY <2>1 DEF OtherEntries, Typed, TypeOK
  <2>5. QED
    BY <1>4, <2>3, <2>4 DEF DropEntries, On, Typed, TypeOK, files
<1>5. QED
  BY <1>3, <1>4

LEMMA TypedUnlink ==
  ASSUME Typed, NEW t \in Handlers, DeleteEntry(t) \/ AskDiscard(t) \/ Unlink(t)
  PROVE  Typed'
<1>1. CASE DeleteEntry(t)
  <2>1. PICK e \in entries : /\ entries' = entries \ {e}
                             /\ Goes(t, [op |-> "unlink", by |-> "entry", folder |-> e.chat, file |-> e.item.file])
    BY <1>1 DEF DeleteEntry
  <2>2. e.chat \in Folders /\ e.item.file \in Paths
    BY FoldersFacts DEF Typed, TypeOK, Entry, Item, Paths
  <2>3. [op |-> "unlink", by |-> "entry", folder |-> e.chat, file |-> e.item.file] \in Work
    BY <2>2 DEF Work
  <2>4. edits' \in 0 .. MaxEdits /\ RequestsTyped'
    BY <1>1, <2>1, <2>3, EditsTyped, WorkTyped DEF DeleteEntry, Typed
  <2>5. entries' \subseteq Entry
    BY <2>1 DEF Typed, TypeOK
  <2>6. QED
    BY <1>1, <2>4, <2>5 DEF DeleteEntry, Typed, TypeOK, files
<1>2. CASE AskDiscard(t)
  <2>1. PICK c, f : /\ c \in live /\ f \in disk[c] /\ waiting' = [waiting EXCEPT ![c] = @ \ {f}]
                             /\ Goes(t, [op |-> "unlink", by |-> "discard", folder |-> c, file |-> f])
    BY <1>2 DEF AskDiscard
  <2>2. c \in Chats /\ c \in Folders /\ f \in Files
    BY <2>1, FoldersFacts DEF live, Typed, TypeOK
  <2>3. [op |-> "unlink", by |-> "discard", folder |-> c, file |-> f] \in Work
    BY <2>2 DEF Work, Paths
  <2>4. edits' \in 0 .. MaxEdits /\ RequestsTyped'
    BY <1>2, <2>1, <2>3, EditsTyped, WorkTyped DEF AskDiscard, Typed
  <2>5. waiting' \in [Chats -> SUBSET Files]
    BY <2>1, <2>2 DEF Typed, TypeOK
  <2>6. QED
    BY <1>2, <2>4, <2>5 DEF AskDiscard, Typed, TypeOK, store, files
<1>3. CASE Unlink(t)
  <2>1. reqs[t] \in Work /\ reqs[t].op = "unlink"
    BY <1>3 DEF Unlink, On, Typed, RequestsTyped
  <2>2. reqs[t].folder \in Folders
    BY <2>1 DEF Work, Clearing, Idle
  <2>3. FilesTyped'
    BY <1>3, <2>2, RemovedTyped DEF Unlink, Typed
  <2>4. RequestsTyped'
    BY <1>3, WorkTyped, IdleIsWork DEF Unlink, Typed
  <2>5. QED
    BY <1>3, <2>3, <2>4 DEF Unlink, On, Typed, TypeOK, FilesTyped, store
<1>4. QED
  BY <1>1, <1>2, <1>3

LEMMA TypedAskClear ==
  ASSUME Typed, NEW t \in Handlers, AskClear(t)
  PROVE  Typed'
<1>1. PICK found, left, gone, todo :
        /\ found = [c \in Chats |-> {i \in UNION {rows[m].items : m \in RowsOf(c)} : Blocked(c, i)}]
        /\ left = {p \in Chats \X Files : \E i \in found[p[1]] : i.file = p[2]}
        /\ gone = {e \in entries : Blocked(e.chat, e.item)}
        /\ todo = {m \in Rows : rows[m] # NoRow /\ rows[m].items \cap found[rows[m].chat] # {}}
        /\ Goes(t, [op |-> "clear", found |-> found, left |-> left, gone |-> gone, todo |-> todo])
  BY Zenon DEF AskClear
<1>2. found \in [Chats -> SUBSET Item]
  <2>1. \A c \in Chats : {i \in UNION {rows[m].items : m \in RowsOf(c)} : Blocked(c, i)} \subseteq Item
    BY RowFields DEF RowsOf, Typed
  <2>2. QED
    BY <1>1, <2>1
<1>3. left \subseteq Chats \X Files /\ gone \subseteq Entry /\ todo \subseteq Rows
  BY <1>1 DEF Typed, TypeOK
<1>4. [op |-> "clear", found |-> found, left |-> left, gone |-> gone, todo |-> todo] \in Work
  BY <1>2, <1>3 DEF Work, Clearing
<1>5. edits' \in 0 .. MaxEdits /\ RequestsTyped'
  BY <1>1, <1>4, EditsTyped, WorkTyped DEF AskClear, Typed
<1>6. QED
  BY <1>5 DEF AskClear, Typed, TypeOK, store, files

\* What a clearing has in hand.
LEMMA InClearing ==
  ASSUME Typed, NEW t \in Handlers, On(t, "clear")
  PROVE  reqs[t] \in Clearing
<1>1. reqs[t] \in Work /\ reqs[t].op = "clear"
  BY DEF On, Typed, RequestsTyped
<1>2. QED
  BY <1>1 DEF Work, Clearing, Idle

\* It is under way still when there is more to do.
LEMMA StillClearing ==
  ASSUME Typed, NEW t \in Handlers, ClearFile(t) \/ ClearEntry(t) \/ ClearRow(t)
  PROVE  reqs'[t].op = "clear"
<1>1. reqs[t] \in Clearing
  BY InClearing DEF ClearFile, ClearEntry, ClearRow
<1>2. \A r : Goes(t, r) => reqs'[t] = r
  BY DEF Goes, Typed, RequestsTyped
<1>3. CASE ClearFile(t)
  <2>1. \E p : reqs'[t] = [reqs[t] EXCEPT !.left = @ \ {p}]
    BY <1>2, <1>3 DEF ClearFile
  <2>2. QED
    BY <1>1, <2>1 DEF Clearing
<1>4. CASE ClearEntry(t)
  <2>1. \E e, left : reqs'[t] = [reqs[t] EXCEPT !.gone = @ \ {e}, !.left = left]
    BY <1>2, <1>4 DEF ClearEntry
  <2>2. QED
    BY <1>1, <2>1 DEF Clearing
<1>5. CASE ClearRow(t)
  <2>1. \E m : reqs'[t] = [reqs[t] EXCEPT !.todo = @ \ {m}]
    BY <1>2, <1>5 DEF ClearRow
  <2>2. QED
    BY <1>1, <2>1 DEF Clearing
<1>6. QED
  BY <1>3, <1>4, <1>5

LEMMA TypedClear ==
  ASSUME Typed, NEW t \in Handlers, ClearFile(t) \/ ClearEntry(t) \/ ClearRow(t) \/ EndClear(t)
  PROVE  Typed'
<1>1. reqs[t] \in Clearing
  BY InClearing DEF ClearFile, ClearEntry, ClearRow, EndClear
<1>2. CASE ClearFile(t)
  <2>1. PICK p \in reqs[t].left : Removed(p[1], {p[2]}) /\ Goes(t, [reqs[t] EXCEPT !.left = @ \ {p}])
    BY <1>2 DEF ClearFile
  <2>2. p[1] \in Folders
    BY <1>1, FoldersFacts DEF Clearing
  <2>3. FilesTyped'
    BY <2>1, <2>2, RemovedTyped DEF Typed
  <2>4. [reqs[t] EXCEPT !.left = @ \ {p}] \in Clearing
    BY <1>1 DEF Clearing
  <2>5. RequestsTyped'
    BY <2>1, <2>4, WorkTyped DEF Typed, Work
  <2>6. QED
    BY <1>2, <2>3, <2>5 DEF ClearFile, On, Typed, TypeOK, FilesTyped, store
<1>3. CASE ClearEntry(t)
  <2>1. PICK e \in reqs[t].gone :
          /\ entries' = entries \ {e}
          /\ Goes(t, [reqs[t] EXCEPT !.gone = @ \ {e}, !.left = {<<e.chat, e.item.file>>} \cap (Chats \X Files)])
    BY <1>3 DEF ClearEntry
  <2>2. PICK left \in SUBSET (Chats \X Files) : left = {<<e.chat, e.item.file>>} \cap (Chats \X Files)
    OBVIOUS
  <2>3. [reqs[t] EXCEPT !.gone = @ \ {e}, !.left = left] \in Clearing
    BY <1>1 DEF Clearing
  <2>4. RequestsTyped'
    BY <2>1, <2>2, <2>3, WorkTyped DEF Typed, Work
  <2>5. QED
    BY <1>3, <2>1, <2>4 DEF ClearEntry, On, Typed, TypeOK, files
<1>4. CASE ClearRow(t)
  <2>1. PICK m \in reqs[t].todo :
          /\ rows' = IF rows[m] = NoRow THEN rows
                     ELSE [rows EXCEPT ![m].items = @ \ reqs[t].found[rows[m].chat]]
          /\ Goes(t, [reqs[t] EXCEPT !.todo = @ \ {m}])
    BY <1>4 DEF ClearRow
  <2>2. m \in Rows
    BY <1>1 DEF Clearing
  <2>3. rows' \in [Rows -> Row \cup {NoRow}]
    <3>1. CASE rows[m] = NoRow
      BY <2>1, <3>1 DEF Typed, TypeOK
    <3>2. CASE rows[m] # NoRow
      <4>1. rows[m].items \ reqs[t].found[rows[m].chat] \in SUBSET Item
        BY <2>2, <3>2, RowFields DEF Typed
      <4>2. rows' = [rows EXCEPT ![m].items = rows[m].items \ reqs[t].found[rows[m].chat]]
        BY <2>1, <2>2, <3>2 DEF Typed, TypeOK
      <4>3. QED
        BY <2>2, <3>2, <4>1, <4>2, NewItems DEF Typed
    <3>3. QED
      BY <3>1, <3>2
  <2>4. [reqs[t] EXCEPT !.todo = @ \ {m}] \in Clearing
    BY <1>1 DEF Clearing
  <2>5. RequestsTyped'
    BY <2>1, <2>4, WorkTyped DEF Typed, Work
  <2>6. QED
    BY <1>4, <2>3, <2>5 DEF ClearRow, On, Typed, TypeOK, files
<1>5. CASE EndClear(t)
  <2>1. RequestsTyped'
    BY <1>5, WorkTyped, IdleIsWork DEF EndClear, Typed
  <2>2. QED
    BY <1>5, <2>1 DEF EndClear, On, Typed, TypeOK, store, files
<1>6. QED
  BY <1>2, <1>3, <1>4, <1>5

-----------------------------------------------------------------------------
(* The list *)

\* What the database has, as the lister reads it.
LEMMA RecordedTyped ==
  ASSUME TypeOK
  PROVE  Recorded("messages") \subseteq Source /\ Recorded("entries") \subseteq Source
<1>1. MaxRow + 1 \in Nat /\ Rows \subseteq Nat
  BY LibraryAssumption DEF Rows
<1>2. ASSUME NEW m \in Rows, rows[m] # NoRow, NEW i \in rows[m].items
      PROVE  [chat |-> rows[m].chat, item |-> i, age |-> m] \in Source
  BY <1>1, <1>2, RowFields DEF Source
<1>3. Recorded("messages") \subseteq Source
  BY <1>2 DEF Recorded
<1>4. \A e \in entries : [chat |-> e.chat, item |-> e.item, age |-> MaxRow + 1] \in Source
  BY <1>1 DEF TypeOK, Entry, Source
<1>5. Recorded("entries") \subseteq Source
  BY <1>4 DEF Recorded
<1>6. QED
  BY <1>3, <1>5

LEMMA Least ==
  ASSUME NEW T, T \subseteq Nat, T # {}
  PROVE  \E x \in T : \A y \in T : x <= y
<1>1. PICK x \in T : \A y \in T : ~ (<<y, x>> \in OpToRel(<, Nat))
  BY NatLessThanWellFounded, WFMin
<1>2. \A y \in T : ~ (y < x)
  BY <1>1 DEF OpToRel
<1>3. QED
  BY <1>2

\* The oldest record of a file that is there, which ChatRecords takes.
LEMMA Oldest ==
  ASSUME NEW there, there \subseteq Source, NEW f, \E r \in there : r.item.file = f
  PROVE  \E r \in there : r.item.file = f /\ \A s \in there : s.item.file = f => r.age <= s.age
<1> DEFINE ages == {r.age : r \in {s \in there : s.item.file = f}}
<1>1. ages \subseteq Nat /\ ages # {}
  BY DEF Source
<1>2. PICK a \in ages : \A b \in ages : a <= b
  BY <1>1, Least
<1>3. QED
  BY <1>2

\* Everything that a scan lists is there.
LEMMA ScanFacts ==
  ASSUME TypeOK, NEW read \in SUBSET Source,
         NEW e \in {[origin |-> "library", folder |-> Shelf, file |-> f] : f \in disk[Shelf]}
                     \cup ChatRecords(read) \cup Orphans(read)
  PROVE  e \in Listed /\ e.file \in disk[e.folder]
<1>1. CASE e \in {[origin |-> "library", folder |-> Shelf, file |-> f] : f \in disk[Shelf]}
  BY <1>1, FoldersFacts DEF TypeOK, Listed
<1>2. CASE e \in ChatRecords(read)
  <2> DEFINE there == {r \in read : r.item.file \in disk[r.chat]}
             best(f) == CHOOSE r \in there : r.item.file = f /\ \A s \in there : s.item.file = f => r.age <= s.age
  <2>1. PICK f \in {r.item.file : r \in there} : e = [origin |-> "chat", folder |-> best(f).chat, file |-> f]
    BY <1>2 DEF ChatRecords
  <2>2. \E r \in there : r.item.file = f /\ \A s \in there : s.item.file = f => r.age <= s.age
    BY Oldest
  <2>3. best(f) \in there /\ best(f).item.file = f
    BY <2>2
  <2>4. best(f).chat \in Chats /\ f \in disk[best(f).chat]
    BY <2>3 DEF Source
  <2>5. best(f).chat \in Folders /\ f \in Files
    BY <2>4, FoldersFacts DEF TypeOK
  <2> HIDE DEF best
  <2>6. QED
    BY <2>1, <2>4, <2>5 DEF Listed
<1>3. CASE e \in Orphans(read)
  <2>1. PICK q \in live \X Files : q[2] \in disk[q[1]] /\ e = [origin |-> "orphan", folder |-> q[1], file |-> q[2]]
    BY <1>3 DEF Orphans
  <2>2. q[1] \in Folders /\ q[2] \in Files
    BY FoldersFacts DEF live
  <2>3. QED
    BY <2>1, <2>2 DEF Listed
<1>4. QED
  BY <1>1, <1>2, <1>3

LEMMA TypedListing ==
  ASSUME Typed, AskList \/ ReadSecond \/ ScanFolders \/ KeepList
  PROVE  Typed'
<1>1. CASE AskList
  <2> DEFINE had == {<<r.chat, r.item>> : r \in Recorded("messages") \cup Recorded("entries")}
  <2>1. Recorded(ReadOrder[1]) \in SUBSET Source
    BY RecordedTyped DEF ReadOrder, Typed
  <2>2. \A r \in Source : <<r.chat, r.item>> \in Chats \X Item
    BY DEF Source
  <2>3. had \in Pairs
    BY <2>2, RecordedTyped DEF Pairs, Typed
  <2>4. Goes(Lister, [op |-> "list", at |-> now, read |-> Recorded(ReadOrder[1]), had |-> had])
    BY <1>1 DEF AskList
  <2> HIDE DEF had
  <2>5. [op |-> "list", at |-> now, read |-> Recorded(ReadOrder[1]), had |-> had] \in Listing
    BY <2>1, <2>3 DEF Listing, Typed, TypeOK
  <2>6. RequestsTyped'
    BY <2>4, <2>5, ListingTyped DEF Typed
  <2>7. QED
    BY <1>1, <2>6 DEF AskList, Typed, TypeOK, store, files
<1>2. CASE ReadSecond
  <2>1. reqs[Lister] \in Listing /\ reqs[Lister].op = "list"
    BY <1>2 DEF ReadSecond, On, Typed, RequestsTyped
  <2>2. reqs[Lister] \in [op: {"list", "scan"}, at: Time, read: SUBSET Source, had: Pairs]
    BY <2>1 DEF Listing, Idle
  <2>3. Recorded(ReadOrder[2]) \in SUBSET Source
    BY RecordedTyped DEF ReadOrder, Typed
  <2>4. [reqs[Lister] EXCEPT !.op = "scan", !.read = @ \cup Recorded(ReadOrder[2])]
          \in [op: {"list", "scan"}, at: Time, read: SUBSET Source, had: Pairs]
    BY <2>2, <2>3
  <2>5. RequestsTyped'
    BY <1>2, <2>4, ListingTyped DEF ReadSecond, Listing, Typed
  <2>6. QED
    BY <1>2, <2>5 DEF ReadSecond, On, Typed, TypeOK, store, files
<1>3. CASE ScanFolders
  <2>1. reqs[Lister] \in Listing /\ reqs[Lister].op = "scan"
    BY <1>3 DEF ScanFolders, On, Typed, RequestsTyped
  <2>2. reqs[Lister] \in [op: {"list", "scan"}, at: Time, read: SUBSET Source, had: Pairs]
    BY <2>1 DEF Listing, Idle
  <2>3. PICK r, items :
          /\ r = reqs[Lister]
          /\ items = {[origin |-> "library", folder |-> Shelf, file |-> f] : f \in disk[Shelf]}
                       \cup ChatRecords(r.read) \cup Orphans(r.read)
          /\ Goes(Lister, [op |-> "keep", at |-> r.at, had |-> r.had, items |-> items])
    BY <1>3 DEF ScanFolders
  <2>4. items \in SUBSET Listed
    BY <2>2, <2>3, ScanFacts DEF Typed
  <2>5. [op |-> "keep", at |-> r.at, had |-> r.had, items |-> items] \in Listing
    BY <2>2, <2>3, <2>4 DEF Listing
  <2>6. RequestsTyped'
    BY <2>3, <2>5, ListingTyped DEF Typed
  <2>7. QED
    BY <1>3, <2>6 DEF ScanFolders, On, Typed, TypeOK, store, files
<1>4. CASE KeepList
  <2>1. reqs[Lister] \in Listing /\ reqs[Lister].op = "keep"
    BY <1>4 DEF KeepList, On, Typed, RequestsTyped
  <2>2. reqs[Lister].at \in Time /\ reqs[Lister].items \in SUBSET Listed
    BY <2>1 DEF Listing, Idle
  <2>3. kept' \in [at: Time, items: SUBSET Listed]
    BY <1>4, <2>2 DEF KeepList, Stamp
  <2>4. RequestsTyped'
    BY <1>4, IdleIsWork, ListingTyped DEF KeepList, Typed
  <2>5. QED
    BY <1>4, <2>3, <2>4 DEF KeepList, On, Typed, TypeOK, store, files
<1>5. QED
  BY <1>1, <1>2, <1>3, <1>4

LEMMA InitTyped == Init => Typed
<1>1. SUFFICES ASSUME Init PROVE Typed
  OBVIOUS
<1>2. 0 \in Time /\ 0 \in 0 .. MaxEdits
  BY LibraryAssumption DEF Time
<1>3. TypeOK
  BY <1>1, <1>2 DEF Init, TypeOK
<1>4. RequestsTyped
  BY <1>1, IdleIsWork DEF Init, RequestsTyped
<1>5. QED
  BY <1>3, <1>4 DEF Typed

LEMMA NextTyped == Typed /\ [Next]_vars => Typed'
<1>1. SUFFICES ASSUME Typed, [Next]_vars PROVE Typed'
  OBVIOUS
<1>2. ASSUME NEW t \in Handlers, Step(t)
      PROVE  Typed'
  BY <1>1, <1>2, TypedChats, TypedSend, TypedGenerate, TypedDeleteExchange, TypedFork, TypedDeleteChat, TypedShelf,
     TypedRewrite, TypedUnlink, TypedAskClear, TypedClear DEF Step
<1>3. CASE AskList \/ ReadSecond \/ ScanFolders \/ KeepList
  BY <1>1, <1>3, TypedListing
<1>4. CASE Tick
  <2>1. now' \in Time
    BY <1>1, <1>4, LibraryAssumption DEF Tick, Typed, TypeOK, Time
  <2>2. QED
    BY <1>1, <1>4, <2>1, SameRequests DEF Tick, Typed, TypeOK, store, files
<1>5. CASE UNCHANGED vars
  BY <1>1, <1>5, SameRequests DEF vars, Typed, TypeOK, store, files
<1>6. QED
  BY <1>1, <1>2, <1>3, <1>4, <1>5 DEF Next

\* The tables, the folders and the kept list have a valid shape whatever the
\* handlers do in between each other's calls; what is under way has one too.
THEOREM LibraryTypeCorrect == Spec => []TypeOK
<1>1. Spec => []Typed
  BY InitTyped, NextTyped, PTL DEF Spec
<1>2. Typed => TypeOK
  BY DEF Typed
<1>3. QED
  BY <1>1, <1>2, PTL

-----------------------------------------------------------------------------
(* How old what is listed may be *)

\* What was seen at a time, is there or went no earlier.
Seen(items, at) == \A e \in items : e.file \in disk[e.folder] \/ at <= since[e.folder][e.file]

ListAges ==
  /\ kept # NoList => kept.at <= now /\ Seen(kept.items, kept.at)
  /\ reqs[Lister] # Idle => reqs[Lister].at <= now
  /\ reqs[Lister].op = "keep" => Seen(reqs[Lister].items, reqs[Lister].at)

\* The invariant of the list.
ListInv == Typed /\ ListAges

\* What a change of the folders does to the times of what is not there after it:
\* what goes has the time it went, what was not there keeps its time.
Ages ==
  \A d \in Folders : \A f \in Files :
    f \notin disk'[d] => since'[d][f] = IF f \in disk[d] THEN now ELSE since[d][f]

LEMMA FilesAges ==
  ASSUME TypeOK
  PROVE  /\ UNCHANGED files => Ages
         /\ \A d \in Folders : \A f \in Files : Written(d, f) => Ages
         /\ \A d \in Folders : \A f \in Files : Stored(d, f) => Ages
         /\ \A d \in Folders : \A fs : Removed(d, fs) => Ages
<1>1. UNCHANGED files => Ages
  BY DEF files, Ages
<1>2. ASSUME NEW d \in Folders, NEW f \in Files, Written(d, f)
      PROVE  Ages
  BY <1>2 DEF Written, Ages, TypeOK
<1>3. ASSUME NEW d \in Folders, NEW fs, Removed(d, fs)
      PROVE  Ages
  <2> DEFINE gone == [f \in Files |-> IF f \in fs \cap disk[d] THEN now ELSE since[d][f]]
  <2>1. disk' = [disk EXCEPT ![d] = disk[d] \ fs] /\ since' = [since EXCEPT ![d] = gone]
    BY <1>3 DEF Removed, TypeOK
  <2>2. \A f \in Files : gone[f] = IF f \in fs \cap disk[d] THEN now ELSE since[d][f]
    OBVIOUS
  <2> HIDE DEF gone
  <2>3. QED
    BY <2>1, <2>2 DEF Ages, TypeOK
<1>4. QED
  BY <1>1, <1>2, <1>3 DEF Stored

LEMMA LinkAges ==
  ASSUME Typed, NEW t \in Handlers, LinkFiles(t)
  PROVE  Ages
<1>1. reqs[t] \in Work /\ reqs[t].op = "link"
  BY DEF LinkFiles, On, Typed, RequestsTyped
<1>2. reqs[t].chat \in Chats /\ reqs[t].new \in Chats
  BY <1>1 DEF Work, Clearing, Idle
<1>3. PICK r, fs :
        /\ r = reqs[t] /\ fs \subseteq disk[r.chat]
        /\ disk' = [disk EXCEPT ![r.new] = @ \cup fs]
        /\ since' = [since EXCEPT ![r.new] = [f \in Files |-> IF f \in fs THEN since[r.chat][f] ELSE @[f]]]
        /\ Goes(t, [op |-> "branch", new |-> r.new, items |-> r.items])
  BY DEF LinkFiles
<1> DEFINE linked == [f \in Files |-> IF f \in fs THEN since[r.chat][f] ELSE since[r.new][f]]
<1>4. r.new \in Folders /\ since' = [since EXCEPT ![r.new] = linked] /\ disk' = [disk EXCEPT ![r.new] = disk[r.new] \cup fs]
  BY <1>2, <1>3, FoldersFacts DEF Typed, TypeOK
<1>5. \A f \in Files : f \notin fs => linked[f] = since[r.new][f]
  OBVIOUS
<1> HIDE DEF linked
<1>6. QED
  BY <1>4, <1>5 DEF Ages, Typed, TypeOK

\* A handler drops the kept list or leaves it, and the lister and the clock alone.
LEMMA HandlerStep ==
  ASSUME Typed, NEW t \in Handlers, Step(t)
  PROVE  Ages /\ kept' \in {kept, NoList} /\ now' = now /\ reqs'[Lister] = reqs[Lister]
<1>1. t # Lister /\ \A r : Goes(t, r) => reqs'[Lister] = reqs[Lister]
  BY LibraryAssumption DEF Goes, Typed, RequestsTyped
<1>2. \A c \in Chats : c \in Folders
  BY FoldersFacts
<1>3. CASE NewChat(t) \/ DeleteExchange(t)
  BY <1>3, FilesAges DEF NewChat, DeleteExchange, AtOnce, Typed
<1>4. CASE AttachFile(t)
  <2>1. PICK c, f : c \in live /\ f \in Picked(c) /\ Stored(c, f)
    BY <1>4 DEF AttachFile
  <2>2. c \in Folders /\ f \in Files
    BY <2>1, <1>2 DEF live, Picked, Files, Typed, TypeOK
  <2>3. QED
    BY <1>4, <2>1, <2>2, FilesAges DEF AttachFile, AtOnce, Typed
<1>5. CASE ImportFile(t)
  <2>1. PICK c, d, f, u : c \in live /\ d \in Folders /\ f \in disk[d] /\ u = (IF f \in Made THEN CopyOf[f] ELSE f) /\ Stored(c, u)
    BY <1>5 DEF ImportFile
  <2>2. c \in Folders /\ u \in Files
    BY <2>1, <1>2, LibraryAssumption DEF live, Files, Typed, TypeOK
  <2>3. QED
    BY <1>5, <2>1, <2>2, FilesAges DEF ImportFile, AtOnce, Typed
<1>6. CASE AskSend(t) \/ Send(t) \/ RecordMade(t) \/ AskFork(t) \/ AddBranch(t) \/ AskDeleteChat(t)
  <2>1. UNCHANGED files /\ kept' = kept /\ now' = now
    BY <1>6 DEF AskSend, Send, RecordMade, AskFork, AddBranch, AskDeleteChat
  <2>2. \E r : Goes(t, r)
    BY <1>6 DEF AskSend, Send, RecordMade, AskFork, AddBranch, AskDeleteChat
  <2>3. QED
    BY <1>1, <2>1, <2>2, FilesAges DEF Typed
<1>7. CASE AskDelete(t) \/ Rewrite(t) \/ DropEntries(t) \/ DeleteEntry(t) \/ AskDiscard(t)
           \/ AskClear(t) \/ ClearEntry(t) \/ ClearRow(t)
  <2>1. UNCHANGED files /\ kept' = kept /\ now' = now
    BY <1>7 DEF AskDelete, Rewrite, DropEntries, DeleteEntry, AskDiscard, AskClear, ClearEntry, ClearRow
  <2>2. \E r : Goes(t, r)
    BY <1>7 DEF AskDelete, Rewrite, DropEntries, DeleteEntry, AskDiscard, AskClear, ClearEntry, ClearRow
  <2>3. QED
    BY <1>1, <2>1, <2>2, FilesAges DEF Typed
<1>8. CASE Generate(t)
  <2>1. kept' = kept /\ now' = now
    BY <1>8 DEF Generate
  <2>2. \/ \E c \in live, g \in Made : Written(c, g) /\ \E r : Goes(t, r)
        \/ UNCHANGED <<files, reqs>>
    BY <1>8 DEF Generate
  <2>3. QED
    BY <1>1, <1>2, <2>1, <2>2, FilesAges DEF Typed, live, Files
<1>9. CASE LinkFiles(t)
  <2>1. \E r : Goes(t, r)
    BY <1>9 DEF LinkFiles
  <2>2. QED
    BY <1>1, <1>9, <2>1, LinkAges DEF LinkFiles
<1>10. CASE TrashFolder(t)
  <2>1. reqs[t] \in Work /\ reqs[t].op = "trash"
    BY <1>10 DEF TrashFolder, On, Typed, RequestsTyped
  <2>2. reqs[t].chat \in Folders
    BY <2>1, FoldersFacts DEF Work, Clearing, Idle
  <2>3. QED
    BY <1>1, <1>10, <2>2, FilesAges DEF TrashFolder, Typed
<1>11. CASE UploadToShelf(t)
  BY <1>11, FilesAges, FoldersFacts DEF UploadToShelf, AtOnce, Typed, Files
<1>12. CASE Unlink(t)
  <2>1. reqs[t] \in Work /\ reqs[t].op = "unlink"
    BY <1>12 DEF Unlink, On, Typed, RequestsTyped
  <2>2. reqs[t].folder \in Folders
    BY <2>1 DEF Work, Clearing, Idle
  <2>3. QED
    BY <1>1, <1>12, <2>2, FilesAges DEF Unlink, Typed
<1>13. CASE ClearFile(t)
  <2>1. PICK p \in reqs[t].left : Removed(p[1], {p[2]}) /\ \E r : Goes(t, r)
    BY <1>13 DEF ClearFile
  <2>2. p[1] \in Folders
    BY <1>13, InClearing, FoldersFacts DEF ClearFile, Clearing
  <2>3. QED
    BY <1>1, <1>13, <2>1, <2>2, FilesAges DEF ClearFile, Typed
<1>14. CASE EndClear(t)
  BY <1>1, <1>14, FilesAges DEF EndClear, Typed
<1>15. QED
  BY <1>3, <1>4, <1>5, <1>6, <1>7, <1>8, <1>9, <1>10, <1>11, <1>12, <1>13, <1>14 DEF Step

LEMMA SeenStays ==
  ASSUME TypeOK, Ages, NEW items \in SUBSET Listed, NEW at \in Time, at <= now, Seen(items, at)
  PROVE  Seen(items, at)'
<1>1. now \in Nat /\ \A d \in Folders : \A f \in Files : since[d][f] \in Nat
  BY LibraryAssumption DEF TypeOK, Time
<1>2. \A e \in items : e.folder \in Folders /\ e.file \in Files
  BY DEF Listed
<1>3. QED
  BY <1>1, <1>2, LibraryAssumption DEF Seen, Ages, Time

LEMMA ListerTyped ==
  ASSUME Typed, reqs[Lister] # Idle
  PROVE  /\ reqs[Lister].at \in Time
         /\ reqs[Lister].op = "keep" => reqs[Lister].items \in SUBSET Listed
         /\ reqs[Lister].op \in {"list", "scan"} => reqs[Lister].read \in SUBSET Source
BY DEF Typed, RequestsTyped, Listing

\* A step that leaves the list and the lister alone.
LEMMA AgesKept ==
  ASSUME ListInv, Typed', Ages, now' \in Nat, now <= now', kept' \in {kept, NoList}, reqs'[Lister] = reqs[Lister]
  PROVE  ListInv'
<1>1. now \in Nat /\ Time \subseteq Nat
  BY LibraryAssumption DEF ListInv, Typed, TypeOK, Time
<1>2. ASSUME kept' # NoList
      PROVE  (kept.at <= now /\ Seen(kept.items, kept.at))'
  <2>1. kept' = kept /\ kept \in [at: Time, items: SUBSET Listed]
    BY <1>2 DEF ListInv, Typed, TypeOK
  <2>2. kept.at <= now /\ Seen(kept.items, kept.at)
    BY <1>2, <2>1 DEF ListInv, ListAges
  <2>3. PICK items \in SUBSET Listed, at \in Time : items = kept.items /\ at = kept.at
    BY <2>1
  <2>4. Seen(items, at)'
    BY <2>2, <2>3, SeenStays DEF ListInv, Typed
  <2>5. at <= now'
    BY <1>1, <2>2, <2>3
  <2>6. QED
    BY <2>1, <2>3, <2>4, <2>5 DEF Seen
<1>3. ASSUME reqs[Lister] # Idle
      PROVE  reqs[Lister].at <= now' /\ (reqs[Lister].op = "keep" => Seen(reqs[Lister].items, reqs[Lister].at)')
  <2>1. reqs[Lister].at \in Time /\ reqs[Lister].at <= now
    BY <1>3, ListerTyped DEF ListInv, ListAges
  <2>2. reqs[Lister].at <= now'
    <3>1. reqs[Lister].at \in Nat
      BY <2>1, LibraryAssumption DEF Time
    <3>2. QED
      BY <1>1, <2>1, <3>1
  <2>3. ASSUME reqs[Lister].op = "keep"
        PROVE  Seen(reqs[Lister].items, reqs[Lister].at)'
    <3>1. PICK items \in SUBSET Listed, at \in Time : items = reqs[Lister].items /\ at = reqs[Lister].at
      BY <1>3, <2>3, ListerTyped DEF ListInv
    <3>2. Seen(items, at) /\ at <= now
      BY <2>1, <2>3, <3>1 DEF ListInv, ListAges
    <3>3. Seen(items, at)'
      BY <3>2, SeenStays DEF ListInv, Typed
    <3>4. QED
      BY <3>1, <3>3 DEF Seen
  <2>4. QED
    BY <2>2, <2>3
<1>4. Idle.op # "keep"
  BY DEF Idle
<1>5. QED
  BY <1>2, <1>3, <1>4 DEF ListInv, ListAges, Seen

LEMMA ListerStep ==
  ASSUME ListInv, Typed', AskList \/ ReadSecond \/ ScanFolders \/ KeepList
  PROVE  ListInv'
<1>1. UNCHANGED <<files, now>> /\ now \in Nat /\ Time \subseteq Nat
  BY LibraryAssumption DEF AskList, ReadSecond, ScanFolders, KeepList, ListInv, Typed, TypeOK, Time
<1>2. DOMAIN reqs = Handlers \cup {Lister} /\ \A r : Goes(Lister, r) => reqs'[Lister] = r
  BY DEF Goes, ListInv, Typed, RequestsTyped
<1>3. kept' # NoList /\ kept' = kept => (kept.at <= now /\ Seen(kept.items, kept.at))'
  BY <1>1 DEF ListInv, ListAges, Seen, files
<1>4. CASE AskList
  <2>1. kept' = kept /\ reqs'[Lister].op = "list" /\ reqs'[Lister].at = now
    BY <1>2, <1>4 DEF AskList
  <2>2. QED
    BY <1>1, <1>3, <2>1 DEF ListInv, ListAges
<1>5. CASE ReadSecond
  <2>1. kept' = kept /\ reqs[Lister].op = "list"
    BY <1>5 DEF ReadSecond, On
  <2>2. reqs[Lister] # Idle
    BY <2>1 DEF Idle
  <2>3. reqs'[Lister].op = "scan" /\ reqs'[Lister].at = reqs[Lister].at
    BY <1>2, <1>5, <2>1, <2>2 DEF ReadSecond, ListInv, Typed, RequestsTyped, Listing
  <2>4. QED
    BY <1>1, <1>3, <2>1, <2>2, <2>3 DEF ListInv, ListAges
<1>6. CASE ScanFolders
  <2>1. kept' = kept /\ reqs[Lister].op = "scan"
    BY <1>6 DEF ScanFolders, On
  <2>2. reqs[Lister] # Idle /\ reqs[Lister].read \in SUBSET Source
    BY <2>1, ListerTyped DEF Idle, ListInv
  <2>3. PICK items :
          /\ items = {[origin |-> "library", folder |-> Shelf, file |-> f] : f \in disk[Shelf]}
                       \cup ChatRecords(reqs[Lister].read) \cup Orphans(reqs[Lister].read)
          /\ Goes(Lister, [op |-> "keep", at |-> reqs[Lister].at, had |-> reqs[Lister].had, items |-> items])
    BY <1>6 DEF ScanFolders
  <2>4. \A e \in items : e.file \in disk[e.folder]
    BY <2>2, <2>3, ScanFacts DEF ListInv, Typed
  <2>5. reqs'[Lister].at = reqs[Lister].at /\ reqs'[Lister].items = items
    BY <1>2, <2>3
  <2>6. Seen(items, reqs[Lister].at)'
    BY <1>1, <2>4 DEF Seen, files
  <2>7. Seen(reqs[Lister].items, reqs[Lister].at)'
    BY <2>5, <2>6 DEF Seen
  <2>8. QED
    BY <1>1, <1>3, <2>1, <2>2, <2>5, <2>7 DEF ListInv, ListAges
<1>7. CASE KeepList
  <2>1. reqs[Lister].op = "keep" /\ kept' = [at |-> reqs[Lister].at, items |-> reqs[Lister].items] /\ reqs'[Lister] = Idle
    BY <1>2, <1>7 DEF KeepList, On, Stamp
  <2>2. reqs[Lister] # Idle
    BY <2>1 DEF Idle
  <2>3. kept'.at <= now /\ Seen(kept'.items, kept'.at)
    BY <2>1, <2>2 DEF ListInv, ListAges
  <2>4. (kept.at <= now /\ Seen(kept.items, kept.at))'
    BY <1>1, <2>3 DEF Seen, files
  <2>5. QED
    BY <2>1, <2>4 DEF ListInv, ListAges, Idle
<1>8. QED
  BY <1>4, <1>5, <1>6, <1>7

LEMMA InitListed == Init => ListInv
<1>1. Init => kept = NoList /\ reqs[Lister] = Idle
  BY DEF Init
<1>2. QED
  BY <1>1, InitTyped DEF ListInv, ListAges, Idle

LEMMA NextListed == ListInv /\ [Next]_vars => ListInv'
<1>1. SUFFICES ASSUME ListInv, [Next]_vars PROVE ListInv'
  OBVIOUS
<1>2. Typed' /\ now \in Nat
  BY <1>1, NextTyped, LibraryAssumption DEF ListInv, Typed, TypeOK, Time
<1>3. ASSUME NEW t \in Handlers, Step(t)
      PROVE  ListInv'
  BY <1>1, <1>2, <1>3, HandlerStep, AgesKept DEF ListInv
<1>4. CASE AskList \/ ReadSecond \/ ScanFolders \/ KeepList
  BY <1>1, <1>2, <1>4, ListerStep
<1>5. CASE Tick \/ UNCHANGED vars
  <2>1. UNCHANGED <<files, kept, reqs>> /\ now' \in {now, now + 1}
    BY <1>5 DEF Tick, vars
  <2>2. Ages
    BY <1>1, <2>1, FilesAges DEF ListInv, Typed
  <2>3. QED
    BY <1>1, <1>2, <2>1, <2>2, AgesKept
<1>6. QED
  BY <1>1, <1>3, <1>4, <1>5 DEF Next

\* Whatever is removed while a list is built or served, by however many requests,
\* nothing is shown longer than LIST_TTL after it went: the list's age is that of
\* its first read (_all_items, media.py:319-328).
THEOREM StaleBounded == Spec => []StaleAtMostTTL
<1>1. Spec => []ListInv
  BY InitListed, NextListed, PTL DEF Spec
<1>2. ListInv => StaleAtMostTTL
  <2>1. SUFFICES ASSUME ListInv, Fresh, NEW e \in kept.items, e.file \notin disk[e.folder]
                 PROVE  now <= since[e.folder][e.file] + LIST_TTL
    BY DEF StaleAtMostTTL
  <2>2. kept \in [at: Time, items: SUBSET Listed] /\ now - kept.at <= LIST_TTL
    BY <2>1 DEF Fresh, ListInv, Typed, TypeOK
  <2>3. kept.at <= since[e.folder][e.file]
    BY <2>1, <2>2 DEF Fresh, ListInv, ListAges, Seen
  <2>4. e.folder \in Folders /\ e.file \in Files
    BY <2>2 DEF Listed
  <2>5. since[e.folder][e.file] \in Nat /\ now \in Nat /\ kept.at \in Nat
    BY <2>1, <2>2, <2>4, LibraryAssumption DEF ListInv, Typed, TypeOK, Time
  <2>6. QED
    BY <2>2, <2>3, <2>5, LibraryAssumption
<1>3. QED
  BY <1>1, <1>2, PTL

-----------------------------------------------------------------------------
(* One request at a time *)

Alone == \A t, u \in Handlers : reqs[t] # Idle /\ reqs[u] # Idle => t = u

\* What is to be written has all that its row has, but the file's items.
AsRead ==
  \A t \in Handlers : reqs[t].op = "rewrite" =>
    \A w \in reqs[t].todo :
      /\ rows[w.row] # NoRow =>
           \A i \in rows[w.row].items : i.file # reqs[t].file => i \in w.items
      /\ \A v \in reqs[t].todo : v.row = w.row => v = w

\* The invariant of the messages' rows.
RowsInv == Typed /\ Alone /\ AsRead

\* The next key is free.
LEMMA NextRowFree ==
  ASSUME NextRow \in Rows
  PROVE  rows[NextRow] = NoRow
<1> DEFINE frees == {n \in 1 .. MaxRow + 1 : \A m \in n .. MaxRow : rows[m] = NoRow}
<1>1. MaxRow \in Nat
  BY LibraryAssumption
<1>2. frees \subseteq Nat /\ MaxRow + 1 \in frees
  BY <1>1
<1>3. PICK n \in frees : \A k \in frees : n <= k
  BY <1>2, Least
<1>4. n = 1 \/ rows[n - 1] # NoRow
  <2>1. SUFFICES ASSUME n # 1, rows[n - 1] = NoRow PROVE n - 1 \in frees
    BY <1>1, <1>3
  <2>2. n - 1 \in 1 .. MaxRow + 1 /\ \A m \in n - 1 .. MaxRow : m = n - 1 \/ m \in n .. MaxRow
    BY <1>1, <2>1
  <2>3. QED
    BY <1>3, <2>1, <2>2
<1>5. \E k \in 1 .. MaxRow + 1 : (k = 1 \/ rows[k - 1] # NoRow) /\ \A m \in k .. MaxRow : rows[m] = NoRow
  BY <1>3, <1>4
<1>6. NextRow \in 1 .. MaxRow + 1 /\ \A m \in NextRow .. MaxRow : rows[m] = NoRow
  BY <1>5 DEF NextRow
<1>7. NextRow \in NextRow .. MaxRow
  BY <1>1, <1>6 DEF Rows
<1>8. QED
  BY <1>6, <1>7

\* What a step does to the requests: its own is new or at work, the rest do nothing.
LEMMA OthersIdle ==
  ASSUME Serial, RowsInv, NEW t \in Handlers, Step(t)
  PROVE  \A u \in Handlers : u # t => reqs[u] = Idle /\ reqs'[u] = Idle
<1>1. Starts(t) \/ reqs[t] # Idle
  <2>1. CASE \/ NewChat(t) \/ AttachFile(t) \/ ImportFile(t) \/ AskSend(t) \/ Generate(t) \/ DeleteExchange(t) \/ AskFork(t)
             \/ AskDeleteChat(t) \/ UploadToShelf(t) \/ AskDelete(t) \/ DeleteEntry(t) \/ AskDiscard(t) \/ AskClear(t)
    BY <2>1 DEF NewChat, AttachFile, ImportFile, AskSend, Generate, DeleteExchange, AskFork, AskDeleteChat,
                UploadToShelf, AskDelete, DeleteEntry, AskDiscard, AskClear, AtOnce
  <2>2. CASE \/ Send(t) \/ RecordMade(t) \/ LinkFiles(t) \/ AddBranch(t) \/ TrashFolder(t) \/ Rewrite(t) \/ DropEntries(t)
             \/ Unlink(t) \/ ClearFile(t) \/ ClearEntry(t) \/ ClearRow(t) \/ EndClear(t)
    <3>1. reqs[t].op \in {"send", "made", "link", "branch", "trash", "rewrite", "unlink", "clear"}
      BY <2>2 DEF Send, RecordMade, LinkFiles, AddBranch, TrashFolder, Rewrite, DropEntries, Unlink, ClearFile,
                  ClearEntry, ClearRow, EndClear, On
    <3>2. QED
      BY <3>1 DEF Idle
  <2>3. QED
    BY <2>1, <2>2 DEF Step
<1>2. \A u \in Handlers : u # t => reqs[u] = Idle
  BY <1>1 DEF Starts, RowsInv, Alone
<1>3. UNCHANGED reqs \/ \E r : Goes(t, r)
  BY DEF Step, NewChat, AttachFile, ImportFile, AskSend, Send, Generate, RecordMade, DeleteExchange, AskFork, LinkFiles,
         AddBranch, AskDeleteChat, TrashFolder, UploadToShelf, AskDelete, Rewrite, DropEntries, DeleteEntry,
         AskDiscard, Unlink, AskClear, ClearFile, ClearEntry, ClearRow, EndClear, AtOnce
<1>4. \A u \in Handlers : u # t => reqs'[u] = reqs[u]
  BY <1>3 DEF Goes, RowsInv, Typed, RequestsTyped
<1>5. QED
  BY <1>2, <1>4

\* What a step that neither deletes nor discards leaves in hand.
LEMMA OtherWork ==
  ASSUME RowsInv, NEW t \in Handlers, Step(t),
         ~ AskDelete(t), ~ Rewrite(t), ~ DropEntries(t), ~ DeleteEntry(t), ~ AskDiscard(t)
  PROVE  reqs'[t].op # "rewrite" /\ reqs'[t].op # "unlink"
<1>1. CASE NewChat(t) \/ AttachFile(t) \/ ImportFile(t) \/ DeleteExchange(t) \/ UploadToShelf(t)
  <2>1. AtOnce(t)
    BY <1>1 DEF NewChat, AttachFile, ImportFile, DeleteExchange, UploadToShelf
  <2>2. QED
    BY <2>1 DEF AtOnce, Starts, Idle
<1>2. \A r : Goes(t, r) => reqs'[t] = r
  BY DEF Goes, RowsInv, Typed, RequestsTyped
<1>3. CASE Send(t) \/ RecordMade(t) \/ AddBranch(t) \/ TrashFolder(t) \/ Unlink(t) \/ EndClear(t)
  <2>1. Goes(t, Idle)
    BY <1>3 DEF Send, RecordMade, AddBranch, TrashFolder, Unlink, EndClear
  <2>2. QED
    BY <1>2, <2>1 DEF Idle
<1>4. CASE AskSend(t) \/ AskFork(t) \/ LinkFiles(t) \/ AskDeleteChat(t)
  <2>1. \/ \E c, fs : Goes(t, [op |-> "send", chat |-> c, files |-> fs])
        \/ \E c, d, is : Goes(t, [op |-> "link", chat |-> c, new |-> d, items |-> is])
        \/ \E d, is : Goes(t, [op |-> "branch", new |-> d, items |-> is])
        \/ \E c : Goes(t, [op |-> "trash", chat |-> c])
    BY <1>4 DEF AskSend, AskFork, LinkFiles, AskDeleteChat
  <2>2. \/ \E c, fs : reqs'[t] = [op |-> "send", chat |-> c, files |-> fs]
        \/ \E c, d, is : reqs'[t] = [op |-> "link", chat |-> c, new |-> d, items |-> is]
        \/ \E d, is : reqs'[t] = [op |-> "branch", new |-> d, items |-> is]
        \/ \E c : reqs'[t] = [op |-> "trash", chat |-> c]
    BY <1>2, <2>1, Zenon
  <2>3. /\ \A c, fs : reqs'[t] = [op |-> "send", chat |-> c, files |-> fs] => reqs'[t].op = "send"
        /\ \A c, d, is : reqs'[t] = [op |-> "link", chat |-> c, new |-> d, items |-> is] => reqs'[t].op = "link"
        /\ \A d, is : reqs'[t] = [op |-> "branch", new |-> d, items |-> is] => reqs'[t].op = "branch"
        /\ \A c : reqs'[t] = [op |-> "trash", chat |-> c] => reqs'[t].op = "trash"
    OBVIOUS
  <2>4. reqs'[t].op = "send" \/ reqs'[t].op = "link" \/ reqs'[t].op = "branch" \/ reqs'[t].op = "trash"
    BY <2>2, <2>3, Zenon
  <2>5. QED
    BY <2>4
<1>5. CASE AskClear(t)
  <2>1. \E found, left, gone, todo :
          Goes(t, [op |-> "clear", found |-> found, left |-> left, gone |-> gone, todo |-> todo])
    BY <1>5 DEF AskClear
  <2>2. QED
    BY <1>2, <2>1
<1>6. CASE Generate(t)
  <2>1. Starts(t)
    BY <1>6 DEF Generate
  <2>2. (\E m, i : Goes(t, [op |-> "made", row |-> m, item |-> i])) \/ UNCHANGED reqs
    BY <1>6 DEF Generate
  <2>3. (\E m, i : reqs'[t] = [op |-> "made", row |-> m, item |-> i]) \/ reqs'[t] = Idle
    BY <1>2, <2>1, <2>2, Zenon DEF Starts
  <2>4. \A m, i : reqs'[t] = [op |-> "made", row |-> m, item |-> i] => reqs'[t].op = "made"
    OBVIOUS
  <2>5. Idle.op = "idle"
    BY DEF Idle
  <2>6. reqs'[t].op = "made" \/ reqs'[t].op = "idle"
    BY <2>3, <2>4, <2>5, Zenon
  <2>7. QED
    BY <2>6
<1>7. CASE ClearFile(t) \/ ClearEntry(t) \/ ClearRow(t)
  <2>1. reqs'[t].op = "clear"
    BY <1>2, <1>7, StillClearing DEF RowsInv
  <2>2. QED
    BY <2>1
<1>8. QED
  BY <1>1, <1>3, <1>4, <1>5, <1>6, <1>7 DEF Step

\* What a file is removed for.
LEMMA UnlinksBy ==
  ASSUME RowsInv, NEW t \in Handlers
  PROVE  /\ DropEntries(t) => reqs'[t].op = "unlink" /\ reqs'[t].by = "delete"
         /\ DeleteEntry(t) => reqs'[t].op = "unlink" /\ reqs'[t].by = "entry"
         /\ AskDiscard(t) => reqs'[t].op = "unlink" /\ reqs'[t].by = "discard"
<1>1. \A r : Goes(t, r) => reqs'[t] = r
  BY DEF Goes, RowsInv, Typed, RequestsTyped
<1>2. \A by : (\E d, f : Goes(t, [op |-> "unlink", by |-> by, folder |-> d, file |-> f]))
                => reqs'[t].op = "unlink" /\ reqs'[t].by = by
  BY <1>1
<1>3. DropEntries(t) => \E d, f : Goes(t, [op |-> "unlink", by |-> "delete", folder |-> d, file |-> f])
  BY DEF DropEntries
<1>4. DeleteEntry(t) => \E d, f : Goes(t, [op |-> "unlink", by |-> "entry", folder |-> d, file |-> f])
  BY DEF DeleteEntry
<1>5. AskDiscard(t) => \E d, f : Goes(t, [op |-> "unlink", by |-> "discard", folder |-> d, file |-> f])
  BY DEF AskDiscard
<1>6. QED
  BY <1>2, <1>3, <1>4, <1>5

LEMMA AsReadKept ==
  ASSUME Serial, RowsInv, NEW t \in Handlers, Step(t)
  PROVE  Alone' /\ AsRead'
<1>1. \A u \in Handlers : u # t => reqs[u] = Idle /\ reqs'[u] = Idle
  BY OthersIdle
<1>2. Alone'
  BY <1>1 DEF Alone
<1>3. \A r : Goes(t, r) => reqs'[t] = r
  BY DEF Goes, RowsInv, Typed, RequestsTyped
<1>4. CASE AskDelete(t)
  <2>1. PICK d, f : /\ d \in Folders /\ f \in disk[d] /\ UNCHANGED rows
                   /\ Goes(t, IF d = Shelf THEN [op |-> "unlink", by |-> "delete", folder |-> d, file |-> f]
                                           ELSE [op |-> "rewrite", chat |-> d, file |-> f, todo |-> Rewrites(d, f)])
    BY <1>4 DEF AskDelete, store
  <2>2. \A w \in Rewrites(d, f) : w.items = {i \in rows[w.row].items : i.file # f}
    BY DEF Rewrites
  <2>3. \A w, v \in Rewrites(d, f) : v.row = w.row => v = w
    BY DEF Rewrites
  <2>4. reqs'[t].op = "rewrite" => reqs'[t].todo = Rewrites(d, f) /\ reqs'[t].file = f
    BY <1>3, <2>1
  <2>5. QED
    BY <1>1, <1>2, <2>1, <2>2, <2>3, <2>4 DEF AsRead, Idle
<1>5. CASE Rewrite(t)
  <2>1. reqs[t] \in Work /\ reqs[t].op = "rewrite"
    BY <1>5 DEF Rewrite, On, RowsInv, Typed, RequestsTyped
  <2>2. reqs[t] \in [op: {"rewrite"}, chat: Chats, file: Files, todo: SUBSET Todo]
    BY <2>1 DEF Work, Clearing, Idle
  <2>3. PICK w \in reqs[t].todo :
          /\ rows' = IF rows[w.row] = NoRow THEN rows ELSE [rows EXCEPT ![w.row].items = w.items]
          /\ Goes(t, [reqs[t] EXCEPT !.todo = @ \ {w}])
    BY <1>5 DEF Rewrite
  <2>4. reqs'[t].todo = reqs[t].todo \ {w} /\ reqs'[t].file = reqs[t].file
    BY <1>3, <2>2, <2>3
  <2>5. ASSUME NEW v \in reqs[t].todo, v # w
        PROVE  rows'[v.row] = rows[v.row]
    <3>1. v.row # w.row
      BY <2>1, <2>5 DEF RowsInv, AsRead
    <3>2. QED
      BY <2>3, <3>1 DEF RowsInv, Typed, TypeOK
  <2>6. ASSUME NEW v \in reqs'[t].todo
        PROVE  /\ rows'[v.row] # NoRow =>
                    \A i \in rows'[v.row].items : i.file # reqs'[t].file => i \in v.items
               /\ \A x \in reqs'[t].todo : x.row = v.row => x = v
    <3>1. v \in reqs[t].todo /\ rows'[v.row] = rows[v.row]
      BY <2>4, <2>5, <2>6
    <3>2. QED
      BY <2>1, <2>4, <3>1 DEF RowsInv, AsRead
  <2>7. QED
    BY <1>1, <1>2, <2>6 DEF AsRead, Idle
<1>6. CASE ~ AskDelete(t) /\ ~ Rewrite(t)
  <2>1. reqs'[t].op # "rewrite"
    <3>1. CASE DropEntries(t) \/ DeleteEntry(t) \/ AskDiscard(t)
      BY <3>1, <1>3, UnlinksBy
    <3>2. QED
      BY <1>6, <3>1, OtherWork
  <2>2. QED
    BY <1>1, <1>2, <2>1 DEF AsRead, Idle
<1>7. QED
  BY <1>4, <1>5, <1>6

LEMMA RowsInvInit == Init => RowsInv
<1>1. Init => \A t \in Handlers : reqs[t] = Idle
  BY DEF Init
<1>2. QED
  BY <1>1, InitTyped DEF RowsInv, Alone, AsRead, Idle

LEMMA RowsInvStep == ASSUME Serial PROVE RowsInv /\ [Next]_vars => RowsInv'
<1>1. SUFFICES ASSUME RowsInv, [Next]_vars PROVE Alone' /\ AsRead'
  BY NextTyped DEF RowsInv
<1>2. CASE \E t \in Handlers : Step(t)
  BY <1>1, <1>2, AsReadKept
<1>3. CASE AskList \/ ReadSecond \/ ScanFolders \/ KeepList
  <2>1. UNCHANGED rows /\ \E r : Goes(Lister, r)
    BY <1>3 DEF AskList, ReadSecond, ScanFolders, KeepList, store
  <2>2. \A t \in Handlers : reqs'[t] = reqs[t]
    BY <1>1, <2>1, LibraryAssumption DEF Goes, RowsInv, Typed, RequestsTyped
  <2>3. QED
    BY <1>1, <2>1, <2>2 DEF RowsInv, Alone, AsRead
<1>4. CASE Tick \/ UNCHANGED vars
  BY <1>1, <1>4 DEF Tick, vars, store, RowsInv, Alone, AsRead
<1>5. QED
  BY <1>1, <1>2, <1>3, <1>4 DEF Next

-----------------------------------------------------------------------------
(* That what is recorded is there *)

\* One request that changes something at a time, and a chat's own pictures are not
\* attached to its prompts again.
Orderly == Serial /\ ~ Reattach

\* What a row or an entry of a chat shows.
RowShows(c, f) == \E m \in RowsOf(c) : \E i \in rows[m].items : i.file = f
EntryShows(c, f) == \E e \in entries : e.chat = c /\ e.item.file = f
Shows(c, f) == RowShows(c, f) \/ EntryShows(c, f)

Bare(c) == RowsOf(c) = {} /\ \A e \in entries : e.chat # c

\* Uploads and pictures are told apart by their names.
Sorts(items) == \A i \in items : i.file \in IF i.upload THEN Uploads ELSE Made \cup {NoFile}

\* A picture stands for one item.
Single(items) == \A i, j \in items : i.file = j.file /\ i.file \in Made => i = j

There(c, items) == \A i \in items : i.file \in disk[c] \cup {NoFile}

\* The rows are of chats that are there, and in one chat a picture is in one row.
RowsSound ==
  /\ \A m \in Rows : rows[m] # NoRow =>
       rows[m].chat \in live /\ Sorts(rows[m].items) /\ Single(rows[m].items)
  /\ \A m, n \in Rows : m # n /\ rows[m] # NoRow /\ rows[n] # NoRow /\ rows[m].chat = rows[n].chat =>
       \A i \in rows[m].items, j \in rows[n].items : i.file \in Made => i.file # j.file

\* So are the entries; a picture that has one is in no row, and no upload has any.
EntriesSound ==
  \A e \in entries :
    /\ e.chat \in live /\ ~ e.item.upload /\ e.item.file \in Made
    /\ ~ RowShows(e.chat, e.item.file)
    /\ \A o \in entries : o.chat = e.chat /\ o.item.file = e.item.file => o = e

Tables == RowsSound /\ EntriesSound /\ \A c \in Chats : waiting[c] \subseteq Uploads

\* What is under way: to be recorded, or to be removed.
Recording(r) ==
  /\ r.op = "send" => r.chat \in live /\ r.files \subseteq Uploads \cap disk[r.chat]
  /\ r.op = "made" =>
       /\ rows[r.row] # NoRow
       /\ ~ r.item.upload /\ r.item.file \in Made \cap disk[rows[r.row].chat]
       /\ ~ Shows(rows[r.row].chat, r.item.file)
  /\ r.op = "link" => r.chat # r.new /\ There(r.chat, r.items)
  /\ r.op = "branch" => There(r.new, r.items)
  /\ r.op \in {"link", "branch"} => r.new \in live /\ Bare(r.new) /\ Sorts(r.items) /\ Single(r.items)

Removing(r) ==
  /\ r.op = "trash" => Bare(r.chat)
  /\ r.op = "rewrite" =>
       /\ \A w \in r.todo : /\ rows[w.row] # NoRow => w.items \subseteq rows[w.row].items
                            /\ \A i \in w.items : i.file # r.file
       /\ \A m \in RowsOf(r.chat) : (\E i \in rows[m].items : i.file = r.file) => \E w \in r.todo : w.row = m
  /\ r.op = "unlink" /\ r.folder \in Chats => ~ Shows(r.folder, r.file)
  /\ r.op = "clear" =>
       /\ r.gone \subseteq entries
       /\ \A p \in r.left :
            /\ ~ EntryShows(p[1], p[2])
            /\ \A m \in RowsOf(p[1]) : \A i \in rows[m].items :
                 i.file = p[2] => m \in r.todo /\ i \in r.found[p[1]]

InHand(r) == Recording(r) /\ Removing(r)

\* Every item's file is there, but for those a clearing is about to take from its row.
FilesHeld ==
  /\ \A m \in Rows : rows[m] # NoRow => \A i \in rows[m].items :
       \/ i.file \in disk[rows[m].chat] \cup {NoFile}
       \/ \E t \in Handlers : reqs[t].op = "clear" /\ m \in reqs[t].todo /\ i \in reqs[t].found[rows[m].chat]
  /\ \A e \in entries : e.item.file \in disk[e.chat]

AllThere ==
  /\ \A m \in Rows : rows[m] # NoRow => There(rows[m].chat, rows[m].items)
  /\ \A e \in entries : e.item.file \in disk[e.chat]

\* The invariant of what is recorded.
ThereInv == RowsInv /\ Tables /\ FilesHeld /\ \A t \in Handlers : InHand(reqs[t])

\* Some rows or items go, and nothing comes.
Fewer ==
  /\ \A m \in Rows : rows'[m] # NoRow =>
       rows[m] # NoRow /\ rows'[m].chat = rows[m].chat /\ rows'[m].items \subseteq rows[m].items
  /\ entries' \subseteq entries

LEMMA SameTables == UNCHANGED <<rows, entries>> => Fewer
BY DEF Fewer

LEMMA FewerShown ==
  ASSUME Fewer, NEW c
  PROVE  /\ \A f : RowShows(c, f)' => RowShows(c, f)
         /\ \A f : Shows(c, f)' => Shows(c, f)
         /\ Bare(c) => Bare(c)'
BY DEF Fewer, Shows, RowShows, EntryShows, Bare, RowsOf

LEMMA LiveAre == live \subseteq Chats /\ live' \subseteq Chats /\ (UNCHANGED chats => live' = live)
BY DEF live

\* With fewer rows and items the tables are still sound.
LEMMA FewerSound ==
  ASSUME TypeOK, TypeOK', Tables, Fewer,
         \A c \in live : c \in live' \/ Bare(c)',
         \A c \in Chats : waiting'[c] \subseteq Uploads
  PROVE  Tables'
<1>1. RowsSound'
  <2>1. ASSUME NEW m \in Rows, rows'[m] # NoRow
        PROVE  (rows[m].chat \in live /\ Sorts(rows[m].items) /\ Single(rows[m].items))'
    <3>1. /\ rows[m] # NoRow /\ rows'[m].chat = rows[m].chat /\ rows'[m].items \subseteq rows[m].items
          /\ rows[m].chat \in live /\ Sorts(rows[m].items) /\ Single(rows[m].items)
      BY <2>1 DEF Fewer, Tables, RowsSound
    <3>2. rows'[m].chat \in live'
      BY <2>1, <3>1 DEF Bare, RowsOf
    <3>3. QED
      BY <3>1, <3>2 DEF Sorts, Single
  <2>2. \A m, n \in Rows :
          (m # n /\ rows[m] # NoRow /\ rows[n] # NoRow /\ rows[m].chat = rows[n].chat)' =>
            \A i \in rows'[m].items, j \in rows'[n].items : i.file \in Made => i.file # j.file
    BY DEF Fewer, Tables, RowsSound
  <2>3. QED
    BY <2>1, <2>2 DEF RowsSound
<1>2. EntriesSound'
  <2>1. \A e \in entries' : e \in entries /\ e.chat \in live'
    BY DEF Fewer, Tables, EntriesSound, Bare
  <2>2. QED
    BY <2>1, FewerShown DEF Tables, EntriesSound, Fewer
<1>3. QED
  BY <1>1, <1>2 DEF Tables

\* A new row shows no picture that its chat shows already.
LEMMA AddedSound ==
  ASSUME TypeOK, TypeOK', Tables, NEW n \in Rows, rows[n] = NoRow, NEW c \in live, NEW is \in SUBSET Item,
         rows' = [rows EXCEPT ![n] = [chat |-> c, items |-> is]], Sorts(is), Single(is),
         \A i \in is : i.file \in Made => ~ Shows(c, i.file),
         UNCHANGED <<chats, entries>>, \A d \in Chats : waiting'[d] \subseteq Uploads
  PROVE  Tables'
<1>1. /\ rows'[n] = [chat |-> c, items |-> is] /\ rows'[n].chat = c /\ rows'[n].items = is
      /\ \A m \in Rows : m # n => rows'[m] = rows[m]
  BY DEF TypeOK
<1>2. live' = live
  BY LiveAre
<1>3. RowsSound'
  <2>1. ASSUME NEW m \in Rows, rows'[m] # NoRow
        PROVE  rows'[m].chat \in live' /\ Sorts(rows'[m].items) /\ Single(rows'[m].items)
    BY <1>1, <1>2, <2>1 DEF Tables, RowsSound
  <2>2. \A m \in Rows : m # n /\ rows[m] # NoRow /\ rows[m].chat = c =>
          \A i \in rows[m].items, j \in is : (i.file \in Made \/ j.file \in Made) => i.file # j.file
    BY DEF Shows, RowShows, RowsOf
  <2>3. \A m, k \in Rows :
          (m # k /\ rows[m] # NoRow /\ rows[k] # NoRow /\ rows[m].chat = rows[k].chat)' =>
            \A i \in rows'[m].items, j \in rows'[k].items : i.file \in Made => i.file # j.file
    BY <1>1, <2>2 DEF Tables, RowsSound
  <2>4. QED
    BY <2>1, <2>3 DEF RowsSound, Sorts, Single
<1>4. \A e \in entries : ~ RowShows(e.chat, e.item.file)'
  <2> SUFFICES ASSUME NEW e \in entries, NEW m \in Rows, rows'[m] # NoRow, rows'[m].chat = e.chat,
                      NEW i \in rows'[m].items, i.file = e.item.file
               PROVE  FALSE
    BY DEF RowShows, RowsOf
  <2>1. e.item.file \in Made /\ ~ RowShows(e.chat, e.item.file)
    BY DEF Tables, EntriesSound
  <2>2. CASE m = n
    BY <1>1, <2>1, <2>2 DEF Shows, EntryShows
  <2>3. CASE m # n
    BY <1>1, <2>1, <2>3 DEF RowShows, RowsOf
  <2>4. QED
    BY <2>2, <2>3
<1>5. EntriesSound'
  BY <1>2, <1>4 DEF Tables, EntriesSound
<1>6. QED
  BY <1>3, <1>5 DEF Tables

\* One more item in a row.
LEMMA AppendedRow ==
  ASSUME TypeOK, NEW m \in Rows, rows[m] # NoRow, NEW item \in Item, Appended(m, item)
  PROVE  /\ rows'[m] # NoRow /\ rows'[m].chat = rows[m].chat /\ rows'[m].items = rows[m].items \cup {item}
         /\ \A n \in Rows : n # m => rows'[n] = rows[n]
<1>1. rows' = [rows EXCEPT ![m] = [rows[m] EXCEPT !.items = rows[m].items \cup {item}]]
  BY DEF Appended
<1>2. rows[m] \in Row
  BY DEF TypeOK
<1>3. [rows[m] EXCEPT !.items = rows[m].items \cup {item}] \in Row
  BY <1>2 DEF Row
<1>4. QED
  BY <1>1, <1>2, <1>3, LibraryAssumption DEF TypeOK, Row

LEMMA AppendedSound ==
  ASSUME TypeOK, TypeOK', Tables, NEW m \in Rows, rows[m] # NoRow, NEW item \in Item, Appended(m, item),
         ~ item.upload, item.file \in Made \cup {NoFile}, item.file \in Made => ~ Shows(rows[m].chat, item.file),
         UNCHANGED <<chats, entries, waiting>>
  PROVE  Tables'
<1>1. /\ rows'[m] # NoRow /\ rows'[m].chat = rows[m].chat /\ rows'[m].items = rows[m].items \cup {item}
      /\ \A n \in Rows : n # m => rows'[n] = rows[n]
  BY AppendedRow
<1>2. live' = live
  BY LiveAre
<1>n. NoFile \notin Made
  BY LibraryAssumption DEF Files
<1>3. item.file \in Made =>
        \A n \in Rows : rows[n] # NoRow /\ rows[n].chat = rows[m].chat => \A i \in rows[n].items : i.file # item.file
  BY DEF Shows, RowShows, RowsOf
<1>4. RowsSound'
  <2>1. Sorts(rows'[m].items) /\ Single(rows'[m].items) /\ rows'[m].chat \in live
    BY <1>1, <1>3 DEF Tables, RowsSound, Sorts, Single
  <2>2. \A n \in Rows : rows'[n] # NoRow =>
          rows'[n].chat \in live' /\ Sorts(rows'[n].items) /\ Single(rows'[n].items)
    BY <1>1, <1>2, <2>1 DEF Tables, RowsSound
  <2>3. \A k, n \in Rows :
          (k # n /\ rows[k] # NoRow /\ rows[n] # NoRow /\ rows[k].chat = rows[n].chat)' =>
            \A i \in rows'[k].items, j \in rows'[n].items : i.file \in Made => i.file # j.file
    BY <1>1, <1>3 DEF Tables, RowsSound
  <2>4. QED
    BY <2>2, <2>3 DEF RowsSound, Sorts, Single
<1>5. \A e \in entries : ~ RowShows(e.chat, e.item.file)'
  <2> SUFFICES ASSUME NEW e \in entries, NEW n \in Rows, rows'[n] # NoRow, rows'[n].chat = e.chat,
                      NEW i \in rows'[n].items, i.file = e.item.file
               PROVE  FALSE
    BY DEF RowShows, RowsOf
  <2>1. e.item.file \in Made /\ ~ RowShows(e.chat, e.item.file)
    BY DEF Tables, EntriesSound
  <2>2. CASE n = m /\ i = item
    BY <1>1, <2>1, <2>2 DEF Shows, EntryShows
  <2>3. CASE ~ (n = m /\ i = item)
    BY <1>1, <2>1, <2>3 DEF RowShows, RowsOf
  <2>4. QED
    BY <2>2, <2>3
<1>6. EntriesSound'
  BY <1>2, <1>5 DEF Tables, EntriesSound
<1>7. QED
  BY <1>4, <1>6 DEF Tables

\* What moves to the entries leaves the rows.
Moved(c, gone) ==
  /\ rows' = [m \in Rows |-> IF m \in gone THEN NoRow ELSE rows[m]]
  /\ entries' = entries \cup {[chat |-> c, item |-> i] :
       i \in {j \in UNION {rows[m].items : m \in gone} : ~ j.upload /\ j.file # NoFile}}

LEMMA MovedSound ==
  ASSUME TypeOK, TypeOK', Tables, NEW c \in live, NEW gone \in SUBSET RowsOf(c), Moved(c, gone),
         UNCHANGED <<chats, waiting>>
  PROVE  /\ Tables'
         /\ \A e \in entries' \ entries : e.chat = c /\ \E m \in gone : e.item \in rows[m].items /\ e.item.file # NoFile
<1>1. live' = live
  BY LiveAre
<1>2. ASSUME NEW e \in entries' \ entries
      PROVE  /\ e.chat = c /\ ~ e.item.upload /\ e.item.file # NoFile
             /\ \E m \in gone : e.item \in rows[m].items
  BY <1>2 DEF Moved
<1>3. \A m \in gone : m \in Rows /\ rows[m] # NoRow /\ rows[m].chat = c
  BY DEF RowsOf
<1>4. \A m \in Rows : rows'[m] # NoRow => rows'[m] = rows[m] /\ m \notin gone
  BY DEF Moved
<1>5. RowsSound'
  <2>1. \A m \in Rows : rows'[m] # NoRow =>
          rows'[m].chat \in live' /\ Sorts(rows'[m].items) /\ Single(rows'[m].items)
    BY <1>1, <1>4 DEF Tables, RowsSound
  <2>2. \A m, n \in Rows :
          (m # n /\ rows[m] # NoRow /\ rows[n] # NoRow /\ rows[m].chat = rows[n].chat)' =>
            \A i \in rows'[m].items, j \in rows'[n].items : i.file \in Made => i.file # j.file
    BY <1>4 DEF Tables, RowsSound
  <2>3. QED
    BY <2>1, <2>2 DEF RowsSound, Sorts, Single
<1>6. \A d, f : RowShows(d, f)' => RowShows(d, f)
  BY <1>4 DEF RowShows, RowsOf
<1>7. ASSUME NEW e \in entries' \ entries
      PROVE  e.item.file \in Made /\ ~ RowShows(c, e.item.file)' /\ RowShows(c, e.item.file)
  <2>1. PICK m \in gone : e.item \in rows[m].items
    BY <1>2, <1>7
  <2>2. e.item.file \in Made
    BY <1>2, <1>3, <1>7, <2>1 DEF Tables, RowsSound, Sorts
  <2>3. \A n \in Rows : n # m /\ rows[n] # NoRow /\ rows[n].chat = c => \A i \in rows[n].items : i.file # e.item.file
    BY <1>3, <2>1, <2>2 DEF Tables, RowsSound
  <2>4. QED
    BY <1>3, <1>4, <2>1, <2>2, <2>3 DEF RowShows, RowsOf
<1>8. EntriesSound'
  <2>1. ASSUME NEW e \in entries' PROVE /\ e.chat \in live' /\ ~ e.item.upload /\ e.item.file \in Made
                                        /\ ~ RowShows(e.chat, e.item.file)'
    <3>1. CASE e \in entries
      BY <1>1, <1>6, <3>1 DEF Tables, EntriesSound
    <3>2. CASE e \notin entries
      BY <1>1, <1>2, <1>7, <2>1, <3>2
    <3>3. QED
      BY <3>1, <3>2
  <2>2. ASSUME NEW e \in entries', NEW o \in entries', o.chat = e.chat, o.item.file = e.item.file
        PROVE  o = e
    <3>1. CASE e \in entries /\ o \in entries
      BY <2>2, <3>1 DEF Tables, EntriesSound
    <3>2. CASE (e \in entries /\ o \notin entries) \/ (e \notin entries /\ o \in entries)
      BY <1>2, <1>7, <2>2, <3>2 DEF Tables, EntriesSound
    <3>3. CASE e \notin entries /\ o \notin entries
      <4>1. PICK m \in gone, n \in gone : e.item \in rows[m].items /\ o.item \in rows[n].items
        BY <1>2, <3>3
      <4>2. e.item.file \in Made
        BY <1>7, <3>3
      <4>3. e.item = o.item
        BY <1>3, <2>2, <4>1, <4>2 DEF Tables, RowsSound, Single
      <4>4. e \in Entry /\ o \in Entry
        BY DEF TypeOK
      <4>5. QED
        BY <2>2, <4>3, <4>4 DEF Entry
    <3>4. QED
      BY <3>1, <3>2, <3>3
  <2>3. QED
    BY <2>1, <2>2 DEF EntriesSound
<1>9. QED
  BY <1>2, <1>5, <1>8 DEF Tables

-----------------------------------------------------------------------------

\* A request that clears nothing finds every file there.
LEMMA Calm ==
  ASSUME FilesHeld, NEW t \in Handlers, reqs[t].op # "clear", \A u \in Handlers : u # t => reqs[u] = Idle
  PROVE  AllThere
<1>1. \A u \in Handlers : reqs[u].op # "clear"
  BY DEF Idle
<1>2. QED
  BY <1>1 DEF FilesHeld, AllThere, There

LEMMA HeldAgain == AllThere' => FilesHeld'
BY DEF FilesHeld, AllThere, There

\* Files stay that are still shown.
LEMMA StillThere ==
  ASSUME TypeOK, AllThere, Fewer,
         \A c \in Chats : \A f \in disk[c] : f \in disk'[c] \/ ~ Shows(c, f)'
  PROVE  AllThere'
<1>1. ASSUME NEW m \in Rows, rows'[m] # NoRow, NEW i \in rows'[m].items
      PROVE  i.file \in disk'[rows'[m].chat] \cup {NoFile}
  <2>1. /\ rows[m] # NoRow /\ rows[m].chat = rows'[m].chat /\ i \in rows[m].items
        /\ rows[m].chat \in Chats
    BY <1>1, RowFields DEF Fewer
  <2>2. i.file \in disk[rows[m].chat] \cup {NoFile}
    BY <2>1 DEF AllThere, There
  <2>3. Shows(rows[m].chat, i.file)'
    BY <1>1, <2>1 DEF Shows, RowShows, RowsOf
  <2>4. QED
    BY <2>1, <2>2, <2>3
<1>2. ASSUME NEW e \in entries' PROVE e.item.file \in disk'[e.chat]
  <2>1. e \in entries /\ e.chat \in Chats /\ e.item.file \in disk[e.chat]
    BY DEF Fewer, AllThere, TypeOK, Entry
  <2>2. Shows(e.chat, e.item.file)'
    BY DEF Shows, EntryShows
  <2>3. QED
    BY <2>1, <2>2
<1>3. QED
  BY <1>1, <1>2 DEF AllThere, There

\* Storing a file takes none away.
LEMMA FilesGrow ==
  ASSUME TypeOK, NEW d \in Folders, NEW f \in Files
  PROVE  /\ Stored(d, f) \/ Written(d, f) => \A c \in Folders : disk[c] \subseteq disk'[c]
         /\ Stored(d, f) \/ Written(d, f) => f \in disk'[d]
<1>1. disk' = [disk EXCEPT ![d] = disk[d] \cup {f}] => \A c \in Folders : disk[c] \subseteq disk'[c] /\ f \in disk'[d]
  BY DEF TypeOK
<1>2. disk' = disk => \A c \in Folders : disk[c] \subseteq disk'[c]
  OBVIOUS
<1>3. QED
  BY <1>1, <1>2 DEF Stored, Written, files

LEMMA IdleInHand == \A t \in Handlers : (reqs[t] = Idle => InHand(reqs[t])) /\ (reqs'[t] = Idle => InHand(reqs[t])')
BY DEF Idle, InHand, Recording, Removing

\* What each action finds.
LEMMA Found ==
  ASSUME Serial, ThereInv, NEW t \in Handlers, Step(t)
  PROVE  /\ Typed /\ TypeOK /\ Tables /\ FilesHeld /\ reqs[t] \in Work /\ InHand(reqs[t])
         /\ reqs[t].op # "clear" => AllThere
         /\ \A r : Goes(t, r) => reqs'[t] = r
<1>1. \A u \in Handlers : u # t => reqs[u] = Idle
  BY OthersIdle DEF ThereInv
<1>2. QED
  BY <1>1, Calm DEF ThereInv, RowsInv, Typed, RequestsTyped, Goes

\* Chats, uploads and copies: the rows stay and no file goes.
LEMMA ThereUploads ==
  ASSUME Orderly, ThereInv, TypeOK', NEW t \in Handlers, Step(t),
         NewChat(t) \/ AttachFile(t) \/ ImportFile(t) \/ UploadToShelf(t)
  PROVE  Tables' /\ FilesHeld' /\ InHand(reqs[t])'
<1>f. TypeOK /\ Tables
  BY Found DEF Orderly
<1>1. UNCHANGED <<rows, entries>> /\ reqs'[t] = Idle /\ reqs[t] = Idle
  BY DEF NewChat, AttachFile, ImportFile, UploadToShelf, AtOnce, Starts, store
<1>2. AllThere
  BY <1>1, Found DEF Orderly, Idle
<1>3. live \subseteq live' /\ \A c \in Folders : disk[c] \subseteq disk'[c]
  <2>1. CASE NewChat(t)
    BY <1>f, <2>1 DEF NewChat, live, TypeOK, files
  <2>2. CASE AttachFile(t)
    <3>1. PICK c \in live, f \in Uploads : Stored(c, f)
      BY <2>2 DEF AttachFile, Picked, Orderly
    <3>2. c \in Folders /\ f \in Files
      BY <3>1, LiveAre, FoldersFacts DEF Files
    <3>3. QED
      BY <1>f, <2>2, <3>1, <3>2, FilesGrow, LiveAre DEF AttachFile, store
  <2>3. CASE ImportFile(t)
    <3>1. PICK c \in live, d \in Folders, f \in Files : Stored(c, IF f \in Made THEN CopyOf[f] ELSE f)
      BY <1>f, <2>3 DEF ImportFile, TypeOK
    <3>2. c \in Folders /\ (IF f \in Made THEN CopyOf[f] ELSE f) \in Files
      BY <3>1, LiveAre, FoldersFacts, LibraryAssumption DEF Files
    <3>3. QED
      BY <1>f, <2>3, <3>1, <3>2, FilesGrow, LiveAre DEF ImportFile, store
  <2>4. CASE UploadToShelf(t)
    <3>1. PICK f \in Uploads : Stored(Shelf, f)
      BY <2>4 DEF UploadToShelf
    <3>2. QED
      BY <1>f, <2>4, <3>1, FilesGrow, FoldersFacts, LiveAre DEF UploadToShelf, store, Files
  <2>5. QED
    BY <2>1, <2>2, <2>3, <2>4
<1>4. \A c \in Chats : waiting'[c] \subseteq Uploads
  <2>1. CASE NewChat(t) \/ UploadToShelf(t)
    BY <1>f, <2>1 DEF NewChat, UploadToShelf, Tables
  <2>2. CASE AttachFile(t)
    <3>1. PICK c \in live, f \in Uploads : waiting' = [waiting EXCEPT ![c] = @ \cup {f}]
      BY <2>2 DEF AttachFile, Picked, Orderly
    <3>2. QED
      BY <1>f, <3>1 DEF Tables, TypeOK
  <2>3. CASE ImportFile(t)
    <3>1. PICK c \in live, f \in Files : waiting' = [waiting EXCEPT ![c] = @ \cup {IF f \in Made THEN CopyOf[f] ELSE f}]
      BY <1>f, <2>3 DEF ImportFile, TypeOK
    <3>2. (IF f \in Made THEN CopyOf[f] ELSE f) \in Uploads
      BY LibraryAssumption DEF Files
    <3>3. QED
      BY <1>f, <3>1, <3>2 DEF Tables, TypeOK
  <2>4. QED
    BY <2>1, <2>2, <2>3
<1>5. Tables'
  BY <1>f, <1>1, <1>3, <1>4, SameTables, FewerSound
<1>6. AllThere'
  BY <1>f, <1>1, <1>2, <1>3, SameTables, StillThere, FoldersFacts
<1>7. QED
  BY <1>1, <1>5, <1>6, HeldAgain, IdleInHand

\* A prompt records files that were there when it was sent, and still are.
LEMMA ThereSend ==
  ASSUME Orderly, ThereInv, TypeOK', NEW t \in Handlers, Step(t), AskSend(t) \/ Send(t)
  PROVE  Tables' /\ FilesHeld' /\ InHand(reqs[t])'
<1>f. TypeOK /\ Tables /\ \A r : Goes(t, r) => reqs'[t] = r
  BY Found DEF Orderly
<1>1. CASE AskSend(t)
  <2>1. UNCHANGED <<store, files, waiting>> /\ reqs[t] = Idle
    BY <1>1 DEF AskSend, Starts
  <2>2. AllThere
    BY <2>1, Found DEF Orderly, Idle
  <2>3. PICK c, fs : c \in live /\ fs \in SUBSET waiting[c] /\ fs \subseteq disk[c] /\ Goes(t, [op |-> "send", chat |-> c, files |-> fs])
    BY <1>1 DEF AskSend
  <2>4. reqs'[t] = [op |-> "send", chat |-> c, files |-> fs]
    BY <1>f, <2>3
  <2>5. c \in live' /\ fs \subseteq Uploads /\ fs \subseteq disk'[c]
    BY <1>f, <2>1, <2>3, LiveAre DEF Tables, store, files
  <2>6. InHand(reqs[t])'
    BY <2>4, <2>5 DEF InHand, Recording, Removing
  <2>7. Tables'
    BY <1>f, <2>1, SameTables, FewerSound, LiveAre DEF store, Tables
  <2>8. AllThere'
    BY <1>f, <2>1, <2>2, SameTables, StillThere DEF store, files
  <2>9. QED
    BY <2>6, <2>7, <2>8, HeldAgain
<1>2. CASE Send(t)
  <2>1. reqs[t].op = "send" /\ NextRow \in Rows /\ UNCHANGED <<chats, entries, files>> /\ reqs'[t] = Idle
    BY <1>f, <1>2 DEF Send, On
  <2>2. AllThere /\ reqs[t].chat \in live /\ reqs[t].files \subseteq Uploads \cap disk[reqs[t].chat]
    BY <2>1, Found DEF Orderly, InHand, Recording
  <2> DEFINE is == {[file |-> f, upload |-> TRUE, refs |-> {}] : f \in reqs[t].files}
  <2>3. /\ rows' = [rows EXCEPT ![NextRow] = [chat |-> reqs[t].chat, items |-> is]]
        /\ waiting' = [waiting EXCEPT ![reqs[t].chat] = @ \ reqs[t].files]
    BY <1>2 DEF Send
  <2>4. \A i \in is : i.upload /\ i.file \in Uploads /\ i.file \in disk[reqs[t].chat] /\ i.file \notin Made /\ i \in Item
    <3>1. \A f \in reqs[t].files : [file |-> f, upload |-> TRUE, refs |-> {}] \in Item /\ f \notin Made
      BY <2>2, LibraryAssumption DEF Item, Files
    <3>2. QED
      BY <2>2, <3>1
  <2> HIDE DEF is
  <2>5. Sorts(is) /\ Single(is) /\ is \in SUBSET Item
    BY <2>4 DEF Sorts, Single
  <2>6. \A d \in Chats : waiting'[d] \subseteq Uploads
    BY <1>f, <2>3 DEF Tables, TypeOK
  <2>7. Tables'
    BY <1>f, <2>1, <2>2, <2>3, <2>4, <2>5, <2>6, NextRowFree, AddedSound
  <2>8. AllThere'
    <3>1. /\ rows'[NextRow].chat = reqs[t].chat /\ rows'[NextRow].items = is
          /\ \A m \in Rows : m # NextRow => rows'[m] = rows[m]
      BY <1>f, <2>1, <2>3 DEF TypeOK
    <3>2. QED
      BY <2>1, <2>2, <2>4, <3>1 DEF AllThere, There, files
  <2>9. QED
    BY <2>1, <2>7, <2>8, HeldAgain, IdleInHand
<1>3. QED
  BY <1>1, <1>2

\* A picture that is saved for a row.
Saves(t, c, m, refs) ==
  \E g \in Made :
    /\ \A d \in Folders : g \notin disk[d] /\ (d \in Chats => ~ InUse(d, g))
    /\ Written(c, g)
    /\ Goes(t, [op |-> "made", row |-> m, item |-> [file |-> g, upload |-> FALSE, refs |-> refs]])
    /\ UNCHANGED rows

LEMMA Generates ==
  ASSUME NEW t, Generate(t)
  PROVE  \E c, m, refs :
           /\ c \in live /\ m \in RowsOf(c) /\ refs \in SUBSET disk[c]
           /\ \/ Saves(t, c, m, refs)
              \/ /\ Appended(m, [file |-> NoFile, upload |-> FALSE, refs |-> refs])
                 /\ UNCHANGED <<files, reqs>>
BY DEF Generate, Saves

\* A picture is new in its folder and in the tables until it is recorded.
LEMMA ThereGenerate ==
  ASSUME Orderly, ThereInv, TypeOK', NEW t \in Handlers, Step(t), Generate(t)
  PROVE  Tables' /\ FilesHeld' /\ InHand(reqs[t])'
<1>f. TypeOK /\ Tables /\ \A r : Goes(t, r) => reqs'[t] = r
  BY Found DEF Orderly
<1>1. UNCHANGED <<chats, entries, waiting>> /\ reqs[t] = Idle
  BY DEF Generate, Starts
<1>2. AllThere
  BY <1>1, Found DEF Orderly, Idle
<1>3. PICK c, m, refs : /\ c \in live /\ m \in RowsOf(c) /\ refs \in SUBSET disk[c]
                        /\ \/ Saves(t, c, m, refs)
                           \/ /\ Appended(m, [file |-> NoFile, upload |-> FALSE, refs |-> refs])
                              /\ UNCHANGED <<files, reqs>>
  BY Generates
<1>4. m \in Rows /\ rows[m] # NoRow /\ rows[m].chat = c /\ c \in Chats /\ c \in Folders /\ refs \subseteq Files
  BY <1>f, <1>3, LiveAre, FoldersFacts DEF RowsOf, TypeOK
<1>5. CASE Appended(m, [file |-> NoFile, upload |-> FALSE, refs |-> refs]) /\ UNCHANGED <<files, reqs>>
  <2>1. PICK item \in Item : item = [file |-> NoFile, upload |-> FALSE, refs |-> refs]
    BY <1>4 DEF Item
  <2>2. ~ item.upload /\ item.file = NoFile /\ NoFile \notin Made /\ Appended(m, item)
    BY <1>5, <2>1, LibraryAssumption DEF Files
  <2>3. Tables'
    BY <1>f, <1>1, <1>4, <2>2, AppendedSound
  <2>4. /\ rows'[m].chat = rows[m].chat /\ rows'[m].items = rows[m].items \cup {item}
        /\ \A n \in Rows : n # m => rows'[n] = rows[n]
    BY <1>f, <1>4, <2>2, AppendedRow
  <2>5. AllThere'
    BY <1>1, <1>2, <1>4, <1>5, <2>2, <2>4 DEF AllThere, There, files
  <2>6. QED
    BY <1>1, <1>5, <2>3, <2>5, HeldAgain, IdleInHand
<1>6. ASSUME NEW g \in Made,
             \A d \in Folders : g \notin disk[d] /\ (d \in Chats => ~ InUse(d, g)),
             Written(c, g),
             Goes(t, [op |-> "made", row |-> m, item |-> [file |-> g, upload |-> FALSE, refs |-> refs]]),
             UNCHANGED rows
      PROVE  Tables' /\ FilesHeld' /\ InHand(reqs[t])'
  <2>1. Tables'
    BY <1>f, <1>1, <1>6, SameTables, FewerSound, LiveAre DEF Tables
  <2>2. g \in disk'[c] /\ \A d \in Folders : disk[d] \subseteq disk'[d]
    BY <1>f, <1>4, <1>6, FilesGrow DEF Files
  <2>3. AllThere'
    BY <1>f, <1>1, <1>2, <1>6, <2>2, SameTables, StillThere, FoldersFacts
  <2>4. ~ Shows(c, g)
    <3>1. g \in Files /\ ~ InUse(c, g)
      BY <1>4, <1>6 DEF Files
    <3>2. QED
      BY <3>1 DEF Shows, RowShows, EntryShows, InUse, Uses
  <2>5. ~ Shows(c, g)'
    BY <1>1, <1>6, <2>4, SameTables, FewerShown
  <2>6. PICK item : item = [file |-> g, upload |-> FALSE, refs |-> refs]
    OBVIOUS
  <2>7. reqs'[t] = [op |-> "made", row |-> m, item |-> item] /\ item.file = g /\ ~ item.upload
    BY <1>f, <1>6, <2>6
  <2>8. InHand(reqs[t])'
    BY <1>4, <1>6, <2>2, <2>5, <2>7 DEF InHand, Recording, Removing
  <2>9. QED
    BY <2>1, <2>3, <2>8, HeldAgain
<1>7. QED
  BY <1>3, <1>5, <1>6 DEF Saves

LEMMA ThereRecord ==
  ASSUME Orderly, ThereInv, TypeOK', NEW t \in Handlers, Step(t), RecordMade(t)
  PROVE  Tables' /\ FilesHeld' /\ InHand(reqs[t])'
<1>f. TypeOK /\ Tables /\ reqs[t] \in Work /\ \A r : Goes(t, r) => reqs'[t] = r
  BY Found DEF Orderly
<1>1. /\ reqs[t].op = "made" /\ Appended(reqs[t].row, reqs[t].item) /\ reqs'[t] = Idle
      /\ UNCHANGED <<chats, entries, files, waiting>>
  BY <1>f DEF RecordMade, On
<1>2. reqs[t].row \in Rows /\ reqs[t].item \in Item
  BY <1>f, <1>1 DEF Work, Clearing, Idle
<1>3. PICK m \in Rows, item \in Item : m = reqs[t].row /\ item = reqs[t].item
  BY <1>2
<1>4. /\ AllThere /\ rows[m] # NoRow /\ ~ item.upload /\ item.file \in Made
      /\ item.file \in disk[rows[m].chat] /\ ~ Shows(rows[m].chat, item.file)
  BY <1>1, <1>3, Found DEF Orderly, InHand, Recording
<1>5. Tables'
  BY <1>f, <1>1, <1>3, <1>4, AppendedSound
<1>6. /\ rows'[m].chat = rows[m].chat /\ rows'[m].items = rows[m].items \cup {item}
      /\ \A n \in Rows : n # m => rows'[n] = rows[n]
  BY <1>f, <1>1, <1>3, <1>4, AppendedRow
<1>7. AllThere'
  BY <1>1, <1>4, <1>6 DEF AllThere, There, files
<1>8. QED
  BY <1>1, <1>5, <1>7, HeldAgain, IdleInHand

LEMMA ThereExchange ==
  ASSUME Orderly, ThereInv, TypeOK', NEW t \in Handlers, Step(t), DeleteExchange(t)
  PROVE  Tables' /\ FilesHeld' /\ InHand(reqs[t])'
<1>f. TypeOK /\ Tables
  BY Found DEF Orderly
<1>1. UNCHANGED <<chats, files, waiting>> /\ reqs'[t] = Idle /\ reqs[t] = Idle
  BY DEF DeleteExchange, AtOnce, Starts
<1>2. AllThere
  BY <1>1, Found DEF Orderly, Idle
<1>3. PICK c, gone : c \in live /\ gone \in SUBSET RowsOf(c) /\ Moved(c, gone)
  BY DEF DeleteExchange, Moved
<1>4. /\ Tables'
      /\ \A e \in entries' \ entries : e.chat = c /\ \E m \in gone : e.item \in rows[m].items /\ e.item.file # NoFile
  BY <1>f, <1>1, <1>3, MovedSound
<1>5. \A m \in gone : m \in Rows /\ rows[m] # NoRow /\ rows[m].chat = c
  BY <1>3 DEF RowsOf
<1>6. \A e \in entries' : e.item.file \in disk[e.chat]
  BY <1>2, <1>4, <1>5 DEF AllThere, There
<1>7. \A m \in Rows : rows'[m] # NoRow => rows'[m] = rows[m]
  BY <1>3 DEF Moved
<1>8. AllThere'
  BY <1>1, <1>2, <1>6, <1>7 DEF AllThere, There, files
<1>9. QED
  BY <1>1, <1>4, <1>8, HeldAgain, IdleInHand

\* What a fork copies is there, and its chat has nothing yet.
LEMMA ForkedItems ==
  ASSUME TypeOK, Tables, AllThere, NEW c \in live, NEW path \in SUBSET RowsOf(c),
         NEW is, is = UNION {rows[m].items : m \in path}
  PROVE  There(c, is) /\ Sorts(is) /\ Single(is)
<1>1. \A i \in is : \E m \in Rows : rows[m] # NoRow /\ rows[m].chat = c /\ i \in rows[m].items
  BY DEF RowsOf
<1>2. There(c, is)
  BY <1>1 DEF AllThere, There
<1>3. Sorts(is)
  BY <1>1 DEF Tables, RowsSound, Sorts
<1>4. ASSUME NEW i \in is, NEW j \in is, i.file = j.file, i.file \in Made
      PROVE  i = j
  <2>1. PICK m \in Rows : rows[m] # NoRow /\ rows[m].chat = c /\ i \in rows[m].items
    BY <1>1
  <2>2. PICK n \in Rows : rows[n] # NoRow /\ rows[n].chat = c /\ j \in rows[n].items
    BY <1>1
  <2>3. m = n
    BY <1>4, <2>1, <2>2 DEF Tables, RowsSound
  <2>4. QED
    BY <1>4, <2>1, <2>2, <2>3 DEF Tables, RowsSound, Single
<1>5. QED
  BY <1>2, <1>3, <1>4 DEF Single

LEMMA ThereAskFork ==
  ASSUME Orderly, ThereInv, TypeOK', NEW t \in Handlers, Step(t), AskFork(t)
  PROVE  Tables' /\ FilesHeld' /\ InHand(reqs[t])'
<1>f. TypeOK /\ Tables /\ \A r : Goes(t, r) => reqs'[t] = r
  BY Found DEF Orderly
<1>1. UNCHANGED <<rows, entries, files, waiting>> /\ reqs[t] = Idle
  BY DEF AskFork, Starts
<1>2. AllThere
  BY <1>1, Found DEF Orderly, Idle
<1>3. PICK c, d, path : /\ c \in live /\ d \in Chats /\ path \in SUBSET RowsOf(c) /\ chats[d] = "new"
                        /\ chats' = [chats EXCEPT ![d] = "live"]
                        /\ Goes(t, [op |-> "link", chat |-> c, new |-> d, items |-> UNION {rows[m].items : m \in path}])
  BY DEF AskFork
<1>4. PICK is : is = UNION {rows[m].items : m \in path}
  OBVIOUS
<1>5. There(c, is) /\ Sorts(is) /\ Single(is)
  BY <1>f, <1>2, <1>3, <1>4, ForkedItems
<1>6. c # d /\ d \notin live /\ d \in live' /\ live \subseteq live'
  BY <1>f, <1>3 DEF live, TypeOK
<1>7. Bare(d)
  <2>1. RowsOf(d) = {}
    BY <1>f, <1>6 DEF RowsOf, Tables, RowsSound
  <2>2. QED
    BY <1>f, <1>6, <2>1 DEF Bare, Tables, EntriesSound
<1>8. Bare(d)'
  BY <1>1, <1>7, SameTables, FewerShown
<1>9. reqs'[t] = [op |-> "link", chat |-> c, new |-> d, items |-> is]
  BY <1>f, <1>3, <1>4
<1>10. There(c, is)'
  BY <1>1, <1>5 DEF There, files
<1>11. InHand(reqs[t])'
  BY <1>5, <1>6, <1>8, <1>9, <1>10 DEF InHand, Recording, Removing
<1>12. Tables'
  BY <1>f, <1>1, <1>6, SameTables, FewerSound DEF Tables
<1>13. AllThere'
  BY <1>f, <1>1, <1>2, SameTables, StillThere DEF files
<1>14. QED
  BY <1>11, <1>12, <1>13, HeldAgain

LEMMA ThereLink ==
  ASSUME Orderly, ThereInv, TypeOK', NEW t \in Handlers, Step(t), LinkFiles(t)
  PROVE  Tables' /\ FilesHeld' /\ InHand(reqs[t])'
<1>f. TypeOK /\ Tables /\ reqs[t] \in Work /\ \A r : Goes(t, r) => reqs'[t] = r
  BY Found DEF Orderly
<1>1. reqs[t].op = "link" /\ UNCHANGED <<chats, rows, entries, waiting>>
  BY DEF LinkFiles, On, store
<1>2. PICK c, d, is : c = reqs[t].chat /\ d = reqs[t].new /\ is = reqs[t].items
  OBVIOUS
<1>3. c \in Chats /\ d \in Chats /\ is \subseteq Item /\ c \in Folders /\ d \in Folders
  BY <1>f, <1>1, <1>2, FoldersFacts DEF Work, Clearing, Idle
<1>4. AllThere /\ There(c, is) /\ d \in live /\ Bare(d) /\ Sorts(is) /\ Single(is)
  BY <1>1, <1>2, Found DEF Orderly, InHand, Recording
<1>5. PICK fs : /\ fs = ((UNION {Uses(i) : i \in is}) \cap disk[c]) \ disk[d]
                /\ disk' = [disk EXCEPT ![d] = @ \cup fs]
                /\ Goes(t, [op |-> "branch", new |-> d, items |-> is])
  BY <1>2 DEF LinkFiles
<1>6. disk'[d] = disk[d] \cup fs /\ \A b \in Chats : disk[b] \subseteq disk'[b]
  BY <1>f, <1>3, <1>5, FoldersFacts DEF TypeOK
<1>7. There(d, is)'
  <2>1. SUFFICES ASSUME NEW i \in is, i.file # NoFile PROVE i.file \in disk'[d]
    BY DEF There
  <2>2. i.file \in disk[c] /\ i.file \in Files
    BY <1>f, <1>3, <1>4, <2>1 DEF There, TypeOK
  <2>3. i.file \in UNION {Uses(j) : j \in is}
    BY <2>2 DEF Uses
  <2>4. QED
    BY <1>5, <1>6, <2>2, <2>3
<1>8. reqs'[t] = [op |-> "branch", new |-> d, items |-> is]
  BY <1>f, <1>5
<1>9. Bare(d)' /\ d \in live'
  BY <1>1, <1>4, SameTables, FewerShown, LiveAre
<1>10. InHand(reqs[t])'
  BY <1>4, <1>7, <1>8, <1>9 DEF InHand, Recording, Removing
<1>11. Tables'
  BY <1>f, <1>1, SameTables, FewerSound, LiveAre DEF Tables
<1>12. AllThere'
  BY <1>f, <1>1, <1>4, <1>6, SameTables, StillThere
<1>13. QED
  BY <1>10, <1>11, <1>12, HeldAgain

LEMMA ThereBranch ==
  ASSUME Orderly, ThereInv, TypeOK', NEW t \in Handlers, Step(t), AddBranch(t)
  PROVE  Tables' /\ FilesHeld' /\ InHand(reqs[t])'
<1>f. TypeOK /\ Tables /\ reqs[t] \in Work /\ \A r : Goes(t, r) => reqs'[t] = r
  BY Found DEF Orderly
<1>1. /\ reqs[t].op = "branch" /\ NextRow \in Rows /\ reqs'[t] = Idle
      /\ UNCHANGED <<chats, entries, files, waiting>>
  BY <1>f DEF AddBranch, On
<1>2. PICK d, is : d = reqs[t].new /\ is = reqs[t].items
  OBVIOUS
<1>3. rows' = [rows EXCEPT ![NextRow] = [chat |-> d, items |-> is]] /\ is \in SUBSET Item
  BY <1>f, <1>1, <1>2 DEF AddBranch, Work, Clearing, Idle
<1>4. AllThere /\ There(d, is) /\ d \in live /\ Bare(d) /\ Sorts(is) /\ Single(is)
  BY <1>1, <1>2, Found DEF Orderly, InHand, Recording
<1>5. \A i \in is : ~ Shows(d, i.file)
  BY <1>4 DEF Bare, Shows, RowShows, EntryShows
<1>6. Tables'
  BY <1>f, <1>1, <1>3, <1>4, <1>5, NextRowFree, AddedSound DEF Tables
<1>7. AllThere'
  <2>1. /\ rows'[NextRow].chat = d /\ rows'[NextRow].items = is
        /\ \A m \in Rows : m # NextRow => rows'[m] = rows[m]
    BY <1>f, <1>1, <1>3 DEF TypeOK
  <2>2. QED
    BY <1>1, <1>4, <2>1 DEF AllThere, There, files
<1>8. QED
  BY <1>1, <1>6, <1>7, HeldAgain, IdleInHand

\* A chat's folder goes when nothing records what is in it.
LEMMA ThereDeleteChat ==
  ASSUME Orderly, ThereInv, TypeOK', NEW t \in Handlers, Step(t), AskDeleteChat(t) \/ TrashFolder(t)
  PROVE  Tables' /\ FilesHeld' /\ InHand(reqs[t])'
<1>f. TypeOK /\ Tables /\ reqs[t] \in Work /\ \A r : Goes(t, r) => reqs'[t] = r
  BY Found DEF Orderly
<1>1. CASE AskDeleteChat(t)
  <2>1. UNCHANGED <<files, waiting>> /\ reqs[t] = Idle
    BY <1>1 DEF AskDeleteChat, Starts
  <2>2. AllThere
    BY <2>1, Found DEF Orderly, Idle
  <2>3. PICK c : /\ c \in live /\ chats' = [chats EXCEPT ![c] = "gone"]
                 /\ rows' = [m \in Rows |-> IF m \in RowsOf(c) THEN NoRow ELSE rows[m]]
                 /\ entries' = {e \in entries : e.chat # c}
                 /\ Goes(t, [op |-> "trash", chat |-> c])
    BY <1>1 DEF AskDeleteChat
  <2>4. \A m \in Rows : rows'[m] # NoRow => rows'[m] = rows[m] /\ rows[m].chat # c
    BY <2>3 DEF RowsOf
  <2>5. Fewer /\ Bare(c)'
    BY <2>3, <2>4 DEF Fewer, Bare, RowsOf
  <2>6. \A d \in live : d \in live' \/ Bare(d)'
    <3>1. \A d \in live : d # c => d \in live'
      BY <1>f, <2>3 DEF live, TypeOK
    <3>2. QED
      BY <2>5, <3>1
  <2>7. Tables'
    BY <1>f, <2>1, <2>5, <2>6, FewerSound DEF Tables
  <2>8. AllThere'
    BY <1>f, <2>1, <2>2, <2>5, StillThere DEF files
  <2>9. reqs'[t] = [op |-> "trash", chat |-> c]
    BY <1>f, <2>3
  <2>10. InHand(reqs[t])'
    BY <2>5, <2>9 DEF InHand, Recording, Removing
  <2>11. QED
    BY <2>7, <2>8, <2>10, HeldAgain
<1>2. CASE TrashFolder(t)
  <2>1. reqs[t].op = "trash" /\ UNCHANGED <<chats, rows, entries, waiting>> /\ reqs'[t] = Idle
    BY <1>f, <1>2 DEF TrashFolder, On, store
  <2>2. PICK c : c = reqs[t].chat
    OBVIOUS
  <2>3. AllThere /\ Bare(c) /\ c \in Folders
    BY <1>f, <2>1, <2>2, Found, FoldersFacts DEF Orderly, InHand, Removing, Work, Clearing, Idle
  <2>4. Bare(c)'
    BY <2>1, <2>3, SameTables, FewerShown
  <2>5. \A d \in Folders : d # c => disk'[d] = disk[d]
    BY <1>f, <1>2, <2>2, <2>3 DEF TrashFolder, Removed, TypeOK
  <2>6. \A d \in Chats : \A f \in disk[d] : f \in disk'[d] \/ ~ Shows(d, f)'
    BY <2>4, <2>5, FoldersFacts DEF Bare, Shows, RowShows, EntryShows
  <2>7. Tables'
    BY <1>f, <2>1, SameTables, FewerSound, LiveAre DEF Tables
  <2>8. AllThere'
    BY <1>f, <2>1, <2>3, <2>6, SameTables, StillThere
  <2>9. QED
    BY <2>1, <2>7, <2>8, HeldAgain, IdleInHand
<1>3. QED
  BY <1>1, <1>2

\* What is resolved is rewritten in every row that shows it.
LEMMA ThereDelete ==
  ASSUME Orderly, ThereInv, TypeOK', NEW t \in Handlers, Step(t), AskDelete(t)
  PROVE  Tables' /\ FilesHeld' /\ InHand(reqs[t])'
<1>f. TypeOK /\ Tables /\ \A r : Goes(t, r) => reqs'[t] = r
  BY Found DEF Orderly
<1>1. UNCHANGED <<store, files, waiting>> /\ reqs[t] = Idle
  BY DEF AskDelete, Starts
<1>2. AllThere
  BY <1>1, Found DEF Orderly, Idle
<1>3. PICK d, f : /\ d \in Folders /\ f \in disk[d]
                  /\ Goes(t, IF d = Shelf THEN [op |-> "unlink", by |-> "delete", folder |-> d, file |-> f]
                             ELSE [op |-> "rewrite", chat |-> d, file |-> f, todo |-> Rewrites(d, f)])
  BY <1>1 DEF AskDelete
<1>4. Tables'
  BY <1>f, <1>1, SameTables, FewerSound, LiveAre DEF store, Tables
<1>5. AllThere'
  BY <1>f, <1>1, <1>2, SameTables, StillThere DEF store, files
<1>6. CASE d = Shelf
  <2>1. reqs'[t] = [op |-> "unlink", by |-> "delete", folder |-> d, file |-> f]
    BY <1>f, <1>3, <1>6
  <2>2. d \notin Chats
    BY <1>6, LibraryAssumption
  <2>3. InHand(reqs[t])'
    BY <2>1, <2>2 DEF InHand, Recording, Removing
  <2>4. QED
    BY <1>4, <1>5, <2>3, HeldAgain
<1>7. CASE d # Shelf
  <2>1. PICK todo : todo = Rewrites(d, f)
    OBVIOUS
  <2>2. reqs'[t] = [op |-> "rewrite", chat |-> d, file |-> f, todo |-> todo]
    BY <1>f, <1>3, <1>7, <2>1
  <2>3. /\ \A w \in todo : w.items \subseteq rows[w.row].items /\ \A i \in w.items : i.file # f
        /\ \A m \in RowsOf(d) : (\E i \in rows[m].items : i.file = f) => \E w \in todo : w.row = m
    <3>1. \A m \in RowsOf(d) : (\E i \in rows[m].items : i.file = f) =>
            [row |-> m, items |-> {i \in rows[m].items : i.file # f}] \in todo
      BY <2>1 DEF Rewrites
    <3>2. \A w \in todo : w.items = {i \in rows[w.row].items : i.file # f}
      BY <2>1 DEF Rewrites
    <3>3. QED
      BY <3>1, <3>2
  <2>4. rows' = rows /\ RowsOf(d)' = RowsOf(d)
    BY <1>1 DEF store, RowsOf
  <2>5. Removing(reqs[t])'
    BY <2>2, <2>3, <2>4 DEF Removing
  <2>6. Recording(reqs[t])'
    BY <2>2 DEF Recording
  <2>7. QED
    BY <1>4, <1>5, <2>5, <2>6, HeldAgain DEF InHand
<1>8. QED
  BY <1>6, <1>7

LEMMA ThereRewrite ==
  ASSUME Orderly, ThereInv, TypeOK', NEW t \in Handlers, Step(t), Rewrite(t)
  PROVE  Tables' /\ FilesHeld' /\ InHand(reqs[t])'
<1>f. TypeOK /\ Tables /\ reqs[t] \in Work /\ \A r : Goes(t, r) => reqs'[t] = r
  BY Found DEF Orderly
<1>1. reqs[t].op = "rewrite" /\ UNCHANGED <<chats, entries, files, waiting>>
  BY DEF Rewrite, On
<1>2. PICK d, f, todo : d = reqs[t].chat /\ f = reqs[t].file /\ todo = reqs[t].todo
  OBVIOUS
<1>3. reqs[t] = [op |-> "rewrite", chat |-> d, file |-> f, todo |-> todo] /\ todo \subseteq Todo
  BY <1>f, <1>1, <1>2 DEF Work, Clearing, Idle
<1>4. PICK w \in todo :
        /\ rows' = IF rows[w.row] = NoRow THEN rows ELSE [rows EXCEPT ![w.row].items = w.items]
        /\ Goes(t, [reqs[t] EXCEPT !.todo = @ \ {w}])
  BY <1>2 DEF Rewrite
<1>5. reqs'[t] = [op |-> "rewrite", chat |-> d, file |-> f, todo |-> todo \ {w}]
  BY <1>f, <1>3, <1>4
<1>6. /\ AllThere
      /\ \A v \in todo : /\ rows[v.row] # NoRow => v.items \subseteq rows[v.row].items
                         /\ \A i \in v.items : i.file # f
      /\ \A m \in RowsOf(d) : (\E i \in rows[m].items : i.file = f) => \E v \in todo : v.row = m
  BY <1>1, <1>2, Found DEF Orderly, InHand, Removing
<1>7. \A v \in todo : v.row = w.row => v = w
  BY <1>1, <1>2 DEF ThereInv, RowsInv, AsRead
<1>8. /\ \A m \in Rows : m # w.row => rows'[m] = rows[m]
      /\ rows[w.row] = NoRow => rows'[w.row] = NoRow
      /\ rows[w.row] # NoRow => /\ rows'[w.row] # NoRow /\ rows'[w.row].chat = rows[w.row].chat
                                /\ rows'[w.row].items = w.items
  <2>1. w.row \in Rows /\ w.items \subseteq Item
    BY <1>3 DEF Todo
  <2>2. CASE rows[w.row] = NoRow
    BY <1>4, <2>2
  <2>3. CASE rows[w.row] # NoRow
    <3>1. rows' = [rows EXCEPT ![w.row] = [rows[w.row] EXCEPT !.items = w.items]]
      BY <1>4, <2>3
    <3>2. rows[w.row] \in Row /\ [rows[w.row] EXCEPT !.items = w.items] \in Row
      BY <1>f, <2>1, <2>3, RowFields DEF Row
    <3>3. QED
      BY <1>f, <2>1, <2>3, <3>1, <3>2, LibraryAssumption DEF TypeOK, Row
  <2>4. QED
    BY <2>2, <2>3
<1>9. Fewer
  BY <1>1, <1>6, <1>8 DEF Fewer
<1>10. Tables'
  BY <1>f, <1>1, <1>9, FewerSound, LiveAre DEF Tables
<1>11. AllThere'
  BY <1>f, <1>1, <1>6, <1>9, StillThere DEF files
<1>12. \A v \in todo \ {w} : /\ rows'[v.row] # NoRow => v.items \subseteq rows'[v.row].items
                             /\ \A i \in v.items : i.file # f
  <2>1. \A v \in todo \ {w} : v.row \in Rows /\ v.row # w.row
    BY <1>3, <1>7 DEF Todo
  <2>2. QED
    BY <1>6, <1>8, <2>1
<1>13. ASSUME NEW m \in RowsOf(d)', \E i \in rows'[m].items : i.file = f
       PROVE  \E v \in todo \ {w} : v.row = m
  <2>1. m # w.row
    BY <1>6, <1>8, <1>13 DEF RowsOf
  <2>2. m \in RowsOf(d) /\ rows'[m] = rows[m]
    BY <1>8, <1>13, <2>1 DEF RowsOf
  <2>3. QED
    BY <1>6, <1>13, <2>1, <2>2
<1>14. Removing(reqs[t])'
  BY <1>5, <1>12, <1>13 DEF Removing
<1>15. Recording(reqs[t])'
  BY <1>5 DEF Recording
<1>16. QED
  BY <1>10, <1>11, <1>14, <1>15, HeldAgain DEF InHand

\* The entries go last, and with them the last that shows the file.
LEMMA ThereDrop ==
  ASSUME Orderly, ThereInv, TypeOK', NEW t \in Handlers, Step(t), DropEntries(t)
  PROVE  Tables' /\ FilesHeld' /\ InHand(reqs[t])'
<1>f. TypeOK /\ Tables /\ reqs[t] \in Work /\ \A r : Goes(t, r) => reqs'[t] = r
  BY Found DEF Orderly
<1>1. reqs[t].op = "rewrite" /\ reqs[t].todo = {} /\ UNCHANGED <<chats, rows, files, waiting>>
  BY DEF DropEntries, On
<1>2. PICK d, f : d = reqs[t].chat /\ f = reqs[t].file
  OBVIOUS
<1>3. /\ entries' = {e \in entries : ~ (e.chat = d /\ e.item.file = f)}
      /\ reqs'[t] = [op |-> "unlink", by |-> "delete", folder |-> d, file |-> f]
  BY <1>f, <1>2 DEF DropEntries, OtherEntries
<1>4. AllThere /\ ~ RowShows(d, f)
  BY <1>1, <1>2, Found DEF Orderly, InHand, Removing, RowShows
<1>5. Fewer
  BY <1>1, <1>3 DEF Fewer
<1>6. ~ Shows(d, f)'
  <2>1. ~ RowShows(d, f)'
    BY <1>4, <1>5, FewerShown
  <2>2. QED
    BY <1>3, <2>1 DEF Shows, EntryShows
<1>7. InHand(reqs[t])'
  BY <1>3, <1>6 DEF InHand, Recording, Removing
<1>8. Tables'
  BY <1>f, <1>1, <1>5, FewerSound, LiveAre DEF Tables
<1>9. AllThere'
  BY <1>f, <1>1, <1>4, <1>5, StillThere DEF files
<1>10. QED
  BY <1>7, <1>8, <1>9, HeldAgain

\* An entry is the only one that shows its file.
LEMMA ThereEntry ==
  ASSUME Orderly, ThereInv, TypeOK', NEW t \in Handlers, Step(t), DeleteEntry(t)
  PROVE  Tables' /\ FilesHeld' /\ InHand(reqs[t])'
<1>f. TypeOK /\ Tables /\ \A r : Goes(t, r) => reqs'[t] = r
  BY Found DEF Orderly
<1>1. UNCHANGED <<chats, rows, files, waiting>> /\ reqs[t] = Idle
  BY DEF DeleteEntry, Starts
<1>2. AllThere
  BY <1>1, Found DEF Orderly, Idle
<1>3. PICK e \in entries :
        /\ entries' = entries \ {e}
        /\ Goes(t, [op |-> "unlink", by |-> "entry", folder |-> e.chat, file |-> e.item.file])
  BY DEF DeleteEntry
<1>4. reqs'[t] = [op |-> "unlink", by |-> "entry", folder |-> e.chat, file |-> e.item.file]
  BY <1>f, <1>3
<1>5. Fewer
  BY <1>1, <1>3 DEF Fewer
<1>6. ~ Shows(e.chat, e.item.file)'
  <2>1. ~ RowShows(e.chat, e.item.file) /\ \A o \in entries : o.chat = e.chat /\ o.item.file = e.item.file => o = e
    BY <1>f DEF Tables, EntriesSound
  <2>2. ~ RowShows(e.chat, e.item.file)'
    BY <1>5, <2>1, FewerShown
  <2>3. QED
    BY <1>3, <2>1, <2>2 DEF Shows, EntryShows
<1>7. PICK d, f : d = e.chat /\ f = e.item.file
  OBVIOUS
<1>8. InHand(reqs[t])'
  BY <1>4, <1>6, <1>7 DEF InHand, Recording, Removing
<1>9. Tables'
  BY <1>f, <1>1, <1>5, FewerSound, LiveAre DEF Tables
<1>10. AllThere'
  BY <1>f, <1>1, <1>2, <1>5, StillThere DEF files
<1>11. QED
  BY <1>8, <1>9, <1>10, HeldAgain

LEMMA ThereDiscard ==
  ASSUME Orderly, ThereInv, TypeOK', NEW t \in Handlers, Step(t), AskDiscard(t)
  PROVE  Tables' /\ FilesHeld' /\ InHand(reqs[t])'
<1>f. TypeOK /\ Tables /\ \A r : Goes(t, r) => reqs'[t] = r
  BY Found DEF Orderly
<1>1. UNCHANGED <<store, files>> /\ reqs[t] = Idle
  BY DEF AskDiscard, Starts
<1>2. AllThere
  BY <1>1, Found DEF Orderly, Idle
<1>3. PICK c, f : /\ c \in live /\ f \in disk[c] \cap Uploads /\ ~ InUse(c, f)
                  /\ Goes(t, [op |-> "unlink", by |-> "discard", folder |-> c, file |-> f])
                  /\ waiting' = [waiting EXCEPT ![c] = @ \ {f}]
  BY DEF AskDiscard
<1>4. reqs'[t] = [op |-> "unlink", by |-> "discard", folder |-> c, file |-> f]
  BY <1>f, <1>3
<1>5. Fewer
  BY <1>1, SameTables DEF store
<1>6. ~ Shows(c, f)
  <2>1. f \in Files
    BY <1>3 DEF Files
  <2>2. QED
    BY <1>3, <2>1 DEF Shows, RowShows, EntryShows, InUse, Uses
<1>7. ~ Shows(c, f)'
  BY <1>5, <1>6, FewerShown
<1>8. InHand(reqs[t])'
  BY <1>4, <1>7 DEF InHand, Recording, Removing
<1>9. \A d \in Chats : waiting'[d] \subseteq Uploads
  BY <1>f, <1>3 DEF Tables, TypeOK
<1>10. Tables'
  BY <1>f, <1>1, <1>5, <1>9, FewerSound, LiveAre DEF store
<1>11. AllThere'
  BY <1>f, <1>1, <1>2, <1>5, StillThere DEF files
<1>12. QED
  BY <1>8, <1>10, <1>11, HeldAgain

LEMMA ThereUnlink ==
  ASSUME Orderly, ThereInv, TypeOK', NEW t \in Handlers, Step(t), Unlink(t)
  PROVE  Tables' /\ FilesHeld' /\ InHand(reqs[t])'
<1>f. TypeOK /\ Tables /\ reqs[t] \in Work /\ \A r : Goes(t, r) => reqs'[t] = r
  BY Found DEF Orderly
<1>1. reqs[t].op = "unlink" /\ UNCHANGED <<chats, rows, entries, waiting>> /\ reqs'[t] = Idle
  BY <1>f DEF Unlink, On, store
<1>2. PICK d, f : d = reqs[t].folder /\ f = reqs[t].file
  OBVIOUS
<1>3. d \in Folders /\ disk' = [disk EXCEPT ![d] = @ \ {f}]
  BY <1>f, <1>1, <1>2 DEF Unlink, Removed, Work, Clearing, Idle
<1>4. AllThere /\ (d \in Chats => ~ Shows(d, f))
  BY <1>1, <1>2, Found DEF Orderly, InHand, Removing
<1>5. d \in Chats => ~ Shows(d, f)'
  BY <1>1, <1>4, SameTables, FewerShown
<1>6. \A c \in Chats : \A g \in disk[c] : g \in disk'[c] \/ ~ Shows(c, g)'
  BY <1>f, <1>3, <1>5, FoldersFacts DEF TypeOK
<1>7. Tables'
  BY <1>f, <1>1, SameTables, FewerSound, LiveAre DEF Tables
<1>8. AllThere'
  BY <1>f, <1>1, <1>4, <1>6, SameTables, StillThere
<1>9. QED
  BY <1>1, <1>7, <1>8, HeldAgain, IdleInHand

\* A clearing finds black pictures, and in one row and one item each; an entry that
\* shows one is the only thing that does.
LEMMA ThereAskClear ==
  ASSUME Orderly, ThereInv, TypeOK', NEW t \in Handlers, Step(t), AskClear(t)
  PROVE  Tables' /\ FilesHeld' /\ InHand(reqs[t])'
<1>f. TypeOK /\ Tables /\ \A r : Goes(t, r) => reqs'[t] = r
  BY Found DEF Orderly
<1>1. UNCHANGED <<store, files, waiting>> /\ reqs[t] = Idle
  BY DEF AskClear, Starts
<1>2. AllThere
  BY <1>1, Found DEF Orderly, Idle
<1>3. PICK found, left, gone, todo :
        /\ found = [c \in Chats |-> {i \in UNION {rows[m].items : m \in RowsOf(c)} : Blocked(c, i)}]
        /\ left = {p \in Chats \X Files : \E i \in found[p[1]] : i.file = p[2]}
        /\ gone = {e \in entries : Blocked(e.chat, e.item)}
        /\ todo = {m \in Rows : rows[m] # NoRow /\ rows[m].items \cap found[rows[m].chat] # {}}
        /\ Goes(t, [op |-> "clear", found |-> found, left |-> left, gone |-> gone, todo |-> todo])
  BY Zenon DEF AskClear
<1>4. reqs'[t] = [op |-> "clear", found |-> found, left |-> left, gone |-> gone, todo |-> todo]
  BY <1>f, <1>3
<1>5. \A c \in Chats : \A i \in found[c] : Blocked(c, i) /\ \E m \in RowsOf(c) : i \in rows[m].items
  BY <1>3
<1>6. ASSUME NEW p \in left
      PROVE  /\ ~ EntryShows(p[1], p[2])
             /\ \A m \in RowsOf(p[1]) : \A i \in rows[m].items : i.file = p[2] => m \in todo /\ i \in found[p[1]]
  <2>1. PICK c \in Chats, f \in Files : c = p[1] /\ f = p[2]
    BY <1>3
  <2>2. PICK j \in found[c] : j.file = f
    BY <1>3, <2>1
  <2>3. f \in Made
    <3>1. f # NoFile
      BY LibraryAssumption
    <3>2. QED
      BY <1>5, <2>2, <3>1, LibraryAssumption DEF Blocked
  <2>4. PICK n \in RowsOf(c) : j \in rows[n].items
    BY <1>5, <2>2
  <2>5. ~ EntryShows(c, f)
    BY <1>f, <2>2, <2>4 DEF Tables, EntriesSound, EntryShows, RowShows
  <2>6. ASSUME NEW m \in RowsOf(c), NEW i \in rows[m].items, i.file = f
        PROVE  m \in todo /\ i \in found[c]
    <3>1. n = m
      BY <1>f, <2>2, <2>3, <2>4, <2>6 DEF Tables, RowsSound, RowsOf
    <3>2. j = i
      BY <1>f, <2>2, <2>3, <2>4, <2>6, <3>1 DEF Tables, RowsSound, Single, RowsOf
    <3>3. QED
      BY <1>3, <2>2, <2>4, <3>1, <3>2, <2>6 DEF RowsOf
  <2>7. QED
    BY <2>1, <2>5, <2>6
<1>7. Tables'
  BY <1>f, <1>1, SameTables, FewerSound, LiveAre DEF store, Tables
<1>8. AllThere'
  BY <1>f, <1>1, <1>2, SameTables, StillThere DEF store, files
<1>9. Recording(reqs[t])'
  BY <1>4 DEF Recording
<1>10. Removing(reqs[t])'
  <2>1. UNCHANGED <<rows, entries>> /\ gone \subseteq entries
    BY <1>1, <1>3 DEF store
  <2>2. /\ reqs'[t].op = "clear" /\ reqs'[t].found = found /\ reqs'[t].left = left
        /\ reqs'[t].gone = gone /\ reqs'[t].todo = todo
    BY <1>4
  <2>3. QED
    BY <1>6, <2>1, <2>2 DEF Removing, EntryShows, RowsOf
<1>11. QED
  BY <1>7, <1>8, <1>9, <1>10, HeldAgain DEF InHand

\* What a clearing holds, and what it has left to do.
LEMMA ClearFound ==
  ASSUME Orderly, ThereInv, NEW t \in Handlers, Step(t), On(t, "clear")
  PROVE  /\ reqs[t] \in Clearing /\ Removing(reqs[t])
         /\ \A m \in Rows : rows[m] # NoRow => \A i \in rows[m].items :
              \/ i.file \in disk[rows[m].chat] \cup {NoFile}
              \/ m \in reqs[t].todo /\ i \in reqs[t].found[rows[m].chat]
         /\ \A e \in entries : e.item.file \in disk[e.chat]
<1>1. \A u \in Handlers : u # t => reqs[u].op # "clear"
  BY OthersIdle DEF Orderly, ThereInv, Idle
<1>2. Typed /\ FilesHeld /\ InHand(reqs[t])
  BY Found DEF Orderly
<1>3. QED
  BY <1>1, <1>2, InClearing DEF FilesHeld, InHand

\* A file goes that nothing shows but what is about to be taken from its row.
LEMMA ThereClearFile ==
  ASSUME Orderly, ThereInv, TypeOK', NEW t \in Handlers, Step(t), ClearFile(t)
  PROVE  Tables' /\ FilesHeld' /\ InHand(reqs[t])'
<1>f. TypeOK /\ Tables /\ \A r : Goes(t, r) => reqs'[t] = r
  BY Found DEF Orderly
<1>1. On(t, "clear") /\ UNCHANGED <<chats, rows, entries, waiting>>
  BY DEF ClearFile, store
<1>2. PICK r : r = reqs[t]
  OBVIOUS
<1>3. /\ r \in Clearing /\ Removing(r)
      /\ \A m \in Rows : rows[m] # NoRow => \A i \in rows[m].items :
           \/ i.file \in disk[rows[m].chat] \cup {NoFile}
           \/ m \in r.todo /\ i \in r.found[rows[m].chat]
      /\ \A e \in entries : e.item.file \in disk[e.chat]
  BY <1>1, <1>2, ClearFound
<1>4. PICK p \in r.left : Removed(p[1], {p[2]}) /\ Goes(t, [r EXCEPT !.left = @ \ {p}])
  BY <1>2 DEF ClearFile
<1>5. PICK c \in Chats, f \in Files : c = p[1] /\ f = p[2]
  BY <1>3 DEF Clearing
<1>6. \A d \in Chats : \A g \in disk[d] : g \in disk'[d] \/ (d = c /\ g = f)
  BY <1>f, <1>4, <1>5, FoldersFacts DEF Removed, TypeOK
<1>7. /\ reqs'[t].op = "clear" /\ reqs'[t].found = r.found /\ reqs'[t].left \subseteq r.left
      /\ reqs'[t].gone = r.gone /\ reqs'[t].todo = r.todo
  <2>1. reqs'[t] = [r EXCEPT !.left = @ \ {p}]
    BY <1>f, <1>4
  <2>2. QED
    BY <1>3, <2>1 DEF Clearing
<1>8. /\ ~ EntryShows(c, f)
      /\ \A m \in RowsOf(c) : \A i \in rows[m].items : i.file = f => m \in r.todo /\ i \in r.found[c]
  BY <1>3, <1>5 DEF Removing, Clearing
<1>9. ASSUME NEW m \in Rows, rows[m] # NoRow, NEW i \in rows[m].items
      PROVE  \/ i.file \in disk'[rows[m].chat] \cup {NoFile}
             \/ m \in r.todo /\ i \in r.found[rows[m].chat]
  <2>1. rows[m].chat \in Chats
    BY <1>f, <1>9, RowFields
  <2>2. QED
    BY <1>3, <1>6, <1>8, <1>9, <2>1 DEF RowsOf
<1>10. ASSUME NEW e \in entries PROVE e.item.file \in disk'[e.chat]
  <2>1. e.chat \in Chats
    BY <1>f DEF TypeOK, Entry
  <2>2. QED
    BY <1>3, <1>6, <1>8, <2>1 DEF EntryShows
<1>11. FilesHeld'
  BY <1>1, <1>7, <1>9, <1>10 DEF FilesHeld
<1>12. Tables'
  BY <1>f, <1>1, SameTables, FewerSound, LiveAre DEF Tables
<1>13. Removing(reqs[t])'
  BY <1>1, <1>3, <1>7 DEF Removing, Clearing, EntryShows, RowsOf
<1>14. Recording(reqs[t])'
  BY <1>7 DEF Recording
<1>15. QED
  BY <1>11, <1>12, <1>13, <1>14 DEF InHand

\* An entry is the only one that shows its file, which goes next.
LEMMA ThereClearEntry ==
  ASSUME Orderly, ThereInv, TypeOK', NEW t \in Handlers, Step(t), ClearEntry(t)
  PROVE  Tables' /\ FilesHeld' /\ InHand(reqs[t])'
<1>f. TypeOK /\ Tables /\ \A r : Goes(t, r) => reqs'[t] = r
  BY Found DEF Orderly
<1>1. On(t, "clear") /\ UNCHANGED <<chats, rows, files, waiting>>
  BY DEF ClearEntry
<1>2. PICK r : r = reqs[t]
  OBVIOUS
<1>3. /\ r \in Clearing /\ Removing(r)
      /\ \A m \in Rows : rows[m] # NoRow => \A i \in rows[m].items :
           \/ i.file \in disk[rows[m].chat] \cup {NoFile}
           \/ m \in r.todo /\ i \in r.found[rows[m].chat]
      /\ \A e \in entries : e.item.file \in disk[e.chat]
  BY <1>1, <1>2, ClearFound
<1>4. PICK e \in r.gone :
        /\ entries' = entries \ {e}
        /\ Goes(t, [r EXCEPT !.gone = @ \ {e}, !.left = {<<e.chat, e.item.file>>} \cap (Chats \X Files)])
  BY <1>2 DEF ClearEntry
<1>5. e \in entries /\ r.gone \subseteq entries
  BY <1>3 DEF Removing, Clearing
<1>6. PICK left \in SUBSET (Chats \X Files) : left = {<<e.chat, e.item.file>>} \cap (Chats \X Files)
  OBVIOUS
<1>7. /\ reqs'[t].op = "clear" /\ reqs'[t].found = r.found /\ reqs'[t].left = left
      /\ reqs'[t].gone = r.gone \ {e} /\ reqs'[t].todo = r.todo
  <2>1. reqs'[t] = [r EXCEPT !.gone = @ \ {e}, !.left = left]
    BY <1>f, <1>4, <1>6
  <2>2. QED
    BY <1>3, <2>1 DEF Clearing
<1>8. Fewer
  BY <1>1, <1>4 DEF Fewer
<1>9. /\ ~ RowShows(e.chat, e.item.file)
      /\ \A o \in entries' : ~ (o.chat = e.chat /\ o.item.file = e.item.file)
  BY <1>f, <1>4, <1>5 DEF Tables, EntriesSound
<1>10. FilesHeld'
  <2>1. \A o \in entries' : o \in entries
    BY <1>4
  <2>2. QED
    BY <1>1, <1>3, <1>7, <2>1 DEF FilesHeld, files
<1>11. Tables'
  BY <1>f, <1>1, <1>8, FewerSound, LiveAre DEF Tables
<1>12. Removing(reqs[t])'
  <2>1. \A p \in left : p[1] = e.chat /\ p[2] = e.item.file
    BY <1>6
  <2>2. r.gone \ {e} \subseteq entries'
    BY <1>4, <1>5
  <2>3. \A p \in left : ~ RowShows(p[1], p[2]) /\ ~ EntryShows(p[1], p[2])'
    BY <1>9, <2>1 DEF EntryShows
  <2>4. \A p \in left : \A m \in RowsOf(p[1])' : \A i \in rows'[m].items : i.file # p[2]
    BY <1>1, <2>3 DEF RowShows, RowsOf
  <2>5. QED
    BY <1>7, <2>2, <2>3, <2>4 DEF Removing
<1>13. Recording(reqs[t])'
  BY <1>7 DEF Recording
<1>14. QED
  BY <1>10, <1>11, <1>12, <1>13 DEF InHand

LEMMA ThereEndClear ==
  ASSUME Orderly, ThereInv, TypeOK', NEW t \in Handlers, Step(t), EndClear(t)
  PROVE  Tables' /\ FilesHeld' /\ InHand(reqs[t])'
<1>f. TypeOK /\ Tables /\ \A r : Goes(t, r) => reqs'[t] = r
  BY Found DEF Orderly
<1>1. On(t, "clear") /\ reqs[t].todo = {} /\ UNCHANGED <<store, files, waiting>> /\ reqs'[t] = Idle
  BY <1>f DEF EndClear
<1>2. AllThere'
  BY <1>1, ClearFound DEF AllThere, There, store, files
<1>3. Tables'
  BY <1>f, <1>1, SameTables, FewerSound, LiveAre DEF Tables, store
<1>4. QED
  BY <1>1, <1>2, <1>3, HeldAgain, IdleInHand

LEMMA ThereClearRow ==
  ASSUME Orderly, ThereInv, TypeOK', NEW t \in Handlers, Step(t), ClearRow(t)
  PROVE  Tables' /\ FilesHeld' /\ InHand(reqs[t])'
<1>f. TypeOK /\ Tables /\ \A r : Goes(t, r) => reqs'[t] = r
  BY Found DEF Orderly
<1>1. On(t, "clear") /\ UNCHANGED <<chats, entries, files, waiting>>
  BY DEF ClearRow
<1>2. PICK r : r = reqs[t]
  OBVIOUS
<1>3. /\ r \in Clearing /\ r.left = {} /\ r.gone = {}
      /\ \A m \in Rows : rows[m] # NoRow => \A i \in rows[m].items :
           \/ i.file \in disk[rows[m].chat] \cup {NoFile}
           \/ m \in r.todo /\ i \in r.found[rows[m].chat]
      /\ \A e \in entries : e.item.file \in disk[e.chat]
  BY <1>1, <1>2, ClearFound DEF ClearRow
<1>4. PICK m \in r.todo :
        /\ rows' = IF rows[m] = NoRow THEN rows ELSE [rows EXCEPT ![m].items = @ \ r.found[rows[m].chat]]
        /\ Goes(t, [r EXCEPT !.todo = @ \ {m}])
  BY <1>2 DEF ClearRow
<1>5. /\ reqs'[t].op = "clear" /\ reqs'[t].found = r.found /\ reqs'[t].left = {}
      /\ reqs'[t].gone = {} /\ reqs'[t].todo = r.todo \ {m}
  <2>1. reqs'[t] = [r EXCEPT !.todo = @ \ {m}]
    BY <1>f, <1>4
  <2>2. QED
    BY <1>3, <2>1 DEF Clearing
<1>6. m \in Rows
  BY <1>3 DEF Clearing
<1>7. /\ \A n \in Rows : n # m => rows'[n] = rows[n]
      /\ rows[m] = NoRow => rows'[m] = NoRow
      /\ rows[m] # NoRow => /\ rows'[m] # NoRow /\ rows'[m].chat = rows[m].chat
                            /\ rows'[m].items = rows[m].items \ r.found[rows[m].chat]
  <2>1. CASE rows[m] = NoRow
    BY <1>4, <2>1
  <2>2. CASE rows[m] # NoRow
    <3>1. rows' = [rows EXCEPT ![m] = [rows[m] EXCEPT !.items = rows[m].items \ r.found[rows[m].chat]]]
      BY <1>4, <2>2
    <3>2. rows[m] \in Row
      BY <1>f, <1>6, <2>2, RowFields
    <3>3. [rows[m] EXCEPT !.items = rows[m].items \ r.found[rows[m].chat]] \in Row
      BY <3>2 DEF Row
    <3>4. QED
      BY <1>f, <1>6, <2>2, <3>1, <3>2, <3>3, LibraryAssumption DEF TypeOK, Row
  <2>3. QED
    BY <2>1, <2>2
<1>8. Fewer
  BY <1>1, <1>7 DEF Fewer
<1>9. Tables'
  BY <1>f, <1>1, <1>8, FewerSound, LiveAre DEF Tables
<1>10. ASSUME NEW n \in Rows, rows'[n] # NoRow, NEW i \in rows'[n].items
       PROVE  \/ i.file \in disk'[rows'[n].chat] \cup {NoFile}
              \/ n \in r.todo \ {m} /\ i \in r.found[rows'[n].chat]
  <2>1. disk' = disk
    BY <1>1 DEF files
  <2>2. QED
    BY <1>3, <1>6, <1>7, <1>10, <2>1
<1>11. FilesHeld'
  BY <1>1, <1>3, <1>5, <1>10 DEF FilesHeld, files
<1>12. InHand(reqs[t])'
  BY <1>5 DEF InHand, Recording, Removing
<1>13. QED
  BY <1>9, <1>11, <1>12

LEMMA ThereStep ==
  ASSUME Orderly, ThereInv, TypeOK', NEW t \in Handlers, Step(t)
  PROVE  Tables' /\ FilesHeld' /\ \A u \in Handlers : InHand(reqs[u])'
<1>1. Tables' /\ FilesHeld' /\ InHand(reqs[t])'
  <2>1. CASE NewChat(t) \/ AttachFile(t) \/ ImportFile(t) \/ UploadToShelf(t)
    BY <2>1, ThereUploads
  <2>2. CASE AskSend(t) \/ Send(t)
    BY <2>2, ThereSend
  <2>3. CASE Generate(t) \/ RecordMade(t) \/ DeleteExchange(t)
    BY <2>3, ThereGenerate, ThereRecord, ThereExchange
  <2>4. CASE AskFork(t) \/ LinkFiles(t) \/ AddBranch(t)
    BY <2>4, ThereAskFork, ThereLink, ThereBranch
  <2>5. CASE AskDeleteChat(t) \/ TrashFolder(t)
    BY <2>5, ThereDeleteChat
  <2>6. CASE AskDelete(t) \/ Rewrite(t) \/ DropEntries(t)
    BY <2>6, ThereDelete, ThereRewrite, ThereDrop
  <2>7. CASE DeleteEntry(t) \/ AskDiscard(t) \/ Unlink(t)
    BY <2>7, ThereEntry, ThereDiscard, ThereUnlink
  <2>8. CASE AskClear(t) \/ ClearFile(t) \/ ClearEntry(t) \/ ClearRow(t) \/ EndClear(t)
    BY <2>8, ThereAskClear, ThereClearFile, ThereClearEntry, ThereClearRow, ThereEndClear
  <2>9. QED
    BY <2>1, <2>2, <2>3, <2>4, <2>5, <2>6, <2>7, <2>8 DEF Step
<1>2. \A u \in Handlers : u # t => reqs'[u] = Idle
  BY OthersIdle DEF Orderly, ThereInv
<1>3. QED
  BY <1>1, <1>2, IdleInHand

\* Nothing that a lister or the clock does is of interest.
LEMMA ThereElse ==
  ASSUME ThereInv, AskList \/ ReadSecond \/ ScanFolders \/ KeepList \/ Tick \/ UNCHANGED vars
  PROVE  Tables' /\ FilesHeld' /\ \A u \in Handlers : InHand(reqs[u])'
<1>1. UNCHANGED <<chats, rows, entries, disk, waiting>>
  BY DEF AskList, ReadSecond, ScanFolders, KeepList, Tick, vars, store, files
<1>2. \A t \in Handlers : reqs'[t] = reqs[t]
  <2>1. (\E r : Goes(Lister, r)) \/ UNCHANGED reqs
    BY DEF AskList, ReadSecond, ScanFolders, KeepList, Tick, vars
  <2>2. QED
    BY <2>1, LibraryAssumption DEF Goes, ThereInv, RowsInv, Typed, RequestsTyped
<1>3. Tables'
  BY <1>1 DEF ThereInv, Tables, RowsSound, EntriesSound, live, RowShows, RowsOf
<1>4. FilesHeld'
  BY <1>1, <1>2 DEF ThereInv, FilesHeld
<1>5. ASSUME NEW u \in Handlers PROVE InHand(reqs[u])'
  <2>1. InHand(reqs[u])
    BY DEF ThereInv
  <2>2. QED
    BY <1>1, <1>2, <2>1 DEF InHand, Recording, Removing, There, Bare, Shows, RowShows, EntryShows, RowsOf, live
<1>6. QED
  BY <1>3, <1>4, <1>5

LEMMA ThereInit == Init => ThereInv
<1>1. SUFFICES ASSUME Init PROVE Tables /\ FilesHeld /\ \A t \in Handlers : InHand(reqs[t])
  BY RowsInvInit DEF ThereInv
<1>2. rows = [m \in Rows |-> NoRow] /\ entries = {} /\ waiting = [c \in Chats |-> {}] /\ \A t \in Handlers : reqs[t] = Idle
  BY <1>1 DEF Init
<1>3. QED
  BY <1>2, IdleInHand DEF Tables, RowsSound, EntriesSound, FilesHeld

LEMMA ThereKept == ASSUME Orderly PROVE ThereInv /\ [Next]_vars => ThereInv'
<1>1. SUFFICES ASSUME ThereInv, [Next]_vars PROVE ThereInv'
  OBVIOUS
<1>2. RowsInv'
  BY <1>1, RowsInvStep DEF ThereInv, Orderly
<1>3. Tables' /\ FilesHeld' /\ \A t \in Handlers : InHand(reqs[t])'
  <2>1. CASE \E t \in Handlers : Step(t)
    BY <1>1, <1>2, <2>1, ThereStep DEF RowsInv, Typed
  <2>2. CASE AskList \/ ReadSecond \/ ScanFolders \/ KeepList \/ Tick \/ UNCHANGED vars
    BY <1>1, <2>2, ThereElse
  <2>3. QED
    BY <1>1, <2>1, <2>2 DEF Next
<1>4. QED
  BY <1>2, <1>3 DEF ThereInv

\* While one request runs at a time and no chat's own picture is attached to its
\* prompts again, what a message or an entry shows is in its chat's folder whenever
\* none is under way: a file is removed after it is taken from everything that shows
\* it (api_delete_media and api_clear_blocked in media.py, api_discard_attachment,
\* delete_conversation).  With two at a time a message is sent while the folder
\* goes; and when the blocked pictures are cleared, one that was attached again
\* goes from the reply that made it and stays in the prompt.
THEOREM FilesAreThere == ASSUME Orderly PROVE Spec => []FilesThere
<1>1. ThereInv => FilesThere
  <2>1. SUFFICES ASSUME ThereInv, AtRest
                 PROVE  /\ \A c \in Chats : \A m \in RowsOf(c) : \A i \in rows[m].items : i.file \in disk[c] \cup {NoFile}
                        /\ \A e \in entries : e.item.file \in disk[e.chat]
    BY DEF FilesThere
  <2>2. \A t \in Handlers : reqs[t].op # "clear"
    BY <2>1 DEF AtRest, Idle
  <2>3. QED
    BY <2>1, <2>2 DEF ThereInv, FilesHeld, RowsOf
<1>2. QED
  BY <1>1, ThereInit, ThereKept, PTL DEF Spec

-----------------------------------------------------------------------------
(* What a list does not miss *)

\* A file that was recorded in a chat when the list was asked for.
Had(r, c, f) == \E i : <<c, i>> \in r.had /\ i.file = f

\* One that is as old, but was not in what was read, or is not listed.
Overlooked(r, c, f) ==
  /\ Had(r, c, f) /\ f \in disk[c] /\ since[c][f] < r.at
  /\ IF r.op = "keep" THEN \A e \in r.items : e.file # f
                      ELSE \A s \in r.read : ~ (s.chat = c /\ s.item.file = f)

\* It is a picture whose message had gone: its entry went too before the second read,
\* and nothing records the picture again.
Settled(r) ==
  \A c \in Chats, f \in Files : Overlooked(r, c, f) =>
    /\ f \in Made /\ ~ RowShows(c, f)
    /\ r.op # "list" => ~ EntryShows(c, f)

\* What a request is about to record is younger than the list, or in another chat.
Newer(r) ==
  /\ \A c \in Chats, f \in Paths : Had(r, c, f) => chats[c] # "new"
  /\ \A t \in Handlers :
       /\ reqs[t].op = "made" => \A c \in Chats, f \in Files :
            c = rows[reqs[t].row].chat /\ f = reqs[t].item.file /\ Had(r, c, f) => r.at <= since[c][f]
       /\ reqs[t].op \in {"link", "branch"} => \A f \in Paths : ~ Had(r, reqs[t].new, f)

ListWhole == reqs[Lister] # Idle => Settled(reqs[Lister]) /\ Newer(reqs[Lister])

\* The invariant of what is listed.
WholeInv == ThereInv /\ ListInv /\ ListWhole

\* A row that is written.
LEMMA Trimmed ==
  ASSUME TypeOK, NEW m \in Rows, NEW is \in SUBSET Item,
         rows' = IF rows[m] = NoRow THEN rows ELSE [rows EXCEPT ![m].items = is]
  PROVE  /\ \A n \in Rows : n # m => rows'[n] = rows[n]
         /\ rows[m] = NoRow => rows'[m] = NoRow
         /\ rows[m] # NoRow => rows'[m] # NoRow /\ rows'[m].chat = rows[m].chat /\ rows'[m].items = is
<1>1. CASE rows[m] = NoRow
  BY <1>1
<1>2. CASE rows[m] # NoRow
  <2>1. rows' = [rows EXCEPT ![m] = [rows[m] EXCEPT !.items = is]]
    BY <1>2
  <2>2. rows[m] \in Row /\ [rows[m] EXCEPT !.items = is] \in Row
    BY <1>2, RowFields DEF Row
  <2>3. QED
    BY <1>2, <2>1, <2>2, LibraryAssumption DEF TypeOK, Row
<1>3. QED
  BY <1>1, <1>2

\* The changes of the folders.
LEMMA FilesStep ==
  ASSUME Typed, NEW t \in Handlers, Step(t)
  PROVE  \/ UNCHANGED files
         \/ \E d \in Folders, f \in Files : Written(d, f)
         \/ \E d \in Folders : \E fs : Removed(d, fs)
         \/ LinkFiles(t)
<1>1. CASE NewChat(t) \/ DeleteExchange(t) \/ AskSend(t) \/ Send(t) \/ RecordMade(t) \/ AskFork(t) \/ AddBranch(t) \/ AskDeleteChat(t)
  BY <1>1 DEF NewChat, DeleteExchange, AskSend, Send, RecordMade, AskFork, AddBranch, AskDeleteChat
<1>2. CASE AskDelete(t) \/ Rewrite(t) \/ DropEntries(t) \/ DeleteEntry(t) \/ AskDiscard(t)
           \/ AskClear(t) \/ ClearEntry(t) \/ ClearRow(t) \/ EndClear(t)
  BY <1>2 DEF AskDelete, Rewrite, DropEntries, DeleteEntry, AskDiscard, AskClear, ClearEntry, ClearRow, EndClear
<1>3. CASE AttachFile(t)
  <2>1. PICK c, f : c \in live /\ f \in Picked(c) /\ Stored(c, f)
    BY <1>3 DEF AttachFile
  <2>2. c \in Folders /\ f \in Files
    BY <2>1, FoldersFacts DEF live, Picked, Files, Typed, TypeOK
  <2>3. QED
    BY <2>1, <2>2 DEF Stored
<1>4. CASE ImportFile(t)
  <2>1. PICK c, d, f, u : c \in live /\ d \in Folders /\ f \in disk[d] /\ u = (IF f \in Made THEN CopyOf[f] ELSE f) /\ Stored(c, u)
    BY <1>4 DEF ImportFile
  <2>2. c \in Folders /\ u \in Files
    BY <2>1, FoldersFacts, LibraryAssumption DEF live, Files, Typed, TypeOK
  <2>3. QED
    BY <2>1, <2>2 DEF Stored
<1>5. CASE UploadToShelf(t)
  <2>1. PICK f \in Uploads : Stored(Shelf, f)
    BY <1>5 DEF UploadToShelf
  <2>2. QED
    BY <2>1, FoldersFacts DEF Stored, Files
<1>6. CASE Generate(t)
  <2>1. (\E c \in live, g \in Made : Written(c, g)) \/ UNCHANGED files
    BY <1>6 DEF Generate
  <2>2. QED
    BY <2>1, FoldersFacts DEF live, Files
<1>7. CASE TrashFolder(t)
  <2>1. reqs[t] \in Work /\ reqs[t].op = "trash"
    BY <1>7 DEF TrashFolder, On, Typed, RequestsTyped
  <2>2. reqs[t].chat \in Folders
    BY <2>1, FoldersFacts DEF Work, Clearing, Idle
  <2>3. QED
    BY <1>7, <2>2 DEF TrashFolder
<1>8. CASE Unlink(t)
  <2>1. reqs[t] \in Work /\ reqs[t].op = "unlink"
    BY <1>8 DEF Unlink, On, Typed, RequestsTyped
  <2>2. reqs[t].folder \in Folders
    BY <2>1 DEF Work, Clearing, Idle
  <2>3. QED
    BY <1>8, <2>2 DEF Unlink
<1>9. CASE ClearFile(t)
  <2>1. PICK p \in reqs[t].left : Removed(p[1], {p[2]})
    BY <1>9 DEF ClearFile
  <2>2. p[1] \in Folders
    BY <1>9, InClearing, FoldersFacts DEF ClearFile, Clearing
  <2>3. QED
    BY <2>1, <2>2
<1>10. QED
  BY <1>1, <1>2, <1>3, <1>4, <1>5, <1>6, <1>7, <1>8, <1>9 DEF Step

\* A file older than this step was there before it, unless it is linked now.
LEMMA OldFiles ==
  ASSUME Typed, NEW t \in Handlers, Step(t), NEW c \in Chats, NEW f \in Files,
         f \in disk'[c], since'[c][f] < now
  PROVE  \/ f \in disk[c] /\ since[c][f] = since'[c][f]
         \/ reqs[t].op = "link" /\ reqs[t].new = c
<1>t. TypeOK /\ now \in Nat /\ c \in Folders
  BY LibraryAssumption, FoldersFacts DEF Typed, TypeOK, Time
<1>1. CASE UNCHANGED files
  BY <1>1 DEF files
<1>2. ASSUME NEW d \in Folders, NEW g \in Files, Written(d, g)
      PROVE  f \in disk[c] /\ since[c][f] = since'[c][f]
  BY <1>t, <1>2 DEF Written, TypeOK
<1>3. ASSUME NEW d \in Folders, NEW fs, Removed(d, fs)
      PROVE  f \in disk[c] /\ since[c][f] = since'[c][f]
  <2> DEFINE gone == [g \in Files |-> IF g \in fs \cap disk[d] THEN now ELSE since[d][g]]
  <2>1. disk' = [disk EXCEPT ![d] = disk[d] \ fs] /\ since' = [since EXCEPT ![d] = gone]
    BY <1>t, <1>3 DEF Removed, TypeOK
  <2>2. gone[f] = IF f \in fs \cap disk[d] THEN now ELSE since[d][f]
    OBVIOUS
  <2> HIDE DEF gone
  <2>3. QED
    BY <1>t, <2>1, <2>2 DEF TypeOK
<1>4. CASE LinkFiles(t)
  <2>1. PICK d, fs, linked :
          /\ reqs[t].op = "link" /\ d = reqs[t].new
          /\ disk' = [disk EXCEPT ![d] = @ \cup fs]
          /\ since' = [since EXCEPT ![d] = linked]
    BY <1>t, <1>4 DEF LinkFiles, On, TypeOK
  <2>2. QED
    BY <1>t, <2>1 DEF TypeOK
<1>5. QED
  BY <1>1, <1>2, <1>3, <1>4, FilesStep

\* What a removal writes is fewer than there was.
LEMMA FewerWritten ==
  ASSUME Orderly, ThereInv, NEW t \in Handlers, Step(t), Rewrite(t) \/ ClearRow(t)
  PROVE  Fewer
<1>f. TypeOK /\ reqs[t] \in Work /\ UNCHANGED entries
  BY Found DEF Orderly, Rewrite, ClearRow
<1>1. CASE Rewrite(t)
  <2>1. reqs[t].op = "rewrite"
    BY <1>1 DEF Rewrite, On
  <2>2. PICK w \in reqs[t].todo : rows' = IF rows[w.row] = NoRow THEN rows ELSE [rows EXCEPT ![w.row].items = w.items]
    BY <1>1 DEF Rewrite
  <2>3. w.row \in Rows /\ w.items \in SUBSET Item
    BY <1>f, <2>1 DEF Work, Clearing, Idle, Todo
  <2>4. rows[w.row] # NoRow => w.items \subseteq rows[w.row].items
    BY <2>1, Found DEF Orderly, InHand, Removing
  <2>5. QED
    BY <1>f, <2>2, <2>3, <2>4, Trimmed DEF Fewer
<1>2. CASE ClearRow(t)
  <2>1. reqs[t].op = "clear"
    BY <1>2 DEF ClearRow, On
  <2>2. PICK m \in reqs[t].todo :
          rows' = IF rows[m] = NoRow THEN rows ELSE [rows EXCEPT ![m].items = @ \ reqs[t].found[rows[m].chat]]
    BY <1>2 DEF ClearRow
  <2>3. m \in Rows
    BY <1>f, <2>1 DEF Work, Clearing, Idle
  <2>4. CASE rows[m] = NoRow
    BY <1>f, <2>2, <2>4 DEF Fewer
  <2>5. CASE rows[m] # NoRow
    <3>1. PICK is \in SUBSET Item : is = rows[m].items \ reqs[t].found[rows[m].chat]
      BY <1>f, <2>3, <2>5, RowFields
    <3>2. rows' = IF rows[m] = NoRow THEN rows ELSE [rows EXCEPT ![m].items = is]
      BY <1>f, <2>2, <2>5, <3>1 DEF TypeOK
    <3>3. /\ \A n \in Rows : n # m => rows'[n] = rows[n]
          /\ rows'[m].chat = rows[m].chat /\ rows'[m].items = is
      BY <1>f, <2>3, <2>5, <3>2, Trimmed, ZenonT(40)
    <3>4. rows'[m].items \subseteq rows[m].items
      BY <3>1, <3>3
    <3>5. QED
      BY <1>f, <2>5, <3>3, <3>4 DEF Fewer
  <2>6. QED
    BY <2>4, <2>5
<1>3. QED
  BY <1>1, <1>2

\* The ways in which a row comes to show a picture.
LEMMA NewlyShown ==
  ASSUME Orderly, ThereInv, TypeOK', NEW t \in Handlers, Step(t), NEW c \in Chats, NEW f \in Made
  PROVE  /\ RowShows(c, f)' => \/ RowShows(c, f)
                               \/ reqs[t].op = "made" /\ c = rows[reqs[t].row].chat /\ f = reqs[t].item.file
                               \/ reqs[t].op = "branch" /\ reqs[t].new = c
         /\ EntryShows(c, f)' => Shows(c, f)
<1>f. TypeOK /\ Tables /\ reqs[t] \in Work
  BY Found DEF Orderly
<1>n. f # NoFile /\ f \notin Uploads
  BY LibraryAssumption DEF Files
<1>1. CASE Fewer
  BY <1>1, FewerShown DEF Shows
<1>2. CASE \/ NewChat(t) \/ AttachFile(t) \/ ImportFile(t) \/ UploadToShelf(t) \/ AskSend(t) \/ AskFork(t) \/ LinkFiles(t)
           \/ TrashFolder(t) \/ AskDelete(t) \/ AskDiscard(t) \/ Unlink(t) \/ AskClear(t) \/ ClearFile(t) \/ EndClear(t)
  <2>1. UNCHANGED <<rows, entries>>
    BY <1>2 DEF NewChat, AttachFile, ImportFile, UploadToShelf, AskSend, AskFork, LinkFiles, TrashFolder, AskDelete,
                AskDiscard, Unlink, AskClear, ClearFile, EndClear, store
  <2>2. QED
    BY <1>1, <2>1, SameTables
<1>3. CASE DropEntries(t) \/ DeleteEntry(t) \/ ClearEntry(t)
  <2>1. UNCHANGED rows /\ entries' \subseteq entries
    BY <1>3 DEF DropEntries, OtherEntries, DeleteEntry, ClearEntry
  <2>2. QED
    BY <1>1, <2>1 DEF Fewer
<1>4. CASE AskDeleteChat(t)
  <2>1. Fewer
    BY <1>4 DEF AskDeleteChat, Fewer
  <2>2. QED
    BY <1>1, <2>1
<1>5. CASE Rewrite(t) \/ ClearRow(t)
  BY <1>1, <1>5, FewerWritten
<1>6. CASE DeleteExchange(t)
  <2>1. PICK b, gone : b \in live /\ gone \in SUBSET RowsOf(b) /\ Moved(b, gone)
    BY <1>6 DEF DeleteExchange, Moved
  <2>2. \A m \in Rows : rows'[m] # NoRow => rows'[m] = rows[m]
    BY <2>1 DEF Moved
  <2>3. \A e \in entries' \ entries : e.chat = b /\ \E m \in gone : e.item \in rows[m].items
    BY <1>f, <1>6, <2>1, MovedSound DEF DeleteExchange
  <2>4. RowShows(c, f)' => RowShows(c, f)
    BY <2>2 DEF RowShows, RowsOf
  <2>5. EntryShows(c, f)' => Shows(c, f)
    BY <2>1, <2>3 DEF EntryShows, Shows, RowShows
  <2>6. QED
    BY <2>4, <2>5
<1>7. CASE Send(t)
  <2>1. reqs[t].op = "send" /\ UNCHANGED entries /\ NextRow \in Rows
    BY <1>7 DEF Send, On
  <2> DEFINE is == {[file |-> g, upload |-> TRUE, refs |-> {}] : g \in reqs[t].files}
  <2>2. rows' = [rows EXCEPT ![NextRow] = [chat |-> reqs[t].chat, items |-> is]]
    BY <1>7 DEF Send
  <2>3. \A i \in is : i.file \in Uploads
    BY <2>1, Found DEF Orderly, InHand, Recording
  <2> HIDE DEF is
  <2>4. rows'[NextRow].items = is /\ \A m \in Rows : m # NextRow => rows'[m] = rows[m]
    BY <1>f, <2>1, <2>2 DEF TypeOK
  <2>5. RowShows(c, f)' => RowShows(c, f)
    BY <1>n, <2>3, <2>4 DEF RowShows, RowsOf
  <2>6. QED
    BY <2>1, <2>5 DEF EntryShows, Shows
<1>8. CASE AddBranch(t)
  <2>1. reqs[t].op = "branch" /\ UNCHANGED entries /\ NextRow \in Rows
    BY <1>8 DEF AddBranch, On
  <2>2. rows' = [rows EXCEPT ![NextRow] = [chat |-> reqs[t].new, items |-> reqs[t].items]]
    BY <1>8 DEF AddBranch
  <2>3. rows'[NextRow].chat = reqs[t].new /\ \A m \in Rows : m # NextRow => rows'[m] = rows[m]
    BY <1>f, <2>1, <2>2 DEF TypeOK
  <2>4. RowShows(c, f)' => RowShows(c, f) \/ reqs[t].new = c
    BY <2>3 DEF RowShows, RowsOf
  <2>5. QED
    BY <2>1, <2>4 DEF EntryShows, Shows
<1>9. ASSUME NEW m \in Rows, rows[m] # NoRow, NEW item \in Item, Appended(m, item)
      PROVE  RowShows(c, f)' => RowShows(c, f) \/ (rows[m].chat = c /\ item.file = f)
  <2>1. /\ rows'[m].chat = rows[m].chat /\ rows'[m].items = rows[m].items \cup {item}
        /\ \A n \in Rows : n # m => rows'[n] = rows[n]
    BY <1>f, <1>9, AppendedRow
  <2>2. QED
    BY <1>9, <2>1 DEF RowShows, RowsOf
<1>10. CASE RecordMade(t)
  <2>1. reqs[t].op = "made" /\ UNCHANGED entries /\ Appended(reqs[t].row, reqs[t].item)
    BY <1>10 DEF RecordMade, On
  <2>2. reqs[t].row \in Rows /\ reqs[t].item \in Item /\ rows[reqs[t].row] # NoRow
    BY <1>f, <2>1, Found DEF Orderly, InHand, Recording, Work, Clearing, Idle
  <2>3. QED
    BY <1>9, <2>1, <2>2 DEF EntryShows, Shows
<1>11. CASE Generate(t)
  <2>1. UNCHANGED entries
    BY <1>11 DEF Generate
  <2>2. PICK b, m, refs : /\ b \in live /\ m \in RowsOf(b) /\ refs \in SUBSET disk[b]
                          /\ UNCHANGED rows \/ Appended(m, [file |-> NoFile, upload |-> FALSE, refs |-> refs])
    BY <1>11 DEF Generate
  <2>3. m \in Rows /\ rows[m] # NoRow /\ refs \subseteq Files
    BY <1>f, <2>2, LiveAre, FoldersFacts DEF RowsOf, TypeOK
  <2>4. PICK item \in Item : item = [file |-> NoFile, upload |-> FALSE, refs |-> refs]
    BY <2>3 DEF Item
  <2>5. UNCHANGED rows => (RowShows(c, f)' => RowShows(c, f))
    BY DEF RowShows, RowsOf
  <2>6. RowShows(c, f)' => RowShows(c, f)
    BY <1>9, <1>n, <2>2, <2>3, <2>4, <2>5
  <2>7. QED
    BY <2>1, <2>6 DEF EntryShows, Shows
<1>12. QED
  BY <1>2, <1>3, <1>4, <1>5, <1>6, <1>7, <1>8, <1>10, <1>11 DEF Step

\* What a step leaves to be recorded.
LEMMA NextRecording ==
  ASSUME Orderly, ThereInv, NEW t \in Handlers, Step(t)
  PROVE  /\ reqs'[t].op = "made" => Generate(t)
         /\ reqs'[t].op = "link" => AskFork(t)
         /\ reqs'[t].op = "branch" => LinkFiles(t)
<1> DEFINE Other == reqs'[t].op \notin {"made", "link", "branch"}
<1>f. /\ reqs[t] \in Work /\ \A r : Goes(t, r) => reqs'[t] = r
  BY Found DEF Orderly
<1>1. CASE NewChat(t) \/ AttachFile(t) \/ ImportFile(t) \/ DeleteExchange(t) \/ UploadToShelf(t)
  <2>1. reqs'[t] = Idle
    BY <1>1 DEF NewChat, AttachFile, ImportFile, DeleteExchange, UploadToShelf, AtOnce, Starts
  <2>2. QED
    BY <2>1 DEF Idle
<1>2. CASE Send(t) \/ RecordMade(t) \/ AddBranch(t) \/ TrashFolder(t) \/ Unlink(t) \/ EndClear(t)
  <2>1. Goes(t, Idle)
    BY <1>2 DEF Send, RecordMade, AddBranch, TrashFolder, Unlink, EndClear
  <2>2. QED
    BY <1>f, <2>1 DEF Idle
<1>3. CASE AskSend(t)
  <2>1. \E c, fs : reqs'[t] = [op |-> "send", chat |-> c, files |-> fs]
    BY <1>f, <1>3 DEF AskSend
  <2>2. QED
    BY <2>1
<1>4. CASE AskDeleteChat(t)
  <2>1. \E c : reqs'[t] = [op |-> "trash", chat |-> c]
    BY <1>f, <1>4 DEF AskDeleteChat
  <2>2. QED
    BY <2>1
<1>5. CASE AskDelete(t)
  <2>1. \E d, f : reqs'[t] = IF d = Shelf THEN [op |-> "unlink", by |-> "delete", folder |-> d, file |-> f]
                             ELSE [op |-> "rewrite", chat |-> d, file |-> f, todo |-> Rewrites(d, f)]
    BY <1>f, <1>5 DEF AskDelete
  <2>2. QED
    BY <2>1
<1>6. CASE DropEntries(t) \/ DeleteEntry(t) \/ AskDiscard(t)
  BY <1>6, UnlinksBy DEF ThereInv
<1>7. CASE Rewrite(t)
  <2>1. reqs[t] \in [op: {"rewrite"}, chat: Chats, file: Files, todo: SUBSET Todo]
    BY <1>f, <1>7 DEF Rewrite, On, Work, Clearing, Idle
  <2>2. \E w : reqs'[t] = [reqs[t] EXCEPT !.todo = @ \ {w}]
    BY <1>f, <1>7 DEF Rewrite
  <2>3. QED
    BY <2>1, <2>2
<1>8. CASE AskClear(t)
  <2>1. \E found, left, gone, todo :
          reqs'[t] = [op |-> "clear", found |-> found, left |-> left, gone |-> gone, todo |-> todo]
    BY <1>f, <1>8 DEF AskClear
  <2>2. QED
    BY <2>1
<1>9. CASE ClearFile(t) \/ ClearEntry(t) \/ ClearRow(t)
  <2>1. reqs'[t].op = "clear"
    BY <1>9, StillClearing DEF ThereInv, RowsInv
  <2>2. QED
    BY <2>1
<1>10. CASE AskFork(t)
  <2>1. \E c, d, is : reqs'[t] = [op |-> "link", chat |-> c, new |-> d, items |-> is]
    BY <1>f, <1>10, ZenonT(40) DEF AskFork
  <2>2. QED
    BY <1>10, <2>1
<1>11. CASE LinkFiles(t)
  <2>1. \E d, is : reqs'[t] = [op |-> "branch", new |-> d, items |-> is]
    BY <1>f, <1>11 DEF LinkFiles
  <2>2. QED
    BY <1>11, <2>1
<1>12. CASE Generate(t)
  <2>1. Starts(t) /\ ((\E m, i : Goes(t, [op |-> "made", row |-> m, item |-> i])) \/ UNCHANGED reqs)
    BY <1>12 DEF Generate
  <2>2. (\E m, i : reqs'[t] = [op |-> "made", row |-> m, item |-> i]) \/ reqs'[t] = Idle
    BY <1>f, <2>1, Zenon DEF Starts
  <2>3. \A m, i : reqs'[t] = [op |-> "made", row |-> m, item |-> i] => reqs'[t].op = "made"
    OBVIOUS
  <2>4. Idle.op = "idle"
    BY DEF Idle
  <2>5. reqs'[t].op = "made" \/ reqs'[t].op = "idle"
    BY <2>2, <2>3, <2>4, Zenon
  <2>6. QED
    BY <1>12, <2>5
<1>13. QED
  BY <1>1, <1>2, <1>3, <1>4, <1>5, <1>6, <1>7, <1>8, <1>9, <1>10, <1>11, <1>12 DEF Step

\* The uuid of a chat is not used again.
LEMMA NewStays ==
  ASSUME TypeOK, NEW t \in Handlers, Step(t), NEW c \in Chats, chats'[c] = "new"
  PROVE  chats[c] = "new"
<1>1. UNCHANGED chats \/ \E d \in Chats : \E v \in {"live", "gone"} : chats' = [chats EXCEPT ![d] = v]
  BY DEF Step, NewChat, AttachFile, ImportFile, AskSend, Send, Generate, RecordMade, DeleteExchange, AskFork, LinkFiles,
         AddBranch, AskDeleteChat, TrashFolder, UploadToShelf, AskDelete, Rewrite, DropEntries, DeleteEntry,
         AskDiscard, Unlink, AskClear, ClearFile, ClearEntry, ClearRow, EndClear, store, live
<1>2. QED
  BY <1>1 DEF TypeOK

LEMMA NewerStays ==
  ASSUME Orderly, WholeInv, TypeOK', NEW t \in Handlers, Step(t), reqs[Lister] # Idle
  PROVE  Newer(reqs[Lister])'
<1>f. TypeOK /\ Tables /\ reqs[t] \in Work /\ \A r : Goes(t, r) => reqs'[t] = r
  BY Found DEF Orderly, WholeInv
<1>1. reqs'[Lister] = reqs[Lister] /\ now' = now
  BY HandlerStep DEF WholeInv, ListInv
<1>2. PICK r : r = reqs[Lister]
  OBVIOUS
<1>3. Newer(r) /\ r.at \in Time /\ r.at <= now
  BY <1>2, ListerTyped DEF WholeInv, ListWhole, ListInv, ListAges
<1>4. \A c \in Chats, f \in Paths : Had(r, c, f) => chats'[c] # "new"
  BY <1>f, <1>3, NewStays DEF Newer
<1>5. \A u \in Handlers : u # t => reqs'[u] = Idle
  BY OthersIdle DEF Orderly, WholeInv, ThereInv
<1>6. ASSUME reqs'[t].op = "made", NEW c \in Chats, NEW h \in Files,
             c = rows'[reqs'[t].row].chat, h = reqs'[t].item.file
      PROVE  r.at <= since'[c][h]
  <2>1. Generate(t)
    BY <1>6, NextRecording DEF WholeInv
  <2>2. reqs[t] = Idle
    BY <2>1 DEF Generate, Starts
  <2>3. PICK b, m, refs : b \in live /\ m \in RowsOf(b) /\ (Saves(t, b, m, refs) \/ UNCHANGED reqs)
    BY <2>1, Generates
  <2>4. PICK g \in Made : /\ Written(b, g)
                          /\ Goes(t, [op |-> "made", row |-> m, item |-> [file |-> g, upload |-> FALSE, refs |-> refs]])
                          /\ UNCHANGED rows
    BY <1>6, <2>2, <2>3 DEF Idle, Saves
  <2>5. PICK item : item = [file |-> g, upload |-> FALSE, refs |-> refs]
    OBVIOUS
  <2>6. reqs'[t].row = m /\ reqs'[t].item.file = g
    <3>1. reqs'[t] = [op |-> "made", row |-> m, item |-> item] /\ item.file = g
      BY <1>f, <2>4, <2>5
    <3>2. QED
      BY <3>1
  <2>7. c = b /\ h = g /\ b \in Folders /\ g \in Files
    BY <1>6, <2>3, <2>4, <2>6, LiveAre, FoldersFacts DEF RowsOf, Files
  <2>8. since'[c][h] = now
    BY <1>f, <2>4, <2>7 DEF Written, TypeOK
  <2>9. QED
    BY <1>3, <2>8
<1>7. ASSUME reqs'[t].op \in {"link", "branch"}, NEW f \in Paths
      PROVE  ~ Had(r, reqs'[t].new, f)
  <2>1. CASE reqs'[t].op = "link"
    <3>1. AskFork(t)
      BY <2>1, NextRecording DEF WholeInv
    <3>2. PICK c, d, is : /\ d \in Chats /\ chats[d] = "new"
                          /\ Goes(t, [op |-> "link", chat |-> c, new |-> d, items |-> is])
      BY <3>1 DEF AskFork
    <3>3. reqs'[t].new = d
      BY <1>f, <3>2
    <3>4. QED
      BY <1>3, <3>2, <3>3 DEF Newer
  <2>2. CASE reqs'[t].op = "branch"
    <3>1. LinkFiles(t)
      BY <2>2, NextRecording DEF WholeInv
    <3>2. reqs[t].op = "link" /\ \E is : reqs'[t] = [op |-> "branch", new |-> reqs[t].new, items |-> is]
      BY <1>f, <3>1 DEF LinkFiles, On
    <3>3. reqs'[t].new = reqs[t].new
      BY <3>2
    <3>4. QED
      BY <1>3, <3>2, <3>3 DEF Newer
  <2>3. QED
    BY <1>7, <2>1, <2>2
<1>8. Newer(r)'
  <2>1. (\A c \in Chats, f \in Paths : Had(r, c, f) => chats[c] # "new")'
    BY <1>4 DEF Had
  <2>2. ASSUME NEW u \in Handlers, reqs'[u].op = "made"
        PROVE  (\A c \in Chats, f \in Files :
                 c = rows[reqs[u].row].chat /\ f = reqs[u].item.file /\ Had(r, c, f) => r.at <= since[c][f])'
    BY <1>5, <1>6, <2>2 DEF Idle
  <2>3. ASSUME NEW u \in Handlers, reqs'[u].op \in {"link", "branch"}
        PROVE  (\A f \in Paths : ~ Had(r, reqs[u].new, f))'
    BY <1>5, <1>7, <2>3 DEF Idle, Had
  <2>4. QED
    BY <2>1, <2>2, <2>3 DEF Newer
<1>9. QED
  BY <1>1, <1>2, <1>8 DEF Newer, Had

LEMMA SettledStays ==
  ASSUME Orderly, WholeInv, TypeOK', NEW t \in Handlers, Step(t), reqs[Lister] # Idle
  PROVE  Settled(reqs[Lister])'
<1>f. TypeOK /\ Typed
  BY Found DEF Orderly, WholeInv
<1>1. reqs'[Lister] = reqs[Lister]
  BY HandlerStep DEF WholeInv, ListInv
<1>2. PICK r : r = reqs[Lister]
  OBVIOUS
<1>3. Settled(r) /\ Newer(r) /\ r.at \in Time /\ r.at <= now
  BY <1>2, ListerTyped DEF WholeInv, ListWhole, ListInv, ListAges
<1>4. now \in Nat /\ r.at \in Nat
  BY <1>f, <1>3, LibraryAssumption DEF TypeOK, Time
<1>5. ASSUME NEW c \in Chats, NEW f \in Files, Overlooked(r, c, f)'
      PROVE  f \in Made /\ ~ RowShows(c, f)' /\ (r.op # "list" => ~ EntryShows(c, f)')
  <2>1. Had(r, c, f) /\ f \in disk'[c] /\ since'[c][f] < r.at /\ f \in Paths
    BY <1>5 DEF Overlooked, Had, Paths
  <2>2. since'[c][f] \in Nat /\ since[c][f] \in Nat
    <3>1. c \in Folders /\ Time \subseteq Nat
      BY FoldersFacts, LibraryAssumption DEF Time
    <3>2. QED
      BY <1>f, <3>1 DEF TypeOK
  <2>3. since'[c][f] < now
    BY <1>3, <1>4, <2>1, <2>2
  <2>4. ~ (reqs[t].op = "link" /\ reqs[t].new = c)
    BY <1>3, <2>1 DEF Newer
  <2>5. f \in disk[c] /\ since[c][f] = since'[c][f]
    BY <1>f, <2>1, <2>3, <2>4, OldFiles
  <2>6. Overlooked(r, c, f)
    BY <1>5, <2>1, <2>5 DEF Overlooked
  <2>7. f \in Made /\ ~ RowShows(c, f) /\ (r.op # "list" => ~ EntryShows(c, f))
    BY <1>3, <2>6 DEF Settled
  <2>8. ~ (reqs[t].op = "made" /\ c = rows[reqs[t].row].chat /\ f = reqs[t].item.file)
    BY <1>3, <1>4, <2>1, <2>2, <2>5 DEF Newer
  <2>9. ~ (reqs[t].op = "branch" /\ reqs[t].new = c)
    BY <1>3, <2>1 DEF Newer
  <2>10. QED
    BY <2>7, <2>8, <2>9, NewlyShown DEF WholeInv, Shows
<1>6. Settled(r)'
  BY <1>5 DEF Settled
<1>7. QED
  BY <1>1, <1>2, <1>6 DEF Settled, Overlooked, Had

\* What is in the tables, as it is read.
LEMMA ReadRecords ==
  ASSUME TypeOK, NEW c \in Chats, NEW f
  PROVE  /\ (\E s \in Recorded("messages") : s.chat = c /\ s.item.file = f) <=> RowShows(c, f)
         /\ (\E s \in Recorded("entries") : s.chat = c /\ s.item.file = f) <=> EntryShows(c, f)
<1>1. ASSUME NEW s \in Recorded("messages"), s.chat = c, s.item.file = f
      PROVE  RowShows(c, f)
  <2>1. PICK m \in Rows : rows[m] # NoRow /\ \E i \in rows[m].items : s = [chat |-> rows[m].chat, item |-> i, age |-> m]
    BY DEF Recorded
  <2>2. QED
    BY <1>1, <2>1 DEF RowShows, RowsOf
<1>2. ASSUME NEW m \in RowsOf(c), NEW i \in rows[m].items, i.file = f
      PROVE  \E s \in Recorded("messages") : s.chat = c /\ s.item.file = f
  <2>1. m \in Rows /\ rows[m] # NoRow /\ rows[m].chat = c
    BY DEF RowsOf
  <2>2. [chat |-> rows[m].chat, item |-> i, age |-> m] \in Recorded("messages")
    BY <2>1 DEF Recorded
  <2>3. QED
    BY <1>2, <2>1, <2>2
<1>3. ASSUME NEW s \in Recorded("entries"), s.chat = c, s.item.file = f
      PROVE  EntryShows(c, f)
  <2>1. PICK e \in entries : s = [chat |-> e.chat, item |-> e.item, age |-> MaxRow + 1]
    BY DEF Recorded
  <2>2. QED
    BY <1>3, <2>1 DEF EntryShows
<1>4. ASSUME NEW e \in entries, e.chat = c, e.item.file = f
      PROVE  \E s \in Recorded("entries") : s.chat = c /\ s.item.file = f
  <2>1. [chat |-> e.chat, item |-> e.item, age |-> MaxRow + 1] \in Recorded("entries")
    BY DEF Recorded
  <2>2. QED
    BY <1>4, <2>1
<1>5. QED
  BY <1>1, <1>2, <1>3, <1>4 DEF RowShows, EntryShows

\* What was read and is there is listed.
LEMMA ReadListed ==
  ASSUME NEW read \in SUBSET Source, NEW s \in read, s.item.file \in disk[s.chat]
  PROVE  \E e \in ChatRecords(read) : e.file = s.item.file
<1> DEFINE there == {r \in read : r.item.file \in disk[r.chat]}
           best(f) == CHOOSE r \in there : r.item.file = f /\ \A x \in there : x.item.file = f => r.age <= x.age
<1>1. s.item.file \in {r.item.file : r \in there}
  OBVIOUS
<1>2. [origin |-> "chat", folder |-> best(s.item.file).chat, file |-> s.item.file] \in ChatRecords(read)
  BY <1>1 DEF ChatRecords
<1> HIDE DEF best
<1>3. [origin |-> "chat", folder |-> best(s.item.file).chat, file |-> s.item.file].file = s.item.file
  OBVIOUS
<1>4. QED
  BY <1>2, <1>3

\* The steps of the lister.
LEMMA WholeLister ==
  ASSUME WholeInv, ThereInv', AskList \/ ReadSecond \/ ScanFolders \/ KeepList
  PROVE  ListWhole'
<1>t. TypeOK /\ Typed /\ Tables
  BY DEF WholeInv, ThereInv, RowsInv, Typed
<1>1. UNCHANGED <<chats, rows, entries, disk, since>>
  BY DEF AskList, ReadSecond, ScanFolders, KeepList, store, files
<1>2. \A r : Goes(Lister, r) => reqs'[Lister] = r /\ \A t \in Handlers : reqs'[t] = reqs[t]
  BY <1>t, LibraryAssumption DEF Goes, Typed, RequestsTyped
<1>3. \A t \in Handlers : reqs'[t] = reqs[t]
  BY <1>2 DEF AskList, ReadSecond, ScanFolders, KeepList
<1>4. ASSUME NEW r, NEW s, Newer(r), s.had = r.had, s.at = r.at
      PROVE  Newer(s)'
  BY <1>1, <1>3, <1>4 DEF Newer, Had
<1>5. CASE AskList
  <2>1. PICK had : had = {<<s.chat, s.item>> : s \in Recorded("messages") \cup Recorded("entries")}
    OBVIOUS
  <2>2. PICK r : r = [op |-> "list", at |-> now, read |-> Recorded("messages"), had |-> had]
    OBVIOUS
  <2>3. reqs'[Lister] = r
    BY <1>2, <1>5, <2>1, <2>2 DEF AskList, ReadOrder
  <2>4. \A c \in Chats : \A f : Had(r, c, f) => Shows(c, f)
    BY <1>t, <2>1, <2>2, ReadRecords DEF Had, Shows
  <2>5. Settled(r)
    <3>1. ASSUME NEW c \in Chats, NEW f \in Files, Overlooked(r, c, f)
          PROVE  ~ RowShows(c, f) /\ EntryShows(c, f)
      BY <1>t, <2>2, <2>4, <3>1, ReadRecords DEF Overlooked, Shows
    <3>2. \A c, f : EntryShows(c, f) => f \in Made
      BY <1>t DEF EntryShows, Tables, EntriesSound
    <3>3. QED
      BY <2>2, <3>1, <3>2 DEF Settled
  <2>6. Newer(r)
    <3>1. \A c : \A f : Shows(c, f) => c \in live
      BY <1>t DEF Shows, RowShows, RowsOf, EntryShows, Tables, RowsSound, EntriesSound
    <3>2. \A c \in live : chats[c] # "new"
      BY DEF live
    <3>3. ASSUME NEW t \in Handlers
          PROVE  /\ reqs[t].op = "made" => ~ Shows(rows[reqs[t].row].chat, reqs[t].item.file)
                 /\ reqs[t].op \in {"link", "branch"} => reqs[t].new \in live /\ Bare(reqs[t].new)
      BY DEF WholeInv, ThereInv, InHand, Recording
    <3>4. \A c : Bare(c) => \A f : ~ Shows(c, f)
      BY DEF Bare, Shows, RowShows, EntryShows
    <3>5. QED
      BY <2>2, <2>4, <3>1, <3>2, <3>3, <3>4, LiveAre DEF Newer
  <2>7. Settled(r)' /\ Newer(r)'
    BY <1>1, <1>4, <2>5, <2>6 DEF Settled, Overlooked, Had, RowShows, RowsOf, EntryShows
  <2>8. QED
    BY <2>3, <2>7 DEF ListWhole, Settled, Overlooked, Newer, Had
<1>6. CASE ReadSecond
  <2>1. PICK r : r = reqs[Lister] /\ r.op = "list"
    BY <1>6 DEF ReadSecond, On
  <2>2. r \in [op: {"list", "scan"}, at: Time, read: SUBSET Source, had: Pairs] /\ Settled(r) /\ Newer(r)
    BY <1>t, <2>1 DEF Typed, RequestsTyped, Listing, Idle, WholeInv, ListWhole
  <2>3. PICK s : s = [r EXCEPT !.op = "scan", !.read = @ \cup Recorded("entries")]
    OBVIOUS
  <2>4. reqs'[Lister] = s
    BY <1>2, <1>6, <2>1, <2>3 DEF ReadSecond, ReadOrder
  <2>5. s.op = "scan" /\ s.at = r.at /\ s.had = r.had /\ s.read = r.read \cup Recorded("entries")
    BY <2>2, <2>3
  <2>6. Settled(s)
    <3>1. \A c, f : Overlooked(s, c, f) => Overlooked(r, c, f)
      BY <2>1, <2>5 DEF Overlooked, Had
    <3>2. \A c \in Chats : \A f : Overlooked(s, c, f) => ~ EntryShows(c, f)
      BY <1>t, <2>5, ReadRecords DEF Overlooked
    <3>3. QED
      BY <2>2, <3>1, <3>2 DEF Settled
  <2>7. Settled(s)' /\ Newer(s)'
    BY <1>1, <1>4, <2>2, <2>5, <2>6 DEF Settled, Overlooked, Had, RowShows, RowsOf, EntryShows
  <2>8. QED
    BY <2>4, <2>7 DEF ListWhole, Settled, Overlooked, Newer, Had
<1>7. CASE ScanFolders
  <2>1. PICK r : r = reqs[Lister] /\ r.op = "scan"
    BY <1>7 DEF ScanFolders, On
  <2>2. r \in [op: {"list", "scan"}, at: Time, read: SUBSET Source, had: Pairs] /\ Settled(r) /\ Newer(r)
    BY <1>t, <2>1 DEF Typed, RequestsTyped, Listing, Idle, WholeInv, ListWhole
  <2>3. PICK items :
          /\ items = {[origin |-> "library", folder |-> Shelf, file |-> f] : f \in disk[Shelf]}
                       \cup ChatRecords(r.read) \cup Orphans(r.read)
          /\ Goes(Lister, [op |-> "keep", at |-> r.at, had |-> r.had, items |-> items])
    BY <1>7, <2>1 DEF ScanFolders
  <2>4. PICK s : s = [op |-> "keep", at |-> r.at, had |-> r.had, items |-> items]
    OBVIOUS
  <2>5. reqs'[Lister] = s
    BY <1>2, <2>3, <2>4
  <2>6. Settled(s)
    <3>1. ASSUME NEW c \in Chats, NEW f \in Files, Overlooked(s, c, f)
          PROVE  Overlooked(r, c, f)
      <4>1. Had(r, c, f) /\ f \in disk[c] /\ since[c][f] < r.at /\ \A e \in items : e.file # f
        BY <2>4, <3>1 DEF Overlooked, Had
      <4>2. ASSUME NEW x \in r.read, x.chat = c, x.item.file = f PROVE FALSE
        <5>1. \E e \in ChatRecords(r.read) : e.file = x.item.file
          BY <2>2, <4>1, <4>2, ReadListed
        <5>2. QED
          BY <2>3, <4>1, <4>2, <5>1
      <4>3. QED
        BY <2>1, <4>1, <4>2 DEF Overlooked
    <3>2. QED
      BY <2>1, <2>2, <3>1 DEF Settled
  <2>7. Settled(s)' /\ Newer(s)'
    BY <1>1, <1>4, <2>2, <2>4, <2>6 DEF Settled, Overlooked, Had, RowShows, RowsOf, EntryShows
  <2>8. QED
    BY <2>5, <2>7 DEF ListWhole, Settled, Overlooked, Newer, Had
<1>8. CASE KeepList
  BY <1>2, <1>8 DEF KeepList, ListWhole
<1>9. QED
  BY <1>5, <1>6, <1>7, <1>8

LEMMA WholeKept == ASSUME Orderly PROVE WholeInv /\ [Next]_vars => WholeInv'
<1>1. SUFFICES ASSUME WholeInv, [Next]_vars PROVE WholeInv'
  OBVIOUS
<1>2. ThereInv' /\ ListInv'
  BY <1>1, ThereKept, NextListed DEF WholeInv
<1>3. CASE \E t \in Handlers : Step(t)
  <2>1. PICK t \in Handlers : Step(t)
    BY <1>3
  <2>2. TypeOK' /\ reqs'[Lister] = reqs[Lister]
    BY <1>1, <1>2, <2>1, HandlerStep DEF WholeInv, ListInv, Typed
  <2>3. ListWhole'
    BY <1>1, <2>1, <2>2, NewerStays, SettledStays DEF ListWhole
  <2>4. QED
    BY <1>2, <2>3 DEF WholeInv
<1>4. CASE AskList \/ ReadSecond \/ ScanFolders \/ KeepList
  BY <1>1, <1>2, <1>4, WholeLister DEF WholeInv
<1>5. CASE Tick \/ UNCHANGED vars
  <2>1. UNCHANGED <<chats, rows, entries, disk, since, reqs>>
    BY <1>5 DEF Tick, vars, store, files
  <2>2. ListWhole'
    BY <1>1, <2>1 DEF WholeInv, ListWhole, Settled, Newer, Overlooked, Had, RowShows, RowsOf, EntryShows
  <2>3. QED
    BY <1>2, <2>2 DEF WholeInv
<1>6. QED
  BY <1>1, <1>3, <1>4, <1>5 DEF Next

\* What was recorded when a list was asked for, and is recorded and as old when it is
\* kept, is in it: the messages are read before the entries, so what moves from one to
\* the other in between is seen in one of them (_build_items, media.py:298-316).
THEOREM NothingIsMissed == ASSUME Orderly PROVE Spec => []NothingMissed
<1>1. Init => WholeInv
  <2>1. Init => reqs[Lister] = Idle
    BY DEF Init
  <2>2. QED
    BY <2>1, ThereInit, InitListed DEF WholeInv, ListWhole
<1>2. WholeInv => NothingMissed
  <2>1. SUFFICES ASSUME WholeInv, reqs[Lister].op = "keep", NEW s \in Lasting
                 PROVE  \E e \in reqs[Lister].items : e.file = s.item.file
    BY DEF NothingMissed
  <2>2. TypeOK
    BY <2>1 DEF WholeInv, ThereInv, RowsInv, Typed
  <2>3. /\ s \in Recorded("messages") \cup Recorded("entries")
        /\ Had(reqs[Lister], s.chat, s.item.file) /\ s.item.file \in disk[s.chat]
        /\ since[s.chat][s.item.file] < reqs[Lister].at
    BY DEF Lasting, Had
  <2>4. s.chat \in Chats /\ s.chat \in Folders
    BY <2>2, <2>3, RecordedTyped, FoldersFacts DEF Source
  <2>5. s.item.file \in Files
    BY <2>2, <2>3, <2>4 DEF TypeOK
  <2>6. PICK c \in Chats, f \in Files : c = s.chat /\ f = s.item.file
    BY <2>4, <2>5
  <2>7. RowShows(c, f) \/ EntryShows(c, f)
    BY <2>2, <2>3, <2>6, ReadRecords
  <2>8. Settled(reqs[Lister])
    BY <2>1 DEF WholeInv, ListWhole, Idle
  <2>9. ~ Overlooked(reqs[Lister], c, f)
    BY <2>1, <2>7, <2>8 DEF Settled
  <2>10. QED
    BY <2>1, <2>3, <2>6, <2>9 DEF Overlooked
<1>3. QED
  BY <1>1, <1>2, WholeKept, PTL DEF Spec

=============================================================================
