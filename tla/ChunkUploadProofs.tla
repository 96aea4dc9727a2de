-------------------------- MODULE ChunkUploadProofs --------------------------
(***************************************************************************)
(* What holds of uploads of any size, in chunks of any size.               *)
(***************************************************************************)
EXTENDS ChunkUpload, TLAPS

Active(c) == c.at # "sent"

\* Requests write one at a time.
OneWrites == ~ Overlap => \A c, d \in calls : Active(c) /\ Active(d) => c = d

\* While a request writes, the part ends where it left it, and has no holes.
PartGrows ==
  ~ Overlap =>
    /\ place = "part" => file.holes = {}
    /\ \A c \in calls :
         /\ c.at = "truncate" /\ place = "part" => c.offset <= file.len
         /\ c.at = "write" /\ place = "part" => file.len = c.offset
         /\ c.at \in {"zip", "rename"} /\ place = "part" => file.len = Size
         /\ c.at = "write" => place # "folder"

Whole == ~ Overlap => WholeFile

\* An answer with the export's name comes after the rename.
Renamed ==
  /\ \A c \in calls : c.at = "tidy" => place = "folder"
  /\ \A c \in calls : c.at \in {"zip", "rename", "tidy"} => ChunkEnd(c.offset) = Size

UploadInv ==
  /\ TypeOK
  /\ OneWrites
  /\ PartGrows
  /\ Whole
  /\ Renamed
  /\ DoneIsThere

-----------------------------------------------------------------------------

\* A chunk ends in the file, and the next one begins there.
LEMMA EndFacts ==
  ASSUME NEW o \in Offsets
  PROVE  /\ o \in Nat /\ o < Size /\ Size \in Nat /\ 0 <= o
         /\ ChunkEnd(o) \in Nat /\ o < ChunkEnd(o) /\ ChunkEnd(o) <= Size
         /\ ChunkEnd(o) # Size => ChunkEnd(o) \in Offsets
BY UploadAssumption DEF ChunkEnd, Offsets

\* What is written is a file.
LEMMA WrittenType ==
  ASSUME TypeOK, NEW o \in Offsets, NEW to \in o .. ChunkEnd(o)
  PROVE  Written(o, to) \in [len: 0 .. Size, holes: SUBSET (1 .. Size)]
<1>1. file.len \in 0 .. Size /\ file.holes \subseteq 1 .. Size
  BY DEF TypeOK
<1>2. to \in 0 .. Size
  BY EndFacts
<1>3. file.len + 1 .. o \subseteq 1 .. Size
  BY <1>1, EndFacts
<1>4. QED
  BY <1>1, <1>2, <1>3 DEF Written

LEMMA FirstTry == 0 \in Offsets /\ 1 \in 1 .. Tries /\ 0 \in 0 .. Size /\ 0 \in 0 .. MaxCrashes
BY UploadAssumption DEF Offsets

\* What the browser does after an error or an answer.
LEMMA ClientType ==
  ASSUME TypeOK, AfterError \/ \E o \in Offsets : AfterAnswer(o) \/ UNCHANGED <<client, deleting>>
  PROVE  /\ client' \in [offset: Offsets, try: 1 .. Tries,
                         state: {"ready", "waiting", "done", "failed", "cancelled"}]
         /\ deleting' \in BOOLEAN
<1>1. CASE AfterError
  <2>1. client.try < Tries => client.try + 1 \in 1 .. Tries
    BY UploadAssumption DEF TypeOK
  <2>2. QED
    BY <1>1, <2>1 DEF AfterError, TypeOK
<1>2. ASSUME NEW o \in Offsets, AfterAnswer(o)
      PROVE  /\ client' \in [offset: Offsets, try: 1 .. Tries,
                             state: {"ready", "waiting", "done", "failed", "cancelled"}]
             /\ deleting' \in BOOLEAN
  BY <1>2, EndFacts, FirstTry DEF AfterAnswer, TypeOK
<1>3. CASE UNCHANGED <<client, deleting>>
  BY <1>3 DEF TypeOK
<1>4. QED
  BY <1>1, <1>2, <1>3

LEMMA UploadInit == Init => UploadInv
<1> SUFFICES ASSUME Init PROVE UploadInv
  OBVIOUS
<1>1. TypeOK
  BY FirstTry DEF Init, TypeOK
<1>2. QED
  BY <1>1 DEF Init, UploadInv, OneWrites, PartGrows, Whole, WholeFile, Renamed, DoneIsThere

LEMMA TypeStep == ASSUME TypeOK, [Next]_vars PROVE TypeOK'
<1> DEFINE Clients == [offset: Offsets, try: 1 .. Tries,
                       state: {"ready", "waiting", "done", "failed", "cancelled"}]
<1>1. ASSUME NEW c \in calls, Fails(c) \/ Ends(c)
      PROVE  calls' \subseteq Call /\ client' \in Clients /\ deleting' \in BOOLEAN
  BY <1>1, ClientType DEF Fails, Ends, TypeOK, Call
<1>2. ASSUME NEW c \in calls, NEW at \in {"truncate", "write", "zip", "rename", "tidy"}, Goes(c, at)
      PROVE  calls' \subseteq Call /\ client' \in Clients /\ deleting' \in BOOLEAN
  BY <1>2 DEF Goes, TypeOK, Call
<1>3. ASSUME NEW c \in calls, Works(c) PROVE TypeOK'
  <2>0. c \in Call /\ c.offset \in Offsets
    BY DEF TypeOK, Call
  <2>1. calls' \subseteq Call /\ client' \in Clients /\ deleting' \in BOOLEAN
    BY <1>1, <1>2, <1>3
    DEF Works, CheckOffset, Truncate, Write, WriteFails, CheckZip, Rename, Tidy
  <2>2. crashes' = crashes /\ place' \in {"part", "folder", "gone"} /\ meta' \in BOOLEAN
    BY <1>3 DEF Works, CheckOffset, Truncate, Write, WriteFails, CheckZip, Rename, Tidy, Handler, upload, TypeOK
  <2>3. file' \in [len: 0 .. Size, holes: SUBSET (1 .. Size)]
    <3>1. CASE UNCHANGED file
      BY <3>1 DEF TypeOK
    <3>2. CASE file' = [len |-> c.offset,
                        holes |-> (file.holes \cup (file.len + 1 .. Size)) \cap (1 .. c.offset)]
      <4>1. c.offset \in 0 .. Size /\ 1 .. c.offset \subseteq 1 .. Size
        BY <2>0, EndFacts
      <4>2. QED
        BY <3>2, <4>1
    <3>3. CASE \E to \in c.offset .. ChunkEnd(c.offset) : file' = Written(c.offset, to)
      BY <2>0, <3>3, WrittenType
    <3>4. ChunkEnd(c.offset) \in c.offset .. ChunkEnd(c.offset)
      BY <2>0, EndFacts
    <3>5. QED
      BY <1>3, <3>1, <3>2, <3>3, <3>4
      DEF Works, CheckOffset, Truncate, Write, WriteFails, Torn, CheckZip, Rename, Tidy, upload
  <2>4. QED
    BY <2>1, <2>2, <2>3 DEF TypeOK
<1>4. Request \in Call
  BY DEF Request, Call, TypeOK
<1>5. CASE Send
  BY <1>4, <1>5 DEF Send, TypeOK, upload
<1>6. CASE Break
  BY <1>6, ClientType DEF Break, TypeOK, upload
<1>7. CASE CancelUpload
  BY <1>4, <1>7 DEF CancelUpload, TypeOK, upload
<1>8. ASSUME NEW c \in calls, Lose(c) PROVE TypeOK'
  BY <1>8 DEF Lose, TypeOK, upload
<1>9. CASE Delete \/ LoseDelete
  BY <1>9 DEF Delete, LoseDelete, TypeOK, upload
<1>10. CASE Crash
  <2>1. file' \in [len: 0 .. Size, holes: SUBSET (1 .. Size)]
    BY <1>10, WrittenType DEF Crash, Torn, TypeOK, Call
  <2>2. crashes' \in 0 .. MaxCrashes
    BY <1>10, UploadAssumption DEF Crash, TypeOK
  <2>3. QED
    BY <1>10, <2>1, <2>2 DEF Crash, TypeOK
<1>11. CASE UNCHANGED vars
  BY <1>11 DEF vars, TypeOK
<1>12. QED
  BY <1>3, <1>5, <1>6, <1>7, <1>8, <1>9, <1>10, <1>11 DEF Next

LEMMA OneWritesStep == ASSUME TypeOK, OneWrites, [Next]_vars PROVE OneWrites'
<1> SUFFICES ASSUME ~ Overlap, NEW a \in calls', NEW b \in calls', Active(a), Active(b)
             PROVE  a = b
  BY DEF OneWrites, Active
<1>1. ASSUME NEW c \in calls, Works(c) PROVE a = b
  <2>1. CASE calls' = calls \ {c}
    BY <2>1 DEF OneWrites
  <2>2. ASSUME NEW at, calls' = (calls \ {c}) \cup {[c EXCEPT !.at = at]},
               \A d \in calls \ {c} : ~ Active(d)
        PROVE  a = b
    BY <2>2
  <2>3. Active(c) => \A d \in calls \ {c} : ~ Active(d)
    BY DEF OneWrites
  <2>4. CASE CheckOffset(c)
    BY <2>1, <2>2, <2>4 DEF CheckOffset, Goes, Fails, Turn, Active
  <2>5. CASE Truncate(c)
    BY <2>1, <2>2, <2>3, <2>5 DEF Truncate, Handler, Goes, Fails, Active
  <2>6. CASE Write(c)
    BY <2>1, <2>2, <2>3, <2>6 DEF Write, Handler, Goes, Ends, Active
  <2>7. CASE WriteFails(c)
    BY <2>1, <2>7 DEF WriteFails, Fails
  <2>8. CASE CheckZip(c)
    BY <2>1, <2>2, <2>3, <2>8 DEF CheckZip, Handler, Goes, Fails, Active
  <2>9. CASE Rename(c)
    BY <2>1, <2>2, <2>3, <2>9 DEF Rename, Handler, Goes, Fails, Active
  <2>10. CASE Tidy(c)
    BY <2>1, <2>10 DEF Tidy, Ends, Fails
  <2>11. QED
    BY <1>1, <2>4, <2>5, <2>6, <2>7, <2>8, <2>9, <2>10 DEF Works
<1>2. CASE Send \/ CancelUpload
  BY <1>2 DEF Send, CancelUpload, Request, OneWrites, Active
<1>3. CASE Break \/ Delete \/ LoseDelete \/ Crash \/ UNCHANGED vars
  BY <1>3 DEF Break, Delete, LoseDelete, Crash, vars, OneWrites
<1>4. ASSUME NEW c \in calls, Lose(c) PROVE a = b
  BY <1>4 DEF Lose, OneWrites
<1>5. QED
  BY <1>1, <1>2, <1>3, <1>4 DEF Next

LEMMA RenamedStep == ASSUME TypeOK, Renamed, [Next]_vars PROVE Renamed'
<1>1. ASSUME NEW c \in calls, Works(c) PROVE Renamed'
  <2>1. c.offset \in Offsets
    BY DEF TypeOK, Call
  <2>2. CASE CheckOffset(c) \/ Truncate(c)
    BY <2>2 DEF CheckOffset, Truncate, Handler, Goes, Fails, Renamed, upload, TypeOK, Call
  <2>3. CASE Write(c)
    <3>1. ChunkEnd(c.offset) < Size \/ ChunkEnd(c.offset) = Size
      BY <2>1, EndFacts
    <3>2. QED
      BY <2>3, <3>1 DEF Write, Goes, Ends, Renamed, TypeOK, Call
  <2>4. CASE WriteFails(c) \/ Tidy(c)
    BY <2>4 DEF WriteFails, Tidy, Fails, Ends, Renamed
  <2>5. CASE CheckZip(c)
    BY <2>5 DEF CheckZip, Handler, Goes, Fails, Renamed, TypeOK, Call
  <2>6. CASE Rename(c)
    BY <2>6 DEF Rename, Handler, Goes, Fails, Renamed, TypeOK, Call
  <2>7. QED
    BY <1>1, <2>2, <2>3, <2>4, <2>5, <2>6 DEF Works
<1>2. CASE Send \/ CancelUpload
  BY <1>2 DEF Send, CancelUpload, Request, Renamed, upload
<1>3. CASE Break \/ Delete \/ LoseDelete \/ Crash \/ UNCHANGED vars
  BY <1>3 DEF Break, Delete, LoseDelete, Crash, vars, upload, Renamed
<1>4. ASSUME NEW c \in calls, Lose(c) PROVE Renamed'
  BY <1>4 DEF Lose, Renamed, upload
<1>5. QED
  BY <1>1, <1>2, <1>3, <1>4 DEF Next

LEMMA DoneIsThereStep == ASSUME TypeOK, Renamed, DoneIsThere, [Next]_vars PROVE DoneIsThere'
<1>1. place = "folder" => place' = "folder"
  BY DEF Next, Send, Break, CancelUpload, Lose, Works, CheckOffset, Truncate, Write, WriteFails,
         CheckZip, Rename, Tidy, Delete, LoseDelete, Crash, vars, upload
<1>2. ASSUME NEW c \in calls, Works(c), client'.state = "done" PROVE client.state = "done" \/ place = "folder"
  <2>1. ASSUME Fails(c) PROVE client.state = "done"
    BY <1>2, <2>1 DEF Fails, AfterError, TypeOK
  <2>2. ASSUME Ends(c), ChunkEnd(c.offset) < Size PROVE client.state = "done"
    <3>1. ChunkEnd(c.offset) # Size
      BY <2>2, UploadAssumption
    <3>2. QED
      BY <1>2, <2>2, <3>1 DEF Ends, AfterAnswer, TypeOK
  <2>3. QED
    BY <1>2, <2>1, <2>2
    DEF Works, CheckOffset, Truncate, Write, WriteFails, CheckZip, Rename, Tidy, Handler, Goes, Renamed
<1>3. ASSUME ~ \E c \in calls : Works(c), client'.state = "done" PROVE client.state = "done"
  BY <1>3 DEF Next, Send, Break, AfterError, CancelUpload, Lose, Delete, LoseDelete, Crash, vars, TypeOK
<1>4. QED
  BY <1>1, <1>2, <1>3 DEF DoneIsThere

LEMMA GrowsStep ==
  ASSUME TypeOK, OneWrites, PartGrows, Whole, Renamed, [Next]_vars
  PROVE  PartGrows' /\ Whole'
<1> DEFINE Grows == /\ place = "part" => file.holes = {}
                    /\ \A c \in calls :
                         /\ c.at = "truncate" /\ place = "part" => c.offset <= file.len
                         /\ c.at = "write" /\ place = "part" => file.len = c.offset
                         /\ c.at \in {"zip", "rename"} /\ place = "part" => file.len = Size
                         /\ c.at = "write" => place # "folder"
<1> SUFFICES ASSUME ~ Overlap PROVE Grows' /\ WholeFile'
  BY DEF PartGrows, Whole
<1>1. Grows /\ WholeFile
  BY DEF PartGrows, Whole
<1>2. file.len \in 0 .. Size /\ file.holes \subseteq 1 .. Size /\ file = [len |-> file.len, holes |-> file.holes]
  BY DEF TypeOK
<1>3. ASSUME NEW c \in calls, c.at = "write", NEW to \in c.offset .. ChunkEnd(c.offset),
             file' = Written(c.offset, to), place = "part"
      PROVE  file'.holes = {} /\ file'.len = to
  <2>1. c.offset \in Nat /\ to \in Nat /\ c.offset <= to
    BY EndFacts DEF TypeOK, Call
  <2>2. file.len = c.offset /\ file.holes = {}
    BY <1>1, <1>3
  <2>3. file.len + 1 .. c.offset = {}
    BY <2>1, <2>2
  <2>4. QED
    BY <1>3, <2>1, <2>2, <2>3 DEF Written
<1>4. ASSUME NEW c \in calls, Works(c) PROVE Grows' /\ WholeFile'
  <2>1. c.offset \in Offsets /\ c.offset \in Nat
    BY EndFacts DEF TypeOK, Call
  <2>2. ASSUME Active(c) \/ \A d \in calls \ {c} : ~ Active(d) PROVE \A d \in calls \ {c} : d.at = "sent"
    BY <2>2 DEF OneWrites, Active
  <2>3. ChunkEnd(c.offset) \in c.offset .. ChunkEnd(c.offset)
    BY <2>1, EndFacts
  <2>4. CASE CheckOffset(c)
    BY <1>1, <2>4 DEF CheckOffset, Turn, Goes, Fails, WholeFile, upload, TypeOK, Call
  <2>5. CASE Truncate(c)
    <3>1. \A d \in calls \ {c} : d.at = "sent"
      BY <2>2, <2>5 DEF Truncate, Handler, Active
    <3>2. CASE place # "part"
      BY <1>1, <2>5, <3>1, <3>2 DEF Truncate, Fails, WholeFile
    <3>3. CASE place = "part"
      <4>1. c.offset <= file.len /\ file.holes = {}
        BY <1>1, <2>5, <3>3 DEF Truncate, Handler
      <4>2. (file.holes \cup (file.len + 1 .. Size)) \cap (1 .. c.offset) = {}
        BY <1>2, <2>1, <4>1
      <4>3. file'.holes = {} /\ file'.len = c.offset /\ place' = "part"
        BY <2>5, <3>3, <4>2 DEF Truncate
      <4>4. \A d \in calls' : d.at = "sent" \/ (d.at = "write" /\ d.offset = c.offset)
        BY <2>5, <3>1, <3>3 DEF Truncate, Goes, TypeOK, Call
      <4>5. QED
        BY <4>3, <4>4 DEF WholeFile
    <3>4. QED
      BY <3>2, <3>3
  <2>6. CASE Write(c)
    <3>1. \A d \in calls \ {c} : d.at = "sent"
      BY <2>2, <2>6 DEF Write, Handler, Active
    <3>2. place' = place /\ place # "folder"
      BY <1>1, <2>6 DEF Write, Handler
    <3>3. place = "part" => file'.holes = {} /\ file'.len = ChunkEnd(c.offset)
      BY <1>3, <2>3, <2>6 DEF Write, Handler
    <3>4. \A d \in calls' : d.at = "sent" \/ (d.at = "zip" /\ ChunkEnd(c.offset) = Size)
      BY <2>1, <2>6, <3>1, EndFacts DEF Write, Goes, Ends, TypeOK, Call
    <3>5. QED
      BY <3>2, <3>3, <3>4 DEF WholeFile
  <2>7. CASE WriteFails(c)
    <3>1. \A d \in calls \ {c} : d.at = "sent"
      BY <2>2, <2>7 DEF WriteFails, Handler, Active
    <3>2. place' = place /\ place # "folder"
      BY <1>1, <2>7 DEF WriteFails, Handler
    <3>3. place = "part" => file'.holes = {}
      BY <1>3, <2>7 DEF WriteFails, Handler, Torn
    <3>4. \A d \in calls' : d.at = "sent"
      BY <2>7, <3>1 DEF WriteFails, Fails
    <3>5. QED
      BY <3>2, <3>3, <3>4 DEF WholeFile
  <2>8. CASE CheckZip(c)
    BY <1>1, <2>8 DEF CheckZip, Handler, Goes, Fails, WholeFile, TypeOK, Call
  <2>9. CASE Rename(c)
    <3>1. \A d \in calls \ {c} : d.at = "sent"
      BY <2>2, <2>9 DEF Rename, Handler, Active
    <3>2. CASE place # "part"
      BY <1>1, <2>9, <3>2 DEF Rename, Fails, WholeFile
    <3>3. CASE place = "part"
      <4>1. file.len = Size /\ file.holes = {} /\ file' = file
        BY <1>1, <2>9, <3>3 DEF Rename, Handler
      <4>2. place' = "folder" /\ \A d \in calls' : d.at \in {"sent", "tidy"}
        BY <2>9, <3>1, <3>3 DEF Rename, Goes, TypeOK, Call
      <4>3. QED
        BY <1>2, <4>1, <4>2 DEF WholeFile
    <3>4. QED
      BY <3>2, <3>3
  <2>10. CASE Tidy(c)
    BY <1>1, <2>10 DEF Tidy, Ends, Fails, WholeFile
  <2>11. QED
    BY <1>4, <2>4, <2>5, <2>6, <2>7, <2>8, <2>9, <2>10 DEF Works
<1>5. CASE Send \/ CancelUpload
  BY <1>1, <1>5 DEF Send, CancelUpload, Request, WholeFile, upload
<1>6. CASE Break \/ Delete \/ LoseDelete \/ UNCHANGED vars
  BY <1>1, <1>6 DEF Break, Delete, LoseDelete, WholeFile, vars, upload
<1>7. ASSUME NEW c \in calls, Lose(c) PROVE Grows' /\ WholeFile'
  BY <1>1, <1>7 DEF Lose, WholeFile, upload
<1>8. CASE Crash
  <2>1. place' = place /\ \A d \in calls' : d.at = "sent"
    BY <1>8 DEF Crash
  <2>2. CASE UNCHANGED file
    BY <1>1, <2>1, <2>2 DEF WholeFile
  <2>3. ASSUME NEW c \in calls, c.at = "write", Torn(c) PROVE Grows' /\ WholeFile'
    <3>1. place = "part" => file'.holes = {}
      BY <1>3, <2>3 DEF Torn
    <3>2. place # "folder"
      BY <1>1, <2>3
    <3>3. QED
      BY <2>1, <3>1, <3>2 DEF WholeFile
  <2>4. QED
    BY <1>8, <2>2, <2>3 DEF Crash
<1>9. QED
  BY <1>4, <1>5, <1>6, <1>7, <1>8 DEF Next

LEMMA UploadStep == UploadInv /\ [Next]_vars => UploadInv'
BY TypeStep, OneWritesStep, GrowsStep, RenamedStep, DoneIsThereStep DEF UploadInv

LEMMA UploadInvariant == Spec => []UploadInv
BY UploadInit, UploadStep, PTL DEF Spec

-----------------------------------------------------------------------------

\* TypeOK holds of every upload.
THEOREM UploadTypeCorrect == Spec => []TypeOK
<1>1. UploadInv => TypeOK
  BY DEF UploadInv
<1>2. QED
  BY <1>1, UploadInvariant, PTL

\* If requests write one at a time, an export in the imports folder is all of
\* what was uploaded: a chunk that comes again, late or torn, leaves no hole.
THEOREM WholeWhenThere == ASSUME ~ Overlap PROVE Spec => []WholeFile
<1>1. UploadInv => WholeFile
  BY DEF UploadInv, Whole
<1>2. QED
  BY <1>1, UploadInvariant, PTL

\* The browser takes an upload for done only when the export is in the folder,
\* whether or not requests overlap.
THEOREM DoneMeansThere == Spec => []DoneIsThere
<1>1. UploadInv => DoneIsThere
  BY DEF UploadInv
<1>2. QED
  BY <1>1, UploadInvariant, PTL

=============================================================================
