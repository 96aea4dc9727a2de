----------------------------- MODULE ChunkUpload -----------------------------
(***************************************************************************)
(* Uploading a ChatGPT export in chunks.  The browser sends them one after *)
(* the other and each up to `Tries' times; a request may be lost, reach    *)
(* the server long after the browser gave it up, or lose its answer.       *)
(*                                                                         *)
(* Whatever is written at an offset is what the file has there, so the     *)
(* part file is its length and its holes: units that were never written.   *)
(***************************************************************************)
EXTENDS Naturals, FiniteSets

CONSTANTS
  Size,        \* of the export
  ChunkSize,   \* UPLOAD_CHUNK
  Tries,       \* CHUNK_TRIES
  MaxCrashes,  \* bound on the restarts of the server
  Overlap      \* whether two requests may write at the same time

ASSUME UploadAssumption ==
  /\ Size \in Nat \ {0} /\ ChunkSize \in Nat \ {0} /\ Tries \in Nat \ {0} /\ MaxCrashes \in Nat
  /\ Overlap \in BOOLEAN

VARIABLES
  file,     \* what was uploaded
  place,    \* its name: the upload's part, an export in the imports folder, or none
  meta,     \* whether the upload's .json is there
  calls,    \* the requests on their way or in their handler
  client,   \* the browser: the chunk it sends and which try it is
  deleting, \* a DELETE of the upload is on its way
  crashes

vars == <<file, place, meta, calls, client, deleting, crashes>>

Offsets == 0 .. Size - 1

ChunkEnd(o) == IF o + ChunkSize < Size THEN o + ChunkSize ELSE Size

\* `at' is what the handler does next.
Call == [offset: Offsets, try: 1 .. Tries, at: {"sent", "truncate", "write", "zip", "rename", "tidy"}]

\* The part's length, holes and name, the requests and the browser have a valid shape.
TypeOK ==
  /\ file \in [len: 0 .. Size, holes: SUBSET (1 .. Size)]
  /\ place \in {"part", "folder", "gone"}
  /\ meta \in BOOLEAN /\ deleting \in BOOLEAN
  /\ calls \subseteq Call
  /\ client \in [offset: Offsets, try: 1 .. Tries, state: {"ready", "waiting", "done", "failed", "cancelled"}]
  /\ crashes \in 0 .. MaxCrashes

\* api_start_upload has answered.
Init ==
  /\ file = [len |-> 0, holes |-> {}]
  /\ place = "part" /\ meta = TRUE
  /\ calls = {}
  /\ client = [offset |-> 0, try |-> 1, state |-> "ready"]
  /\ deleting = FALSE
  /\ crashes = 0

upload == <<file, place, meta>>

-----------------------------------------------------------------------------
(* The browser *)

Request == [offset |-> client.offset, try |-> client.try, at |-> "sent"]

\* sendChunk
Send ==
  /\ client.state = "ready"
  /\ calls' = calls \cup {Request}
  /\ client' = [client EXCEPT !.state = "waiting"]
  /\ UNCHANGED <<upload, deleting, crashes>>

\* Mutant: the browser tries for ever.
AfterErrorAnyway ==
  /\ client' = [client EXCEPT !.state = "ready"]
  /\ UNCHANGED deleting

\* The chunk again, or, after the last try, the upload given up and deleted.
AfterError ==
  IF client.try < Tries
  THEN client' = [client EXCEPT !.state = "ready", !.try = @ + 1] /\ UNCHANGED deleting
  ELSE client' = [client EXCEPT !.state = "failed"] /\ deleting' = TRUE

\* uploadFile goes on with the next chunk.
AfterAnswer(o) ==
  /\ client' = IF ChunkEnd(o) = Size THEN [client EXCEPT !.state = "done"]
               ELSE [client EXCEPT !.state = "ready", !.offset = ChunkEnd(o), !.try = 1]
  /\ UNCHANGED deleting

\* The connection breaks; the request may go on without it.
Break ==
  /\ client.state = "waiting"
  /\ AfterError
  /\ UNCHANGED <<upload, calls, crashes>>

\* cancelUpload; a try that waits for its time is sent all the same.
CancelUpload ==
  /\ client.state \in {"ready", "waiting"}
  /\ client' = [client EXCEPT !.state = "cancelled"]
  /\ calls' = IF client.state = "ready" /\ client.try > 1 THEN calls \cup {Request} ELSE calls
  /\ deleting' = TRUE
  /\ UNCHANGED <<upload, crashes>>

Lose(c) ==
  /\ c \in calls /\ c.at = "sent"
  /\ calls' = calls \ {c}
  /\ UNCHANGED <<upload, client, deleting, crashes>>

-----------------------------------------------------------------------------
(* The server *)

Goes(c, at) ==
  /\ calls' = (calls \ {c}) \cup {[c EXCEPT !.at = at]}
  /\ UNCHANGED <<client, deleting>>

\* A request ends with an error or as it should, and the browser hears of it if
\* it still waits for this one.
Awaited(c) == client.state = "waiting" /\ client.offset = c.offset /\ client.try = c.try

Fails(c) ==
  /\ calls' = calls \ {c}
  /\ IF Awaited(c) THEN AfterError ELSE UNCHANGED <<client, deleting>>

Ends(c) ==
  /\ calls' = calls \ {c}
  /\ IF Awaited(c) THEN AfterAnswer(c.offset) ELSE UNCHANGED <<client, deleting>>

Handler(c, at) ==
  /\ c \in calls /\ c.at = at
  /\ UNCHANGED crashes

Turn(c) == Overlap \/ \A d \in calls \ {c} : d.at = "sent"

\* Mutant: a chunk may be written behind the end of what arrived.
CheckOffsetNot(c) ==
  /\ Handler(c, "sent") /\ Turn(c)
  /\ IF place = "part" /\ meta THEN Goes(c, "truncate") ELSE Fails(c)
  /\ UNCHANGED upload

\* api_upload_chunk, and the start of _write_chunk.
CheckOffset(c) ==
  /\ Handler(c, "sent") /\ Turn(c)
  /\ IF place = "part" /\ meta /\ c.offset <= file.len THEN Goes(c, "truncate") ELSE Fails(c)
  /\ UNCHANGED upload

\* A file that is shorter is filled up with holes.
Truncate(c) ==
  /\ Handler(c, "truncate")
  /\ IF place = "part"
     THEN /\ file' = [len |-> c.offset,
                      holes |-> (file.holes \cup (file.len + 1 .. Size)) \cap (1 .. c.offset)]
          /\ Goes(c, "write")
     ELSE UNCHANGED file /\ Fails(c)
  /\ UNCHANGED <<place, meta>>

\* The file with everything from offset o up to `to' written.
Written(o, to) ==
  [len |-> IF file.len < to THEN to ELSE file.len,
   holes |-> (file.holes \cup (file.len + 1 .. o)) \ (o + 1 .. to)]

\* The write stops half-way, at a full disk or with the process.
Torn(c) == \E to \in c.offset .. ChunkEnd(c.offset) : file' = Written(c.offset, to)

WriteFails(c) ==
  /\ Handler(c, "write")
  /\ Torn(c)
  /\ Fails(c)
  /\ UNCHANGED <<place, meta>>

Write(c) ==
  /\ Handler(c, "write")
  /\ file' = Written(c.offset, ChunkEnd(c.offset))
  /\ IF ChunkEnd(c.offset) < Size THEN Ends(c) ELSE Goes(c, "zip")
  /\ UNCHANGED <<place, meta>>

\* The zip's directory is at its end, and read in the check.
LooksWhole == file.len = Size /\ \A u \in file.holes : u <= Size - ChunkSize

\* A file that is no export is deleted.
CheckZip(c) ==
  /\ Handler(c, "zip")
  /\ \/ /\ place = "part" /\ LooksWhole
        /\ Goes(c, "rename")
        /\ UNCHANGED <<place, meta>>
     \/ /\ place = "part"
        /\ place' = "gone" /\ meta' = FALSE
        /\ Fails(c)
     \/ /\ place # "part"
        /\ Fails(c)
        /\ UNCHANGED <<place, meta>>
  /\ UNCHANGED file

\* Mutant: the answer does not wait for the rename.
RenameLater(c) ==
  /\ Handler(c, "rename")
  /\ Ends(c)
  /\ UNCHANGED <<file, meta, place>>

\* The first free name is taken.
Rename(c) ==
  /\ Handler(c, "rename")
  /\ IF place = "part"
     THEN place' = "folder" /\ Goes(c, "tidy")
     ELSE UNCHANGED place /\ Fails(c)
  /\ UNCHANGED <<file, meta>>

Tidy(c) ==
  /\ Handler(c, "tidy")
  /\ meta' = FALSE
  /\ IF meta THEN Ends(c) ELSE Fails(c)
  /\ UNCHANGED <<file, place>>

\* api_cancel_upload
Delete ==
  /\ deleting
  /\ deleting' = FALSE
  /\ place' = IF place = "part" THEN "gone" ELSE place
  /\ meta' = FALSE
  /\ UNCHANGED <<file, calls, client, crashes>>

LoseDelete ==
  /\ deleting
  /\ deleting' = FALSE
  /\ UNCHANGED <<upload, calls, client, crashes>>

\* The process dies, in the middle of a write or not; requests that have not
\* reached it may do so later.
Crash ==
  /\ crashes < MaxCrashes
  /\ crashes' = crashes + 1
  /\ calls' = {c \in calls : c.at = "sent"}
  /\ \/ UNCHANGED file
     \/ \E c \in calls : c.at = "write" /\ Torn(c)
  /\ UNCHANGED <<place, meta, client, deleting>>

-----------------------------------------------------------------------------

Works(c) ==
  \/ CheckOffset(c)
  \/ Truncate(c)
  \/ Write(c)
  \/ WriteFails(c)
  \/ CheckZip(c)
  \/ Rename(c)
  \/ Tidy(c)

Next ==
  \/ Send
  \/ Break
  \/ CancelUpload
  \/ \E c \in calls : Lose(c) \/ Works(c)
  \/ Delete
  \/ LoseDelete
  \/ Crash

Spec == Init /\ [][Next]_vars

\* The browser goes on, and notices that a connection is dead.
FairSpec == Spec /\ WF_vars(Send) /\ WF_vars(Break)

-----------------------------------------------------------------------------
(* Properties *)

\* "once it's all there": what gets into the imports folder is all of what the
\* user uploaded, although late copies of earlier chunks truncate what came after.
WholeFile == place = "folder" => file = [len |-> Size, holes |-> {}]

\* The browser starts importing what it uploaded only when it is there.
DoneIsThere == client.state = "done" => place = "folder"

\* The browser comes to an end, whatever is lost.
UploadEnds == <>(client.state \in {"done", "failed", "cancelled"})

=============================================================================
