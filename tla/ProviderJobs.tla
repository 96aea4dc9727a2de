---------------------------- MODULE ProviderJobs ----------------------------
(***************************************************************************)
(* A video at a provider: it is queued there, its poller asks until it is  *)
(* ready, fetches the file and records it, across lost answers, limits,    *)
(* restarts and deletions.  The providers differ in what an answer means,  *)
(* and Venice hands the file over with the answer: it is kept in a         *)
(* temporary folder until the poller moves it.  Pollo's images are tasks   *)
(* too, but the thread that asks for one waits for it, and no job id is    *)
(* stored.                                                                 *)
(*                                                                         *)
(* Which reply an item is in, what it costs, and what no handler catches   *)
(* is MediaItems' business.                                                *)
(***************************************************************************)
EXTENDS Naturals

CONSTANTS
  Jobs,            \* the videos and images
  MAX_POLL_ERRORS, \* VIDEO_MAX_POLL_ERRORS
  MaxPolls,        \* polls before VIDEO_POLL_TIMEOUT is over
  MaxRestarts      \* bound on the restarts

ASSUME JobsAssumption ==
  /\ MAX_POLL_ERRORS \in Nat \ {0} /\ MaxPolls \in Nat \ {0} /\ MaxRestarts \in Nat

VARIABLES
  kind,   \* the provider; Venice's private models give a link instead of the file;
          \* "image": an image of Pollo's
  remote, \* the job at the provider
  item,   \* the media item: "pending" has no job id yet, "queued" has one
  why,    \* why it failed
  poller, \* where the thread that submits, then the one that polls, is
  polls, errors, \* since the thread started
  links,  \* _download_urls: in memory
  temp,   \* the file in the temporary folder, or its .part
  file,   \* the file in the chat's folder under this poller's name, or its .part
  found,  \* whether this thread had an answer while the video was ready (a ghost)
  restarts

thread == <<poller, polls, errors>>
jobVars == <<kind, remote, item, why, thread, links, temp, file, found, restarts>>

Kinds == {"openrouter", "pollo", "venice", "private", "image"}
Copies == {"none", "part", "torn", "whole"}

\* Items, threads and files have a valid shape.
JobsTypeOK ==
  /\ kind \in [Jobs -> Kinds]
  /\ remote \in [Jobs -> {"none", "running", "ready", "failed", "gone"}]
  /\ item \in [Jobs -> {"none", "pending", "queued", "done", "error", "removed"}]
  /\ why \in [Jobs -> {"", "refused", "polling", "timeout", "failed", "download", "interrupted"}]
  /\ poller \in [Jobs -> {"none", "submits", "starts", "asleep", "asks",
                         "retrieves", "downloads", "saves", "records"}]
  /\ polls \in [Jobs -> 0 .. MaxPolls] /\ errors \in [Jobs -> 0 .. MAX_POLL_ERRORS]
  /\ links \subseteq Jobs
  /\ temp \in [Jobs -> Copies] /\ file \in [Jobs -> Copies]
  /\ found \in [Jobs -> BOOLEAN]
  /\ restarts \in 0 .. MaxRestarts

JobsInit ==
  /\ kind \in [Jobs -> Kinds]
  /\ remote = [j \in Jobs |-> "none"]
  /\ item = [j \in Jobs |-> "none"] /\ why = [j \in Jobs |-> ""]
  /\ poller = [j \in Jobs |-> "none"]
  /\ polls = [j \in Jobs |-> 0] /\ errors = [j \in Jobs |-> 0]
  /\ links = {}
  /\ temp = [j \in Jobs |-> "none"] /\ file = [j \in Jobs |-> "none"]
  /\ found = [j \in Jobs |-> FALSE]
  /\ restarts = 0

Goes(j, to) == poller' = [poller EXCEPT ![j] = to] /\ UNCHANGED <<polls, errors>>

\* update_chat_media_item: nothing, when the item is gone.
Updated(j, status, reason) ==
  IF item[j] \in {"pending", "queued"}
    THEN item' = [item EXCEPT ![j] = status] /\ why' = [why EXCEPT ![j] = reason]
    ELSE UNCHANGED <<item, why>>

GivesUp(j, reason) == Updated(j, "error", reason) /\ Goes(j, "none")

-----------------------------------------------------------------------------
(* A reply or "Regenerate" asks for one *)

\* The card is stored, then the job is submitted.
Ask(j) ==
  /\ item[j] = "none"
  /\ item' = [item EXCEPT ![j] = "pending"] /\ Goes(j, "submits")
  /\ UNCHANGED <<kind, remote, why, links, temp, file, found, restarts>>

\* A failed one is tried again, as another job.
Regenerate(j) ==
  /\ item[j] = "error" /\ poller[j] = "none"
  /\ item' = [item EXCEPT ![j] = "pending"] /\ why' = [why EXCEPT ![j] = ""]
  /\ Goes(j, "submits")
  /\ remote' = [remote EXCEPT ![j] = "none"] /\ links' = links \ {j}
  /\ temp' = [temp EXCEPT ![j] = "none"] /\ file' = [file EXCEPT ![j] = "none"]
  /\ found' = [found EXCEPT ![j] = FALSE]
  /\ UNCHANGED <<kind, restarts>>

\* An error status is a refusal; a connection may drop before the answer is here.
Answers == {"queued", "refused", "lost"}

\* The job at the provider.
Asked(j, answer) ==
  remote' = IF answer = "refused" THEN remote ELSE [remote EXCEPT ![j] = "running"]

\* openrouter.submit_video
OpenRouterSubmits(j) == kind[j] = "openrouter" /\ UNCHANGED links

\* pollo.submit_video and generate_image: the images it needs are uploaded first.
PolloSubmits(j) == kind[j] \in {"pollo", "image"} /\ UNCHANGED links

\* Mutant: the link is not kept.
LinkDropped(j, answer) == kind[j] \in {"venice", "private"} /\ UNCHANGED links

\* venice.submit_video: only a private model's answer has a link.
VeniceSubmits(j, answer) ==
  /\ kind[j] \in {"venice", "private"}
  /\ links' = IF kind[j] = "private" /\ answer = "queued" THEN links \cup {j} ELSE links

\* Nothing is queued, or it is; when the answer is lost nobody here will know.
Queue(j) ==
  /\ poller[j] = "submits"
  /\ \E answer \in Answers :
       /\ OpenRouterSubmits(j) \/ PolloSubmits(j) \/ VeniceSubmits(j, answer)
       /\ Asked(j, answer)
       /\ IF answer = "queued" THEN Goes(j, "starts") /\ UNCHANGED <<item, why>>
          ELSE GivesUp(j, "refused")
  /\ UNCHANGED <<kind, temp, file, found, restarts>>

\* A video's job id is stored and its poller started; the item may be gone already.
Start(j) ==
  /\ poller[j] = "starts"
  /\ IF kind[j] = "image" THEN UNCHANGED <<item, why>> ELSE Updated(j, "queued", "")
  /\ poller' = [poller EXCEPT ![j] = "asleep"]
  /\ polls' = [polls EXCEPT ![j] = 0] /\ errors' = [errors EXCEPT ![j] = 0]
  /\ UNCHANGED <<kind, remote, links, temp, file, found, restarts>>

-----------------------------------------------------------------------------
(* The poller *)

\* A poller stops when its item is gone; _wait does not look.
GoesOn(j) == kind[j] = "image" \/ item[j] = "queued"

Wake(j) ==
  /\ poller[j] = "asleep"
  /\ \/ polls[j] = MaxPolls /\ GivesUp(j, "timeout")
     \/ /\ polls[j] < MaxPolls
        /\ polls' = [polls EXCEPT ![j] = @ + 1]
        /\ poller' = [poller EXCEPT ![j] = IF GoesOn(j) THEN "asks" ELSE "none"]
        /\ UNCHANGED <<item, why, errors>>
  /\ UNCHANGED <<kind, remote, links, temp, file, found, restarts>>

\* _video_file: where Venice's finished answers are put, and looked for.
InPlace(j) == temp[j] \in {"torn", "whole"}

\* The job at the provider; what is gone has no answer (openrouter.get_video).
Reports(j) ==
  CASE remote[j] = "running" -> {"in_progress"}
    [] remote[j] = "ready" -> {"completed"}
    [] remote[j] = "failed" -> {"failed"}
    [] OTHER -> {}

\* _task_state: but for a bare HTTP status, an error is a failed video, and so is
\* an answer that makes no sense.
PolloSays(j) == Reports(j) \cup {"failed"}

\* Mutant: Venice is asked again for what it has handed over.
VeniceAskedAgain(j) == Reports(j) \cup {"failed"}

\* venice.get_video: any client error but 429 is a failed video; a private model's
\* is complete only with its link.
VeniceSays(j) ==
  IF InPlace(j) THEN {"completed"}
  ELSE {"failed"} \cup
       IF remote[j] = "ready" /\ kind[j] = "private" /\ j \notin links THEN {"in_progress"}
       ELSE Reports(j)

\* get_video, when there is an answer.
Says(j) ==
  CASE kind[j] = "openrouter" -> Reports(j)
    [] kind[j] \in {"pollo", "image"} -> PolloSays(j)
    [] OTHER -> VeniceSays(j)

\* Mutant: one more poll than the budget.
SpentPast(j) == errors[j] + 1 > MAX_POLL_ERRORS

Spent(j) == errors[j] + 1 >= MAX_POLL_ERRORS

Missed(j) ==
  /\ errors' = [errors EXCEPT ![j] = @ + 1]
  /\ IF Spent(j)
       THEN Updated(j, "error", "polling") /\ poller' = [poller EXCEPT ![j] = "none"]
       ELSE poller' = [poller EXCEPT ![j] = "asleep"] /\ UNCHANGED <<item, why>>
  /\ UNCHANGED <<polls, found>>

Forgiven(j) == [errors EXCEPT ![j] = 0]

HasAnswer(j, to) ==
  /\ found' = [found EXCEPT ![j] = @ \/ remote[j] = "ready"]
  /\ errors' = Forgiven(j)
  /\ poller' = [poller EXCEPT ![j] = to]
  /\ UNCHANGED polls

Poll(j) ==
  /\ poller[j] = "asks"
  /\ \/ ~InPlace(j) /\ Missed(j)
     \/ "in_progress" \in Says(j) /\ HasAnswer(j, "asleep") /\ UNCHANGED <<item, why>>
     \/ "failed" \in Says(j) /\ HasAnswer(j, "none") /\ Updated(j, "error", "failed")
     \/ /\ "completed" \in Says(j)
        /\ IF kind[j] = "venice" /\ ~InPlace(j)
             THEN Goes(j, "retrieves") /\ UNCHANGED found ELSE HasAnswer(j, "downloads")
        /\ UNCHANGED <<item, why>>
  /\ UNCHANGED <<kind, remote, links, temp, file, restarts>>

\* Mutant: Venice's answer is written where the finished file is looked for.
InOnePlace == "torn"

PartOf == "part"

\* Venice's answer is the file: as it is written, and when all of it is there.
Retrieve(j) ==
  /\ poller[j] = "retrieves"
  /\ \/ temp[j] = "none" /\ temp' = [temp EXCEPT ![j] = PartOf] /\ UNCHANGED <<thread, found, item, why>>
     \/ temp[j] # "none" /\ Missed(j) /\ UNCHANGED temp
     \/ /\ temp[j] # "none"
        /\ temp' = [temp EXCEPT ![j] = "whole"]
        /\ HasAnswer(j, "downloads") /\ UNCHANGED <<item, why>>
  /\ UNCHANGED <<kind, remote, links, file, restarts>>

\* pollo's and openrouter's download_video, and Venice's from a link: by a .part.
Streams(j) == kind[j] \notin {"venice", "image"} /\ file' = [file EXCEPT ![j] = "part"]

\* Venice's file is moved, which may be a copy.
Moves(j) == kind[j] = "venice" /\ file' = [file EXCEPT ![j] = "torn"]

\* An image is written under its name when it is here and not black.
Writes(j) == kind[j] = "image" /\ file' = [file EXCEPT ![j] = "torn"]

\* It is tried once.
Download(j) ==
  /\ poller[j] = "downloads"
  /\ \/ (Streams(j) \/ Moves(j) \/ Writes(j)) /\ Goes(j, "saves") /\ UNCHANGED <<item, why>>
     \/ GivesUp(j, "download") /\ UNCHANGED file
  /\ UNCHANGED <<kind, remote, links, temp, found, restarts>>

Save(j) ==
  /\ poller[j] = "saves"
  /\ \/ /\ file' = [file EXCEPT ![j] = IF kind[j] = "venice" THEN temp[j] ELSE "whole"]
        /\ temp' = [temp EXCEPT ![j] = "none"]
        /\ Goes(j, "records") /\ UNCHANGED <<item, why>>
     \/ kind[j] # "image" /\ GivesUp(j, "download") /\ UNCHANGED <<file, temp>>
  /\ UNCHANGED <<kind, remote, links, found, restarts>>

Record(j) ==
  /\ poller[j] = "records"
  /\ Updated(j, "done", "") /\ Goes(j, "none")
  /\ UNCHANGED <<kind, remote, links, temp, file, found, restarts>>

-----------------------------------------------------------------------------
(* The provider, the user, and restarts *)

Render(j) ==
  /\ \/ remote[j] = "running" /\ \E to \in {"ready", "failed"} : remote' = [remote EXCEPT ![j] = to]
     \/ remote[j] = "ready" /\ remote' = [remote EXCEPT ![j] = "gone"]
  /\ UNCHANGED <<kind, item, why, thread, links, temp, file, found, restarts>>

\* The item goes with its turn or chat.
Remove(j) ==
  /\ item[j] \notin {"none", "removed"}
  /\ item' = [item EXCEPT ![j] = "removed"]
  /\ UNCHANGED <<kind, remote, why, thread, links, temp, file, found, restarts>>

\* Mutant: what has no poller is left to the next restart.
ResumesNone(j) == FALSE

\* startup_resume_chat: every pending item with a job has a poller again.
Resumes(j) == item[j] = "queued"

\* The temporary folder may be emptied.
Restart ==
  /\ restarts < MaxRestarts /\ restarts' = restarts + 1
  /\ poller' = [j \in Jobs |-> IF Resumes(j) THEN "asleep" ELSE "none"]
  /\ polls' = [j \in Jobs |-> 0] /\ errors' = [j \in Jobs |-> 0]
  /\ found' = [j \in Jobs |-> FALSE]
  /\ item' = [j \in Jobs |-> IF item[j] = "pending" THEN "error" ELSE item[j]]
  /\ why' = [j \in Jobs |-> IF item[j] = "pending" THEN "interrupted" ELSE why[j]]
  /\ links' = {}
  /\ temp' = temp \/ temp' = [j \in Jobs |-> "none"]
  /\ file' = [j \in Jobs |-> IF item[j] = "done" THEN file[j] ELSE "none"]
  /\ UNCHANGED <<kind, remote>>

Runs(j) == Queue(j) \/ Start(j) \/ Wake(j) \/ Poll(j) \/ Retrieve(j) \/ Download(j) \/ Save(j) \/ Record(j)

JobsNext ==
  \/ \E j \in Jobs : Ask(j) \/ Regenerate(j) \/ Runs(j) \/ Render(j) \/ Remove(j)
  \/ Restart

JobsSpec == JobsInit /\ [][JobsNext]_jobVars

\* Threads run, and every request they make is answered or times out.
FairJobsSpec == JobsSpec /\ \A j \in Jobs : WF_jobVars(Runs(j))

-----------------------------------------------------------------------------
(* Properties *)

\* A video that is shown is whole, whenever the server was stopped: what a
\* crash left half-written is neither moved nor recorded (venice.py:874-880,
\* pollo.py:313-322, openrouter.py:461-476).
DoneIsWhole == \A j \in Jobs : item[j] = "done" => file[j] = "whole"

\* Venice hands a video over once: one that it has handed over ends in an error
\* only when moving it fails, though the poller is stopped in between and the
\* video is no longer there (venice.py:853-881, polling.py:48-53).
HandedOverIsKept == \A j \in Jobs : item[j] = "error" /\ InPlace(j) => why[j] = "download"

\* A poller's time is over only if it had no answer while the video was ready; but a
\* private model's whose link was lost in a restart is asked for in vain
\* (venice.py:889-894).
TimedOutUnseen ==
  \A j \in Jobs : why[j] = "timeout" /\ found[j] => kind[j] = "private" /\ restarts > 0

Shown == [j \in Jobs |-> IF item[j] = "queued" THEN "pending" ELSE item[j]]

Abstract == INSTANCE GeneratedMedia WITH Items <- Jobs, state <- Shown

\* What is promised of a generated media, its end included, holds for a video
\* through every poll, restart and removal (polling.py:19-91).
Lifecycle == Abstract!FairSpec

=============================================================================
