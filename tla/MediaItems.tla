----------------------------- MODULE MediaItems -----------------------------
(***************************************************************************)
(* The generated images and videos of one reply: the reply thread that     *)
(* makes them, the workers that try failed ones again, the pollers that    *)
(* wait for rendered videos, the requests that delete media, turns and     *)
(* chats meanwhile, and the restart that resumes what was rendering.       *)
(*                                                                         *)
(* A media item lives in its message's media list, or, once its turn was   *)
(* deleted, in the library.  One database call is one atomic step.  What a *)
(* generation costs is 1; every generation that succeeds is counted in     *)
(* `billed', a history variable.                                           *)
(***************************************************************************)
EXTENDS Naturals

CONSTANTS
  Items,          \* media items the reply may come to have
  NoItem,         \* no media item
  Clients,        \* browser tabs: each has at most one request in a handler
  MaxPolls,       \* polls before a poller's deadline (270 in the code)
  MaxPollErrors,  \* VIDEO_MAX_POLL_ERRORS: failed polls in a row (10 in the code)
  MaxRetries,     \* bound on regenerate requests
  MaxRestarts,    \* bound on restarts of the server
  OtherErrors,    \* whether a generation in a reply may raise an error that is
                  \* no OpenRouterError (a timeout, a refused connection)
  DeleteWhileBusy \* whether the Media page deletes while something is made

ASSUME NoItemAssumption == NoItem \notin Items

ASSUME BoundsAssumption ==
  /\ MaxPolls \in Nat \ {0}
  /\ MaxPollErrors \in Nat \ {0}
  /\ MaxRetries \in Nat
  /\ MaxRestarts \in Nat
  /\ OtherErrors \in BOOLEAN
  /\ DeleteWhileBusy \in BOOLEAN

VARIABLES
  reply,     \* the reply's row: its status, or "deleted"
  cost,      \* the cost on that row
  items,     \* the media items, wherever they live
  turn,      \* the reply thread
  workers,   \* regenerate workers and video pollers
  reqs,      \* the requests being handled
  billed,    \* generations that succeeded
  retries,
  restarts

vars == <<reply, cost, items, turn, workers, reqs, billed, retries, restarts>>

Kinds == {"image", "video"}

Item == [place: {"none", "message", "library", "gone"}, kind: Kinds,
         status: {"pending", "done", "error"}, job: BOOLEAN]

Turn == [at: {"ready", "making", "made", "ending", "over"},
         item: Items \cup {NoItem}, cost: Nat]

\* at: regenerating; waiting to poll; a poll is out; about to read and about to
\* write the reply's cost.  `try' tells the threads of one item apart: the number
\* of the retry it is for, or 0.
Worker == [item: Items, try: 0 .. MaxRetries, kind: {"regen", "poll"},
           at: {"work", "extra", "wait", "poll", "readcost", "addcost"},
           polls: 0 .. MaxPolls, errors: 0 .. MaxPollErrors, seen: Nat]

Request == [client: Clients, op: {"regen", "delete"}, at: {"mark", "get", "write"},
            drop: SUBSET Items, try: 0 .. MaxRetries, snap: [Items -> Item]]

\* Rows, threads and requests have a valid shape.
TypeOK ==
  /\ reply \in {"streaming", "done", "error", "deleted"}
  /\ cost \in Nat
  /\ items \in [Items -> Item]
  /\ turn \in Turn
  /\ turn.at \in {"making", "made"} => turn.item \in Items
  /\ workers \subseteq Worker
  /\ reqs \subseteq Request
  /\ billed \in Nat
  /\ retries \in 0 .. MaxRetries
  /\ restarts \in 0 .. MaxRestarts

Init ==
  /\ reply = "streaming"
  /\ cost = 0
  /\ items = [i \in Items |-> [place |-> "none", kind |-> "image", status |-> "pending", job |-> FALSE]]
  /\ turn = [at |-> "ready", item |-> NoItem, cost |-> 0]
  /\ workers = {}
  /\ reqs = {}
  /\ billed = 0
  /\ retries = 0
  /\ restarts = 0

-----------------------------------------------------------------------------
(* The database's calls *)

Stored(i) == items[i].place \in {"message", "library"}

Rendering(i) == Stored(i) /\ items[i].status = "pending"

\* append_chat_media_item: nothing is stored once the message is gone.
Appended(i, kind, status) ==
  [items EXCEPT ![i] = [place |-> IF reply = "deleted" THEN "gone" ELSE "message",
                        kind |-> kind, status |-> status, job |-> FALSE]]

\* Mutant: an item that moved to the library is not found there.
UpdatedInMessage(i, status, job) ==
  IF items[i].place = "message" THEN [items EXCEPT ![i].status = status, ![i].job = job] ELSE items

\* update_chat_media_item: in the message, else in the library, else nowhere.
Updated(i, status, job) ==
  IF Stored(i) THEN [items EXCEPT ![i].status = status, ![i].job = job] ELSE items

NewWorker(i, try, kind, at) ==
  [item |-> i, try |-> try, kind |-> kind, at |-> at, polls |-> 0, errors |-> 0, seen |-> 0]

WorkerGoes(w, at) == workers' = (workers \ {w}) \cup {[w EXCEPT !.at = at]}

WorkerEnds(w) == workers' = workers \ {w}

-----------------------------------------------------------------------------
(* The reply thread *)

\* A tool call or a direct mode puts up the card of what it is about to make.
TurnBegins(i, kind) ==
  /\ turn.at = "ready"
  /\ items[i].place = "none"
  /\ items' = Appended(i, kind, "pending")
  /\ turn' = [turn EXCEPT !.at = "making", !.item = i]
  /\ UNCHANGED <<reply, cost, workers, reqs, billed, retries, restarts>>

\* An image came back: its cost joins the reply's own running total.
TurnMakesImage ==
  /\ turn.at = "making"
  /\ items[turn.item].kind = "image"
  /\ items' = Updated(turn.item, "done", FALSE)
  /\ turn' = [turn EXCEPT !.at = "made", !.cost = @ + 1]
  /\ billed' = billed + 1
  /\ UNCHANGED <<reply, cost, workers, reqs, retries, restarts>>

\* The same generation may have returned more images.
TurnAddsImage(i) ==
  /\ turn.at = "made"
  /\ items[i].place = "none"
  /\ items' = Appended(i, "image", "done")
  /\ UNCHANGED <<reply, cost, turn, workers, reqs, billed, retries, restarts>>

TurnHasMade ==
  /\ turn.at = "made"
  /\ turn' = [turn EXCEPT !.at = "ready", !.item = NoItem]
  /\ UNCHANGED <<reply, cost, items, workers, reqs, billed, retries, restarts>>

\* A video was submitted: the item gets its job, the job gets its poller.
TurnSubmitsVideo ==
  /\ turn.at = "making"
  /\ items[turn.item].kind = "video"
  /\ items' = Updated(turn.item, items[turn.item].status, TRUE)
  /\ workers' = workers \cup {NewWorker(turn.item, 0, "poll", "wait")}
  /\ turn' = [turn EXCEPT !.at = "ready", !.item = NoItem]
  /\ UNCHANGED <<reply, cost, reqs, billed, retries, restarts>>

\* An OpenRouterError marks the item; the chat model may go on after it.
TurnFails ==
  /\ turn.at = "making"
  /\ items' = Updated(turn.item, "error", items[turn.item].job)
  /\ turn' = [turn EXCEPT !.at = "ready", !.item = NoItem]
  /\ UNCHANGED <<reply, cost, workers, reqs, billed, retries, restarts>>

\* Any other error ends the reply and says nothing of the item.
TurnBreaks ==
  /\ OtherErrors
  /\ turn.at = "making"
  /\ turn' = [turn EXCEPT !.at = "ending", !.item = NoItem]
  /\ UNCHANGED <<reply, cost, items, workers, reqs, billed, retries, restarts>>

\* Turn.run's last write: the row gets the outcome and the thread's own total.
TurnEnds(status) ==
  /\ turn.at \in {"ready", "ending"}
  /\ turn.at = "ending" => status = "error"
  /\ turn' = [turn EXCEPT !.at = "over"]
  /\ IF reply = "deleted" THEN UNCHANGED <<reply, cost>>
     ELSE reply' = status /\ cost' = turn.cost
  /\ UNCHANGED <<items, workers, reqs, billed, retries, restarts>>

TurnStep ==
  \/ \E i \in Items, kind \in Kinds : TurnBegins(i, kind)
  \/ TurnMakesImage
  \/ \E i \in Items : TurnAddsImage(i)
  \/ TurnHasMade
  \/ TurnSubmitsVideo
  \/ TurnFails
  \/ TurnBreaks
  \/ \E status \in {"done", "error"} : TurnEnds(status)

-----------------------------------------------------------------------------
(* Regenerate workers and video pollers *)

RegenMakesImage(w) ==
  /\ w.kind = "regen" /\ w.at = "work"
  /\ items[w.item].kind = "image"
  /\ items' = Updated(w.item, "done", items[w.item].job)
  /\ billed' = billed + 1
  /\ WorkerGoes(w, "readcost")
  /\ UNCHANGED <<reply, cost, turn, reqs, retries, restarts>>

RegenAddsImage(w, i) ==
  /\ w.kind = "regen" /\ w.at = "readcost"
  /\ items[i].place = "none"
  /\ items' = Appended(i, "image", "done")
  /\ UNCHANGED <<reply, cost, turn, workers, reqs, billed, retries, restarts>>

RegenSubmitsVideo(w) ==
  /\ w.kind = "regen" /\ w.at = "work"
  /\ items[w.item].kind = "video"
  /\ items' = Updated(w.item, items[w.item].status, TRUE)
  /\ workers' = (workers \ {w}) \cup {NewWorker(w.item, w.try, "poll", "wait")}
  /\ UNCHANGED <<reply, cost, turn, reqs, billed, retries, restarts>>

\* Mutant: a failed try is charged as well.
RegenFailsAtACost(w) ==
  /\ w.kind = "regen" /\ w.at = "work"
  /\ items' = Updated(w.item, "error", items[w.item].job)
  /\ WorkerGoes(w, "readcost")
  /\ UNCHANGED <<reply, cost, turn, reqs, billed, retries, restarts>>

\* The worker catches every error.
RegenFails(w) ==
  /\ w.kind = "regen" /\ w.at = "work"
  /\ items' = Updated(w.item, "error", items[w.item].job)
  /\ WorkerEnds(w)
  /\ UNCHANGED <<reply, cost, turn, reqs, billed, retries, restarts>>

\* The poller sleeps, then looks whether anyone still has the item.
PollerWakes(w) ==
  /\ w.at = "wait"
  /\ w.polls < MaxPolls
  /\ IF Stored(w.item)
     THEN workers' = (workers \ {w}) \cup {[w EXCEPT !.at = "poll", !.polls = @ + 1]}
     ELSE WorkerEnds(w)
  /\ UNCHANGED <<reply, cost, items, turn, reqs, billed, retries, restarts>>

PollerTimesOut(w) ==
  /\ w.at = "wait"
  /\ w.polls = MaxPolls
  /\ items' = Updated(w.item, "error", items[w.item].job)
  /\ WorkerEnds(w)
  /\ UNCHANGED <<reply, cost, turn, reqs, billed, retries, restarts>>

\* Mutant: every answer starts the deadline over.
PollAnswersAnew(w) ==
  /\ w.at = "poll"
  /\ workers' = (workers \ {w}) \cup {[w EXCEPT !.at = "wait", !.polls = 0, !.errors = 0]}
  /\ UNCHANGED <<reply, cost, items, turn, reqs, billed, retries, restarts>>

\* Still rendering: an answer, so the errors in a row start over.
PollAnswers(w) ==
  /\ w.at = "poll"
  /\ workers' = (workers \ {w}) \cup {[w EXCEPT !.at = "wait", !.errors = 0]}
  /\ UNCHANGED <<reply, cost, items, turn, reqs, billed, retries, restarts>>

PollErrs(w) ==
  /\ w.at = "poll"
  /\ w.errors + 1 < MaxPollErrors
  /\ workers' = (workers \ {w}) \cup {[w EXCEPT !.at = "wait", !.errors = @ + 1]}
  /\ UNCHANGED <<reply, cost, items, turn, reqs, billed, retries, restarts>>

\* The job failed, its file could not be had, or the errors are too many.
PollFails(w) ==
  /\ w.at = "poll"
  /\ items' = Updated(w.item, "error", items[w.item].job)
  /\ WorkerEnds(w)
  /\ UNCHANGED <<reply, cost, turn, reqs, billed, retries, restarts>>

\* The file is saved; the reply's cost grows if the item is still in the reply.
PollFinishes(w) ==
  /\ w.at = "poll"
  /\ items' = Updated(w.item, "done", items[w.item].job)
  /\ billed' = billed + 1
  /\ IF items[w.item].place = "message" THEN WorkerGoes(w, "readcost") ELSE WorkerEnds(w)
  /\ UNCHANGED <<reply, cost, turn, reqs, retries, restarts>>

\* _add_message_cost reads the message in one call and writes it in another.
ReadCost(w) ==
  /\ w.at = "readcost"
  /\ IF reply = "deleted" THEN WorkerEnds(w)
     ELSE workers' = (workers \ {w}) \cup {[w EXCEPT !.at = "addcost", !.seen = cost]}
  /\ UNCHANGED <<reply, cost, items, turn, reqs, billed, retries, restarts>>

AddCost(w) ==
  /\ w.at = "addcost"
  /\ cost' = IF reply = "deleted" THEN cost ELSE w.seen + 1
  /\ WorkerEnds(w)
  /\ UNCHANGED <<reply, items, turn, reqs, billed, retries, restarts>>

WorkerStep(w) ==
  \/ RegenMakesImage(w)
  \/ \E i \in Items : RegenAddsImage(w, i)
  \/ RegenSubmitsVideo(w)
  \/ RegenFails(w)
  \/ PollerWakes(w)
  \/ PollerTimesOut(w)
  \/ PollAnswers(w)
  \/ PollErrs(w)
  \/ PollFails(w)
  \/ PollFinishes(w)
  \/ ReadCost(w)
  \/ AddCost(w)

-----------------------------------------------------------------------------
(* Requests *)

Free(c) == \A r \in reqs : r.client # c

Quiet == turn.at = "over" /\ workers = {}

Asks(c, op, at, drop, try) ==
  reqs' = reqs \cup {[client |-> c, op |-> op, at |-> at, drop |-> drop, try |-> try, snap |-> items]}

\* api_regenerate_media reads the message and refuses unless the item failed ...
AskRegenerate(c, i) ==
  /\ Free(c)
  /\ retries < MaxRetries
  /\ retries' = retries + 1
  /\ reply \in {"done", "error"}
  /\ items[i].place = "message" /\ items[i].status = "error"
  /\ Asks(c, "regen", "mark", {i}, retries + 1)
  /\ UNCHANGED <<reply, cost, items, turn, workers, billed, restarts>>

\* ... then marks it pending, and starts a worker if it is still in the message.
Mark(r, i) ==
  /\ r.at = "mark"
  /\ r.drop = {i}
  /\ items' = Updated(i, "pending", FALSE)
  /\ workers' = workers \cup
       (IF items[i].place = "message" THEN {NewWorker(i, r.try, "regen", "work")} ELSE {})
  /\ reqs' = reqs \ {r}
  /\ UNCHANGED <<reply, cost, turn, billed, retries, restarts>>

\* api_delete_media reads the chat's messages ...
AskDeleteMedia(c, i) ==
  /\ Free(c)
  /\ DeleteWhileBusy \/ Quiet
  /\ Stored(i) /\ items[i].status = "done"
  /\ Asks(c, "delete", "write", {i}, 0)
  /\ UNCHANGED <<reply, cost, items, turn, workers, billed, retries, restarts>>

\* api_clear_blocked finds the moderated items and drops those in the library ...
AskClearBlocked(c, S) ==
  /\ Free(c)
  /\ DeleteWhileBusy \/ Quiet
  /\ S # {}
  /\ \A i \in S : Stored(i) /\ items[i].status = "error"
  /\ items' = [i \in Items |-> IF i \in S /\ items[i].place = "library"
                               THEN [items[i] EXCEPT !.place = "gone"] ELSE items[i]]
  /\ Asks(c, "delete", "get", {i \in S : items[i].place = "message"}, 0)
  /\ UNCHANGED <<reply, cost, turn, workers, billed, retries, restarts>>

GetMessage(r) ==
  /\ r.at = "get"
  /\ reqs' = (reqs \ {r}) \cup {[r EXCEPT !.at = "write", !.snap = items]}
  /\ UNCHANGED <<reply, cost, items, turn, workers, billed, retries, restarts>>

\* ... and both write the message's whole media list as they read it, less what
\* is deleted.
WriteMedia(r) ==
  /\ r.at = "write"
  /\ LET had   == {i \in Items : r.snap[i].place = "message"}
         wrote == reply # "deleted" /\ had \cap r.drop # {}
     IN  items' = [i \in Items |->
           IF wrote /\ i \in had \ r.drop THEN r.snap[i]
           ELSE IF \/ wrote /\ items[i].place = "message"
                   \/ i \in r.drop /\ items[i].place = "library"
                THEN [items[i] EXCEPT !.place = "gone"]
                ELSE items[i]]
  /\ reqs' = reqs \ {r}
  /\ UNCHANGED <<reply, cost, turn, workers, billed, retries, restarts>>

\* delete_chat_exchange: what has a file or a job moves to the library.
DeleteTurn(c) ==
  /\ Free(c)
  /\ reply \in {"done", "error"}
  /\ reply' = "deleted"
  /\ items' = [i \in Items |->
       IF items[i].place # "message" THEN items[i]
       ELSE [items[i] EXCEPT !.place = IF @ = "message" /\ (items[i].job \/ items[i].status = "done")
                                       THEN "library" ELSE "gone"]]
  /\ UNCHANGED <<cost, turn, workers, reqs, billed, retries, restarts>>

\* delete_conversation: the messages and the library's rows go together.
DeleteChat(c) ==
  /\ Free(c)
  /\ \/ reply # "deleted"
     \/ \E i \in Items : Stored(i)
  /\ reply' = "deleted"
  /\ items' = [i \in Items |-> IF Stored(i) THEN [items[i] EXCEPT !.place = "gone"] ELSE items[i]]
  /\ UNCHANGED <<cost, turn, workers, reqs, billed, retries, restarts>>

\* api_delete_library_item
DeleteDetached(c, i) ==
  /\ Free(c)
  /\ items[i].place = "library"
  /\ items' = [items EXCEPT ![i].place = "gone"]
  /\ UNCHANGED <<reply, cost, turn, workers, reqs, billed, retries, restarts>>

\* The process dies; startup_resume_chat polls the videos on and fails the rest.
Restart ==
  /\ restarts < MaxRestarts
  /\ restarts' = restarts + 1
  /\ reply' = IF reply = "streaming" THEN "error" ELSE reply
  /\ turn' = [turn EXCEPT !.at = "over"]
  /\ reqs' = {}
  /\ workers' = {NewWorker(i, 0, "poll", "wait") : i \in {j \in Items : Rendering(j) /\ items[j].job}}
  /\ items' = [i \in Items |->
       IF Rendering(i) /\ items[i].place = "message" /\ ~ items[i].job
       THEN [items[i] EXCEPT !.status = "error"] ELSE items[i]]
  /\ UNCHANGED <<cost, billed, retries>>

RequestStep(r) ==
  \/ \E i \in Items : Mark(r, i)
  \/ GetMessage(r)
  \/ WriteMedia(r)

Next ==
  \/ TurnStep
  \/ \E w \in workers : WorkerStep(w)
  \/ \E c \in Clients :
       \/ \E i \in Items : AskRegenerate(c, i) \/ AskDeleteMedia(c, i) \/ DeleteDetached(c, i)
       \/ \E S \in SUBSET Items : AskClearBlocked(c, S)
       \/ DeleteTurn(c)
       \/ DeleteChat(c)
  \/ \E r \in reqs : RequestStep(r)
  \/ Restart

Spec == Init /\ [][Next]_vars

\* The server's threads keep running, and the providers' calls return: each has
\* a timeout.  Clients and restarts owe nothing.
Fairness ==
  /\ WF_vars(TurnStep)
  /\ \A i \in Items, n \in 0 .. MaxRetries :
       WF_vars(\E w \in workers : w.item = i /\ w.try = n /\ WorkerStep(w))

FairSpec == Spec /\ Fairness

-----------------------------------------------------------------------------
(* Properties *)

\* A card that says it is rendering has a thread that will end it.
RenderingHasWorker ==
  \A i \in Items : Rendering(i) =>
    \/ turn.item = i /\ turn.at = "making"
    \/ \E w \in workers : w.item = i /\ w.at \in {"work", "wait", "poll"}

\* One generation at a time: no item has two threads that may still give it an
\* outcome, so none is made, or paid for, twice at once.
OneWorker ==
  \A i \in Items :
    /\ \A v, w \in {u \in workers : u.item = i /\ u.at \in {"work", "wait", "poll"}} : v = w
    /\ turn.item = i /\ turn.at = "making" =>
         \A w \in workers : w.item # i

\* What renders has exactly one thread that will end it, whatever failed, was
\* tried again, deleted or restarted (polling.py:25-91, routes_turns.py:222-244).
OneThreadEach == RenderingHasWorker /\ OneWorker

\* Retries, late pollers and restarts never charge a reply for more than what
\* was made.
NeverOvercharged == cost <= billed

\* "A reply's cost includes its media": once all is quiet, everything made for
\* a reply that is whole is on its cost.
CostIncludesMedia ==
  Quiet /\ reply \in {"done", "error"} /\ (\A i \in Items : items[i].place \in {"none", "message"})
    => cost = billed

\* What the user sees of an item is a generated media's life.
Shown == [i \in Items |->
  CASE Stored(i) -> items[i].status
    [] items[i].place = "none" -> "none"
    [] items[i].place = "gone" -> "removed"]

Abstract == INSTANCE GeneratedMedia WITH state <- Shown

Lifecycle == Abstract!FairSpec

=============================================================================
