----------------------------- MODULE ReplyTurn -----------------------------
(***************************************************************************)
(* One reply's thread from its start to its last write: the rounds with    *)
(* the chat model, the tools it calls, Stop at any point, and the title    *)
(* that a new chat gets while its first reply is made.                     *)
(*                                                                         *)
(* The chat model calls tools only in a round that offers them.  What a    *)
(* tool makes is GeneratedMedia's business; here it succeeds, fails or is  *)
(* refused by moderation.                                                  *)
(***************************************************************************)
EXTENDS Naturals

CONSTANTS
  MaxToolRounds,  \* MAX_TOOL_ROUNDS: model calls in one reply (4 in the code)
  MaxCalls        \* bound on the tool calls of one round

ASSUME BoundsAssumption == MaxToolRounds \in Nat \ {0} /\ MaxCalls \in Nat

VARIABLES
  mode,      \* "auto" offers tools; "text" does not; "direct": Image and Video mode
  pc,        \* where the thread is
  round,     \* round_no
  offered,   \* whether this round offers tools
  offer,     \* offer_tools
  text,      \* whether this round wrote text
  left,      \* tool calls of this round still to run
  results,   \* what this round's tools returned, unread by the model yet
  outcome,   \* the reply's status: "streaming" until the last write
  ending,    \* the status it is going to have
  marked,    \* whether "*(stopped)*" was appended
  cancel,    \* the cancel flag
  title,     \* the chat's title: "new" is DEFAULT_TITLE
  titler,    \* the title's job
  served,    \* history: a round made media and all its tools succeeded
  late       \* history: model calls, tools and generations begun after Stop

vars == <<mode, pc, round, offered, offer, text, left, results, outcome, ending,
          marked, cancel, title, titler, served, late>>

loop == <<round, offered, offer, text, left, results, served>>

chat == <<title, titler>>

Modes == {"auto", "text", "direct"}

Results == {"made", "saved", "failed", "moderated"}

\* "none": the chat has a title; "waived": its prompt will do.
Titlers == {"none", "waived", "running", "named", "failed"}

\* Every field has one of its values.
TypeOK ==
  /\ mode \in Modes
  /\ pc \in {"start", "direct", "generating", "round", "streaming", "answered", "tools", "tool",
             "ran", "ended", "joining", "checking", "naming", "writing", "over"}
  /\ round \in 0 .. MaxToolRounds - 1
  /\ offered \in BOOLEAN /\ offer \in BOOLEAN /\ text \in BOOLEAN
  /\ left \in 0 .. MaxCalls
  /\ results \subseteq Results
  /\ outcome \in {"streaming", "done", "error"}
  /\ ending \in {"done", "error"}
  /\ marked \in BOOLEAN /\ cancel \in BOOLEAN /\ served \in BOOLEAN
  /\ title \in {"new", "user", "model", "prompt", "gone"}
  /\ titler \in Titlers
  /\ late \in Nat

Init ==
  /\ mode \in Modes
  /\ pc = "start"
  /\ round = 0
  /\ offered = FALSE /\ offer = TRUE /\ text = FALSE
  /\ left = 0
  /\ results = {}
  /\ outcome = "streaming"
  /\ ending = "done"
  /\ marked = FALSE /\ cancel = FALSE
  /\ title \in {"new", "user"}
  /\ titler = "none"
  /\ served = FALSE
  /\ late = 0

Begun == late' = IF cancel THEN late + 1 ELSE late

Finish(status) == pc' = "ended" /\ ending' = status

-----------------------------------------------------------------------------
(* The title, before the reply *)

\* _start_title: an untitled chat with a prompt gets a job, which has a thread
\* unless no text model is there to ask.
StartTitle(job) ==
  /\ pc = "start"
  /\ job # "none" => title = "new"
  /\ mode = "direct" => job # "running"
  /\ titler' = job
  /\ pc' = IF mode = "direct" THEN "direct" ELSE "round"
  /\ UNCHANGED <<mode, outcome, ending, marked, cancel, title, late>>
  /\ UNCHANGED loop

-----------------------------------------------------------------------------
(* Image and Video mode: one generation, which Stop does not reach *)

DirectBegins ==
  /\ pc = "direct"
  /\ Begun
  /\ pc' = "generating"
  /\ UNCHANGED <<mode, outcome, ending, marked, cancel>>
  /\ UNCHANGED loop /\ UNCHANGED chat

DirectEnds(status) ==
  /\ pc \in {"direct", "generating"}
  /\ pc = "direct" => status = "error"
  /\ Finish(status)
  /\ UNCHANGED <<mode, outcome, marked, cancel, late>>
  /\ UNCHANGED loop /\ UNCHANGED chat

-----------------------------------------------------------------------------
(* Chat with tools *)

\* Mutant: the last round offers tools as well.
StartRoundWithTools ==
  /\ pc = "round"
  /\ Begun
  /\ pc' = "streaming"
  /\ offered' = (mode = "auto" /\ offer)
  /\ text' = FALSE /\ left' = 0 /\ results' = {}
  /\ UNCHANGED <<mode, round, offer, outcome, ending, marked, cancel, served>>
  /\ UNCHANGED chat

\* The model is called with all results so far; the last round has no tools.
StartRound ==
  /\ pc = "round"
  /\ Begun
  /\ pc' = "streaming"
  /\ offered' = (mode = "auto" /\ offer /\ round < MaxToolRounds - 1)
  /\ text' = FALSE /\ left' = 0 /\ results' = {}
  /\ UNCHANGED <<mode, round, offer, outcome, ending, marked, cancel, served>>
  /\ UNCHANGED chat

\* _stream_round, which Stop cuts short with what came until then.
Stream(wrote, n) ==
  /\ pc = "streaming"
  /\ n > 0 => offered
  /\ text' = wrote
  /\ left' = n
  /\ pc' = "answered"
  /\ UNCHANGED <<mode, round, offered, offer, results, outcome, ending, marked, cancel, served, late>>
  /\ UNCHANGED chat

\* No text model; the call fails, is cut off or takes too long; a tool raises
\* what is no OpenRouterError.
Breaks ==
  /\ pc \in {"round", "streaming", "tool"}
  /\ pc = "round" => round = 0
  /\ Finish("error")
  /\ UNCHANGED <<mode, outcome, marked, cancel, late>>
  /\ UNCHANGED loop /\ UNCHANGED chat

Answered ==
  /\ pc = "answered"
  /\ \/ (cancel \/ left = 0) /\ Finish("done")
     \/ ~ cancel /\ left > 0 /\ pc' = "tools" /\ UNCHANGED ending
  /\ UNCHANGED <<mode, outcome, marked, cancel, late>>
  /\ UNCHANGED loop /\ UNCHANGED chat

ToolBegins ==
  /\ pc = "tools" /\ left > 0
  /\ Begun
  /\ left' = left - 1
  /\ pc' = "tool"
  /\ UNCHANGED <<mode, round, offered, offer, text, results, outcome, ending, marked, cancel, served>>
  /\ UNCHANGED chat

\* _run_tool
ToolReturns(result) ==
  /\ pc = "tool"
  /\ results' = results \cup {result}
  /\ pc' = "ran"
  /\ UNCHANGED <<mode, round, offered, offer, text, left, outcome, ending, marked, cancel, served, late>>
  /\ UNCHANGED chat

\* Mutant: the tools of a round run to their end.
ToolDoneAnyway ==
  /\ pc = "ran"
  /\ pc' = "tools"
  /\ UNCHANGED <<mode, outcome, ending, marked, cancel, late>>
  /\ UNCHANGED loop /\ UNCHANGED chat

ToolDone ==
  /\ pc = "ran"
  /\ \/ cancel /\ Finish("done")
     \/ ~ cancel /\ pc' = "tools" /\ UNCHANGED ending
  /\ UNCHANGED <<mode, outcome, marked, cancel, late>>
  /\ UNCHANGED loop /\ UNCHANGED chat

MadeAll == "made" \in results /\ results \subseteq {"made", "saved"}

\* The loop's head: after the last round the reply is done.
NextRound ==
  /\ round' = round + 1
  /\ IF round + 1 < MaxToolRounds
     THEN pc' = "round" /\ UNCHANGED ending
     ELSE Finish("done")

\* Mutant: the model may go on with tools after its media was made.
JudgeOffersOn ==
  /\ pc = "tools" /\ left = 0
  /\ served' = (served \/ MadeAll)
  /\ \/ /\ "moderated" \in results \/ (MadeAll /\ text)
        /\ Finish("done")
        /\ UNCHANGED <<round, offer>>
     \/ /\ "moderated" \notin results /\ ~ (MadeAll /\ text)
        /\ NextRound
        /\ UNCHANGED offer
  /\ UNCHANGED <<mode, offered, text, left, results, outcome, marked, cancel, late>>
  /\ UNCHANGED chat

\* The round's tools have all run: a moderation block ends the reply, and so do
\* text and media together; media without text leaves the text to write.
Judge ==
  /\ pc = "tools" /\ left = 0
  /\ served' = (served \/ MadeAll)
  /\ \/ /\ "moderated" \in results \/ (MadeAll /\ text)
        /\ Finish("done")
        /\ UNCHANGED <<round, offer>>
     \/ /\ "moderated" \notin results /\ ~ (MadeAll /\ text)
        /\ NextRound
        /\ offer' = (offer /\ ~ MadeAll)
  /\ UNCHANGED <<mode, offered, text, left, results, outcome, marked, cancel, late>>
  /\ UNCHANGED chat

-----------------------------------------------------------------------------
(* The end of the reply *)

Mark ==
  /\ pc = "ended"
  /\ marked' = (cancel /\ ending = "done")
  /\ pc' = IF titler = "none" THEN "writing" ELSE "joining"
  /\ UNCHANGED <<mode, outcome, ending, cancel, late>>
  /\ UNCHANGED loop /\ UNCHANGED chat

\* Mutant: the wait for the title has no limit.
JoinTitler ==
  /\ pc = "joining"
  /\ titler # "running"
  /\ pc' = "checking"
  /\ UNCHANGED <<mode, outcome, ending, marked, cancel, late>>
  /\ UNCHANGED loop /\ UNCHANGED chat

\* _finish_title waits for the job at most TITLE_WAIT_SECONDS; a job that is
\* late is ignored from then on.
JoinTitle ==
  /\ pc = "joining"
  /\ titler' = IF titler = "running" THEN "failed" ELSE titler
  /\ pc' = "checking"
  /\ UNCHANGED <<mode, outcome, ending, marked, cancel, title, late>>
  /\ UNCHANGED loop

CheckTitle ==
  /\ pc = "checking"
  /\ pc' = IF title = "new" THEN "naming" ELSE "writing"
  /\ UNCHANGED <<mode, outcome, ending, marked, cancel, late>>
  /\ UNCHANGED loop /\ UNCHANGED chat

GiveTitle ==
  /\ pc = "naming"
  /\ title' = IF title = "gone" THEN "gone" ELSE IF titler = "named" THEN "model" ELSE "prompt"
  /\ pc' = "writing"
  /\ UNCHANGED <<mode, outcome, ending, marked, cancel, titler, late>>
  /\ UNCHANGED loop

Write ==
  /\ pc = "writing"
  /\ outcome' = ending
  /\ pc' = "over"
  /\ UNCHANGED <<mode, ending, marked, cancel, late>>
  /\ UNCHANGED loop /\ UNCHANGED chat

-----------------------------------------------------------------------------
(* Meanwhile *)

\* The title's own thread; nothing limits the model's answer for certain.
TitleAnswers(job) ==
  /\ titler = "running"
  /\ titler' = job
  /\ UNCHANGED <<mode, pc, outcome, ending, marked, cancel, title, late>>
  /\ UNCHANGED loop

\* api_cancel_message
Stop ==
  /\ pc # "over" /\ ~ cancel
  /\ cancel' = TRUE
  /\ UNCHANGED <<mode, pc, outcome, ending, marked, late>>
  /\ UNCHANGED loop /\ UNCHANGED chat

\* The user renames the chat, clears its title, or deletes it.
Rename(new) ==
  /\ title \notin {"gone", new}
  /\ title' = new
  /\ UNCHANGED <<mode, pc, outcome, ending, marked, cancel, titler, late>>
  /\ UNCHANGED loop

ThreadStep ==
  \/ \E job \in {"none", "waived", "running"} : StartTitle(job)
  \/ DirectBegins
  \/ \E status \in {"done", "error"} : DirectEnds(status)
  \/ StartRound
  \/ \E wrote \in BOOLEAN, n \in 0 .. MaxCalls : Stream(wrote, n)
  \/ Breaks
  \/ Answered
  \/ ToolBegins
  \/ \E result \in Results : ToolReturns(result)
  \/ ToolDone
  \/ Judge
  \/ Mark
  \/ JoinTitle
  \/ CheckTitle
  \/ GiveTitle
  \/ Write

Next ==
  \/ ThreadStep
  \/ \E job \in {"named", "failed"} : TitleAnswers(job)
  \/ Stop
  \/ \E new \in {"new", "user", "gone"} : Rename(new)

Spec == Init /\ [][Next]_vars

\* The reply's thread keeps running: its calls have timeouts.  Nothing is owed
\* by the title's thread.
FairSpec == Spec /\ WF_vars(ThreadStep)

-----------------------------------------------------------------------------
(* Properties *)

\* The model reads what its tools returned: a reply that nobody stopped does not
\* end on a tool's result, unless moderation blocked it or text and media are
\* both there.  That takes a last round without tools.
EveryResultRead ==
  pc = "ended" /\ ending = "done" /\ ~ cancel =>
    \/ results = {}
    \/ "moderated" \in results
    \/ MadeAll /\ text

\* "Asking it to continue just makes it start over (duplicate story + duplicate
\* image)": once a round has made its media, no tool runs again.
NoSecondHelping == [][ToolBegins => ~ served]_vars

\* After Stop the thread begins at most one more model call, tool or generation:
\* the one it had already decided on.
StopTakesHold == late <= 1

\* A chat that was untitled when its reply started has a title when the thread
\* turns to the last write, whatever the title model did, and whoever renamed it
\* meanwhile.
Titled == [][pc' = "writing" /\ pc # "writing" /\ titler # "none" => title' # "new"]_vars

\* Every reply gets its last write, even if the title model never answers.
TurnEnds == <>(outcome # "streaming")

\* A reply ends, and its chat has a title by then (turn.py:94-104, 640-665).
EndsTitled == TurnEnds /\ Titled

=============================================================================
