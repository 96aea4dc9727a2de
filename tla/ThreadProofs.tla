---------------------------- MODULE ThreadProofs ----------------------------
(***************************************************************************)
(* What holds of the two kinds of threads behind a reply, whatever their   *)
(* bounds are: the thread that makes it (ReplyTurn), and the one that      *)
(* submits a job to a provider and polls it (ProviderJobs).                *)
(***************************************************************************)
EXTENDS ReplyTurn, ProviderJobs, TLAPS

(* The reply's thread *)

WithTools == {"tools", "tool", "ran"}

\* Tools only run in a round that offered them, and the last one does not.
RoundsLeft ==
  /\ pc \in {"streaming", "answered"} /\ offered => round + 1 < MaxToolRounds
  /\ pc = "answered" /\ left > 0 => offered
  /\ pc \in WithTools => round + 1 < MaxToolRounds

\* The model has read all there is until the next tool returns.
NothingUnread == pc \in {"start", "direct", "generating", "streaming", "answered"} => results = {}

\* Where the thread still decides what to begin, nothing was begun after Stop.
LateOnce ==
  /\ late > 0 => cancel
  /\ late <= 1
  /\ pc \in {"start", "direct", "round", "tools"} => late = 0

\* After its media was made, no round offers tools.
ServedOnce ==
  /\ served => pc \notin WithTools
  /\ served /\ pc \in {"round", "streaming", "answered"} => ~ offer
  /\ served /\ pc \in {"streaming", "answered"} => ~ offered
  /\ pc \in {"start", "direct", "generating"} => ~ served

TurnInv ==
  /\ TypeOK
  /\ RoundsLeft
  /\ NothingUnread
  /\ EveryResultRead
  /\ LateOnce
  /\ ServedOnce

\* The first state of a reply's thread.
LEMMA TurnInit == Init => TurnInv
<1> SUFFICES ASSUME Init PROVE TurnInv
  OBVIOUS
<1>1. 0 \in 0 .. MaxToolRounds - 1 /\ 0 \in 0 .. MaxCalls
  BY BoundsAssumption
<1>2. TypeOK
  BY <1>1 DEF Init, TypeOK, Modes, Titlers
<1>3. RoundsLeft /\ NothingUnread /\ EveryResultRead
  BY DEF Init, RoundsLeft, NothingUnread, EveryResultRead, WithTools
<1>4. LateOnce /\ ServedOnce
  BY DEF Init, LateOnce, ServedOnce, WithTools
<1>5. QED
  BY <1>2, <1>3, <1>4 DEF TurnInv

\* Steps of the thread before and after the chat with the model.
LEMMA EdgeSteps ==
  ASSUME TurnInv,
         \/ \E job \in {"none", "waived", "running"} : StartTitle(job)
         \/ DirectBegins
         \/ \E status \in {"done", "error"} : DirectEnds(status)
         \/ Mark \/ JoinTitle \/ CheckTitle \/ GiveTitle \/ Write
  PROVE  TurnInv'
<1> USE BoundsAssumption DEF TurnInv, TypeOK, RoundsLeft, NothingUnread, EveryResultRead,
    LateOnce, ServedOnce, WithTools, Modes, Titlers, Results, MadeAll, loop, chat, Finish
<1>1. ASSUME NEW job \in {"none", "waived", "running"}, StartTitle(job) PROVE TurnInv'
  BY <1>1 DEF StartTitle
<1>2. CASE DirectBegins
  BY <1>2 DEF DirectBegins, Begun
<1>3. ASSUME NEW status \in {"done", "error"}, DirectEnds(status) PROVE TurnInv'
  BY <1>3 DEF DirectEnds
<1>4. CASE Mark
  BY <1>4 DEF Mark
<1>5. CASE JoinTitle
  BY <1>5 DEF JoinTitle
<1>6. CASE CheckTitle
  BY <1>6 DEF CheckTitle
<1>7. CASE GiveTitle
  BY <1>7 DEF GiveTitle
<1>8. CASE Write
  BY <1>8 DEF Write
<1>9. QED
  BY <1>1, <1>2, <1>3, <1>4, <1>5, <1>6, <1>7, <1>8

\* A round starts in one of the thread's states.
LEMMA StartRoundTyped == ASSUME TypeOK, StartRound PROVE TypeOK'
<1>1. late' \in Nat
  BY DEF TypeOK, StartRound, Begun
<1>2. left' \in 0 .. MaxCalls /\ results' \subseteq Results
  BY BoundsAssumption DEF StartRound
<1>3. offered' \in BOOLEAN /\ text' \in BOOLEAN
  BY Zenon DEF StartRound
<1>4. UNCHANGED <<mode, round, offer, outcome, ending, marked, cancel, served, title, titler>>
  BY DEF StartRound, chat
<1>5. pc' = "streaming"
  BY DEF StartRound
<1>6. QED
  BY <1>1, <1>2, <1>3, <1>4, <1>5 DEF TypeOK

\* Steps of the chat with the model.
LEMMA ChatSteps ==
  ASSUME TurnInv,
         \/ StartRound
         \/ \E wrote \in BOOLEAN, n \in 0 .. MaxCalls : Stream(wrote, n)
         \/ Breaks \/ Answered \/ ToolBegins
         \/ \E result \in Results : ToolReturns(result)
         \/ ToolDone \/ Judge
  PROVE  TurnInv'
<1> USE BoundsAssumption DEF TurnInv, TypeOK, RoundsLeft, NothingUnread, EveryResultRead,
    LateOnce, ServedOnce, WithTools, Modes, Titlers, Results, MadeAll, loop, chat, Finish
<1>1. CASE StartRound
  <2>1. offered' \in BOOLEAN /\ (offered' => offer /\ round + 1 < MaxToolRounds)
    <3>1. offered' \in BOOLEAN /\ (offered' => offer /\ round < MaxToolRounds - 1)
      BY <1>1, ZenonT(30) DEF StartRound
    <3>2. QED
      BY <3>1
  <2>2. /\ pc' = "streaming" /\ text' = FALSE /\ left' = 0 /\ results' = {}
        /\ UNCHANGED <<mode, round, offer, outcome, ending, marked, cancel, served, title, titler>>
    BY <1>1, Zenon DEF StartRound, chat
  <2>3. TypeOK'
    BY <1>1, StartRoundTyped
  <2>4. RoundsLeft' /\ NothingUnread' /\ EveryResultRead'
    BY <2>1, <2>2
  <2>5. LateOnce' /\ ServedOnce'
    BY <1>1, <2>1, <2>2 DEF StartRound, Begun
  <2>6. QED
    BY <2>3, <2>4, <2>5
<1>2. ASSUME NEW wrote \in BOOLEAN, NEW n \in 0 .. MaxCalls, Stream(wrote, n) PROVE TurnInv'
  BY <1>2 DEF Stream
<1>3. CASE Breaks
  BY <1>3 DEF Breaks
<1>4. CASE Answered
  BY <1>4 DEF Answered
<1>5. CASE ToolBegins
  BY <1>5 DEF ToolBegins, Begun
<1>6. ASSUME NEW result \in Results, ToolReturns(result) PROVE TurnInv'
  BY <1>6 DEF ToolReturns
<1>7. CASE ToolDone
  BY <1>7 DEF ToolDone
<1>8. CASE Judge
  BY <1>8 DEF Judge, NextRound
<1>9. QED
  BY <1>1, <1>2, <1>3, <1>4, <1>5, <1>6, <1>7, <1>8

\* What others do meanwhile.
LEMMA OtherSteps ==
  ASSUME TurnInv,
         \/ \E job \in {"named", "failed"} : TitleAnswers(job)
         \/ Stop
         \/ \E new \in {"new", "user", "gone"} : Rename(new)
         \/ UNCHANGED vars
  PROVE  TurnInv'
<1> USE DEF TurnInv, RoundsLeft, NothingUnread, EveryResultRead, LateOnce, ServedOnce, MadeAll
<1>1. ASSUME NEW job \in {"named", "failed"}, TitleAnswers(job) PROVE TurnInv'
  BY <1>1 DEF TitleAnswers, TypeOK, Titlers, loop
<1>2. CASE Stop
  <2>1. TypeOK'
    BY <1>2 DEF Stop, TypeOK, loop, chat
  <2>2. QED
    BY <1>2, <2>1 DEF Stop, loop, chat
<1>3. ASSUME NEW new \in {"new", "user", "gone"}, Rename(new) PROVE TurnInv'
  BY <1>3 DEF Rename, TypeOK, loop
<1>4. CASE UNCHANGED vars
  <2>1. TypeOK'
    BY <1>4 DEF vars, TypeOK
  <2>2. QED
    BY <1>4, <2>1 DEF vars
<1>5. QED
  BY <1>1, <1>2, <1>3, <1>4

\* The invariant the theorems below rest on.
THEOREM TurnInvariant == Spec => []TurnInv
<1>1. TurnInv /\ [Next]_vars => TurnInv'
  BY EdgeSteps, ChatSteps, OtherSteps DEF Next, ThreadStep
<1>2. QED
  BY <1>1, TurnInit, PTL DEF Spec

\* The reply's thread is always in one of its states, and never in a round that
\* MAX_TOOL_ROUNDS forbids.
THEOREM TurnTypeCorrect == Spec => []TypeOK
<1>1. TurnInv => TypeOK
  BY DEF TurnInv
<1>2. QED
  BY <1>1, TurnInvariant, PTL

\* No reply ends on a tool's result that the model should have read, however
\* many rounds it has.
THEOREM ResultsAreRead == Spec => []EveryResultRead
<1>1. TurnInv => EveryResultRead
  BY DEF TurnInv
<1>2. QED
  BY <1>1, TurnInvariant, PTL

\* After Stop at most one more thing is begun.
THEOREM StopHolds == Spec => []StopTakesHold
<1>1. TurnInv => StopTakesHold
  BY DEF TurnInv, LateOnce, StopTakesHold
<1>2. QED
  BY <1>1, TurnInvariant, PTL

\* No tool runs after a round that made its media.
THEOREM MediaMadeOnce == Spec => NoSecondHelping
<1>1. TurnInv /\ [Next]_vars => [ToolBegins => ~ served]_vars
  BY DEF TurnInv, ServedOnce, WithTools, ToolBegins
<1>2. QED
  BY <1>1, TurnInvariant, PTL DEF Spec, NoSecondHelping

\* A chat that was untitled when its reply started has a title at the last write: no
\* step leads there without one, whoever renames the chat meanwhile.
THEOREM TitleIsGiven == Spec => Titled
<1> DEFINE Due == pc' = "writing" /\ pc # "writing" /\ titler # "none"
<1>1. [Next]_vars => [Due => title' # "new"]_vars
  <2> SUFFICES ASSUME Next, Due PROVE title' # "new"
    BY DEF vars
  <2>1. CASE ThreadStep
    <3>1. CASE Mark
      BY <3>1 DEF Mark
    <3>2. CASE CheckTitle
      BY <3>2 DEF CheckTitle, chat
    <3>3. CASE GiveTitle
      BY <3>3 DEF GiveTitle
    <3>4. CASE ~ (Mark \/ CheckTitle \/ GiveTitle)
      BY <2>1, <3>4 DEF ThreadStep, StartTitle, DirectBegins, DirectEnds, StartRound, Stream, Breaks,
         Answered, ToolBegins, ToolReturns, ToolDone, Judge, NextRound, JoinTitle, Write, Finish
    <3>5. QED
      BY <3>1, <3>2, <3>3, <3>4
  <2>2. CASE \/ \E job \in {"named", "failed"} : TitleAnswers(job)
             \/ Stop
             \/ \E new \in {"new", "user", "gone"} : Rename(new)
    BY <2>2 DEF TitleAnswers, Stop, Rename
  <2>3. QED
    BY <2>1, <2>2 DEF Next
<1>2. QED
  BY <1>1, PTL DEF Spec, Titled

-----------------------------------------------------------------------------
(* A job's thread *)

\* Where a thread may be, and where a poller is.
Places == {"none", "submits", "starts", "asleep", "asks", "retrieves", "downloads", "saves",
           "records"}

Polling == {"asleep", "asks", "retrieves", "downloads", "saves", "records"}

\* Why it may have failed.
Troubles == {"refused", "polling", "timeout", "failed", "download", "interrupted"}

Reasons == Troubles \cup {""}

\* JobsTypeOK, by what changes together.
WorldTyped ==
  /\ kind \in [Jobs -> Kinds]
  /\ remote \in [Jobs -> {"none", "running", "ready", "failed", "gone"}]
  /\ links \subseteq Jobs
  /\ temp \in [Jobs -> Copies] /\ file \in [Jobs -> Copies]
  /\ restarts \in 0 .. MaxRestarts

ItemTyped ==
  /\ item \in [Jobs -> {"none", "pending", "queued", "done", "error", "removed"}]
  /\ why \in [Jobs -> Reasons]

ThreadTyped ==
  /\ poller \in [Jobs -> Places]
  /\ polls \in [Jobs -> 0 .. MaxPolls] /\ errors \in [Jobs -> 0 .. MAX_POLL_ERRORS]

FoundTyped == found \in [Jobs -> BOOLEAN]

\* What Venice's answer leaves in the temporary folder is never torn, a file is
\* whole before it is recorded, and nobody writes to it afterwards.
WholeFirst(j) ==
  /\ temp[j] # "torn"
  /\ kind[j] = "venice" /\ poller[j] \in {"downloads", "saves"} => temp[j] = "whole"
  /\ poller[j] = "records" => file[j] = "whole"
  /\ item[j] = "done" => poller[j] = "none" /\ file[j] = "whole"

\* What was given up has no poller.
GivenUpIsLeft(j) ==
  /\ item[j] = "none" => poller[j] = "none" /\ ~ found[j]
  /\ item[j] = "error" => poller[j] = "none"
  /\ why[j] \in Troubles => item[j] \in {"error", "removed"} /\ poller[j] = "none"

\* A poller has some of its budget left.
BudgetKept(j) == poller[j] \in Polling => errors[j] < MAX_POLL_ERRORS

\* What Venice has handed over has left its thread no wait and no retrieval, but for
\* a restarted one that has its time before it; and it was queued.
Handed(j) ==
  /\ poller[j] = "retrieves" => kind[j] = "venice"
  /\ kind[j] # "image" /\ poller[j] \in Polling => item[j] \notin {"none", "pending"}
  /\ InPlace(j) => /\ kind[j] = "venice" /\ item[j] \notin {"none", "pending"}
                   /\ poller[j] \notin {"submits", "starts", "retrieves"}
                   /\ poller[j] = "asleep" => polls[j] < MaxPolls
                   /\ item[j] = "error" => why[j] = "download"

\* A private model's link may be lost: that takes a restart.
LinkLost(j) == kind[j] = "private" /\ restarts > 0

\* A thread that had an answer while the video was ready waits no more, unless the
\* link is lost.
SeenReady(j) ==
  /\ poller[j] \in {"submits", "starts"} => ~ found[j]
  /\ kind[j] = "private" /\ poller[j] \notin {"none", "submits"} /\ restarts = 0 => j \in links
  /\ found[j] /\ poller[j] \in {"asleep", "asks", "retrieves"} => LinkLost(j)
  /\ why[j] = "timeout" /\ found[j] => LinkLost(j)

\* What holds of each job.
JobOK(j) ==
  WholeFirst(j) /\ GivenUpIsLeft(j) /\ BudgetKept(j) /\ Handed(j) /\ SeenReady(j)

JobsInv == JobsTypeOK /\ \A j \in Jobs : JobOK(j)

\* A step of one job's thread leaves the others as they are.
WorldKept(j) ==
  /\ WorldTyped' /\ restarts' = restarts
  /\ \A i \in Jobs \ {j} :
       /\ kind'[i] = kind[i] /\ remote'[i] = remote[i] /\ (i \in links' <=> i \in links)
       /\ temp'[i] = temp[i] /\ file'[i] = file[i]

ItemKept(j) == ItemTyped' /\ \A i \in Jobs \ {j} : item'[i] = item[i] /\ why'[i] = why[i]

ThreadKept(j) ==
  /\ ThreadTyped'
  /\ \A i \in Jobs \ {j} : poller'[i] = poller[i] /\ polls'[i] = polls[i] /\ errors'[i] = errors[i]

FoundKept(j) == FoundTyped' /\ \A i \in Jobs \ {j} : found'[i] = found[i]

\* Nothing but this job changes.
OnlyThis(j) == WorldKept(j) /\ ItemKept(j) /\ ThreadKept(j) /\ FoundKept(j)

\* What Venice, OpenRouter and Pollo answer.
LEMMA SaysFacts ==
  ASSUME NEW j \in Jobs, remote[j] \in {"none", "running", "ready", "failed", "gone"}
  PROVE  /\ kind[j] = "venice" /\ InPlace(j) => Says(j) = {"completed"}
         /\ "in_progress" \in Says(j) => \/ remote[j] = "running"
                                         \/ /\ remote[j] = "ready" /\ kind[j] = "private"
                                            /\ j \notin links
<1>1. "in_progress" \in Reports(j) => remote[j] = "running"
  BY DEF Reports
<1>2. CASE kind[j] = "openrouter"
  BY <1>1, <1>2 DEF Says
<1>3. CASE kind[j] \in {"pollo", "image"}
  BY <1>1, <1>3 DEF Says, PolloSays
<1>4. CASE kind[j] \notin {"openrouter", "pollo", "image"}
  <2>1. Says(j) = VeniceSays(j)
    BY <1>4 DEF Says
  <2>2. QED
    BY <1>1, <2>1 DEF VeniceSays
<1>5. QED
  BY <1>2, <1>3, <1>4

\* The parts of the type invariant.
LEMMA JobsTyped == JobsTypeOK <=> WorldTyped /\ ItemTyped /\ ThreadTyped /\ FoundTyped
  BY DEF JobsTypeOK, WorldTyped, ItemTyped, ThreadTyped, FoundTyped, Reasons, Troubles, Places

LEMMA JobsTypedNext == JobsTypeOK' <=> WorldTyped' /\ ItemTyped' /\ ThreadTyped' /\ FoundTyped'
<1>1. JobsTypeOK <=> WorldTyped /\ ItemTyped /\ ThreadTyped /\ FoundTyped
  BY JobsTyped
<1>2. QED
  BY <1>1, PTL

\* What a step does not name stays.
LEMMA KeptAlone ==
  ASSUME JobsTypeOK, NEW j \in Jobs
  PROVE  /\ UNCHANGED <<kind, remote, links, temp, file, restarts>> => WorldKept(j)
         /\ UNCHANGED <<item, why>> => ItemKept(j)
         /\ UNCHANGED thread => ThreadKept(j)
         /\ UNCHANGED found => FoundKept(j)
<1>1. WorldTyped /\ ItemTyped /\ ThreadTyped /\ FoundTyped
  BY JobsTyped
<1>2. UNCHANGED <<kind, remote, links, temp, file, restarts>> => WorldKept(j)
  BY <1>1 DEF WorldKept, WorldTyped
<1>3. UNCHANGED <<item, why>> => ItemKept(j)
  BY <1>1 DEF ItemKept, ItemTyped
<1>4. UNCHANGED thread => ThreadKept(j)
  BY <1>1 DEF ThreadKept, ThreadTyped, thread
<1>5. UNCHANGED found => FoundKept(j)
  BY <1>1 DEF FoundKept, FoundTyped
<1>6. QED
  BY <1>2, <1>3, <1>4, <1>5

\* A step of one job's thread keeps the invariant when it keeps it for that job.
LEMMA OneJob ==
  ASSUME JobsInv, NEW j \in Jobs, OnlyThis(j), JobOK(j)'
  PROVE  JobsInv'
<1>1. JobsTypeOK'
  BY JobsTypedNext DEF OnlyThis, WorldKept, ItemKept, ThreadKept, FoundKept
<1>2. ASSUME NEW i \in Jobs, i # j PROVE JobOK(i)'
  <2>1. JobOK(i)
    BY DEF JobsInv
  <2>2. /\ kind'[i] = kind[i] /\ remote'[i] = remote[i] /\ (i \in links' <=> i \in links)
        /\ temp'[i] = temp[i] /\ file'[i] = file[i] /\ restarts' = restarts
        /\ item'[i] = item[i] /\ why'[i] = why[i]
        /\ poller'[i] = poller[i] /\ polls'[i] = polls[i] /\ errors'[i] = errors[i]
        /\ found'[i] = found[i]
    BY <1>2 DEF OnlyThis, WorldKept, ItemKept, ThreadKept, FoundKept
  <2>3. WholeFirst(i)' /\ GivenUpIsLeft(i)' /\ BudgetKept(i)' /\ Handed(i)'
    BY <2>1, <2>2 DEF JobOK, WholeFirst, GivenUpIsLeft, BudgetKept, Handed, InPlace
  <2>4. SeenReady(i)'
    BY <2>1, <2>2 DEF JobOK, SeenReady, LinkLost
  <2>5. QED
    BY <2>3, <2>4 DEF JobOK
<1>3. QED
  BY <1>1, <1>2 DEF JobsInv

\* The thread goes on to another place.
LEMMA Going ==
  ASSUME JobsTypeOK, NEW j \in Jobs, NEW to \in Places, Goes(j, to)
  PROVE  /\ ThreadKept(j)
         /\ poller'[j] = to /\ polls'[j] = polls[j] /\ errors'[j] = errors[j]
<1>1. ThreadTyped
  BY JobsTyped
<1>2. QED
  BY <1>1 DEF Goes, ThreadKept, ThreadTyped

\* The item changes unless it is gone or has ended.
LEMMA Updating ==
  ASSUME JobsTypeOK, NEW j \in Jobs, NEW status \in {"queued", "done", "error"},
         NEW reason \in Reasons, Updated(j, status, reason)
  PROVE  /\ ItemKept(j)
         /\ \/ item[j] \in {"pending", "queued"} /\ item'[j] = status /\ why'[j] = reason
            \/ item[j] \notin {"pending", "queued"} /\ item'[j] = item[j] /\ why'[j] = why[j]
<1>1. ItemTyped
  BY JobsTyped
<1>2. QED
  BY <1>1 DEF Updated, ItemKept, ItemTyped

\* A poll without an answer.
LEMMA Missing ==
  ASSUME JobsInv, NEW j \in Jobs, poller[j] \in Polling, Missed(j)
  PROVE  /\ ItemKept(j) /\ ThreadKept(j) /\ FoundKept(j)
         /\ polls'[j] = polls[j] /\ errors'[j] = errors[j] + 1 /\ found'[j] = found[j]
         /\ \/ /\ errors[j] + 1 < MAX_POLL_ERRORS /\ poller'[j] = "asleep"
               /\ item'[j] = item[j] /\ why'[j] = why[j]
            \/ /\ errors[j] + 1 >= MAX_POLL_ERRORS /\ poller'[j] = "none"
               /\ \/ item[j] \in {"pending", "queued"} /\ item'[j] = "error" /\ why'[j] = "polling"
                  \/ /\ item[j] \notin {"pending", "queued"}
                     /\ item'[j] = item[j] /\ why'[j] = why[j]
<1>1. JobsTypeOK /\ errors[j] < MAX_POLL_ERRORS
  BY DEF JobsInv, JobOK, BudgetKept
<1>2. ItemTyped /\ ThreadTyped /\ FoundTyped /\ MAX_POLL_ERRORS \in Nat
  BY <1>1, JobsTyped, JobsAssumption
<1>3. FoundKept(j) /\ found'[j] = found[j]
  BY <1>2 DEF Missed, FoundKept, FoundTyped
<1>4. /\ errors' \in [Jobs -> 0 .. MAX_POLL_ERRORS] /\ errors'[j] = errors[j] + 1
      /\ \A i \in Jobs \ {j} : errors'[i] = errors[i]
  BY <1>1, <1>2 DEF Missed, ThreadTyped
<1>5. CASE Spent(j)
  <2>1. Updated(j, "error", "polling") /\ poller' = [poller EXCEPT ![j] = "none"] /\ UNCHANGED polls
    BY <1>5 DEF Missed
  <2>2. ThreadKept(j) /\ polls'[j] = polls[j] /\ poller'[j] = "none"
    BY <1>2, <1>4, <2>1 DEF ThreadKept, ThreadTyped, Places
  <2>3. errors[j] + 1 >= MAX_POLL_ERRORS
    BY <1>5 DEF Spent
  <2>4. "polling" \in Reasons
    BY DEF Reasons, Troubles
  <2>5. QED
    BY <1>1, <1>3, <1>4, <2>1, <2>2, <2>3, <2>4, Updating
<1>6. CASE ~ Spent(j)
  <2>1. poller' = [poller EXCEPT ![j] = "asleep"] /\ UNCHANGED polls /\ UNCHANGED <<item, why>>
    BY <1>6 DEF Missed
  <2>2. ThreadKept(j) /\ polls'[j] = polls[j] /\ poller'[j] = "asleep"
    BY <1>2, <1>4, <2>1 DEF ThreadKept, ThreadTyped, Places
  <2>3. errors[j] + 1 < MAX_POLL_ERRORS
    <3>1. errors[j] \in Nat /\ ~ (errors[j] + 1 >= MAX_POLL_ERRORS)
      BY <1>2, <1>6 DEF Spent, ThreadTyped
    <3>2. QED
      BY <1>2, <3>1
  <2>4. ItemKept(j)
    BY <1>1, <2>1, KeptAlone
  <2>5. QED
    BY <1>3, <1>4, <2>1, <2>2, <2>3, <2>4
<1>7. QED
  BY <1>5, <1>6

\* A poll with an answer.
LEMMA Answering ==
  ASSUME JobsTypeOK, NEW j \in Jobs, NEW to \in Places, HasAnswer(j, to)
  PROVE  /\ ThreadKept(j) /\ FoundKept(j)
         /\ polls'[j] = polls[j] /\ errors'[j] = 0 /\ poller'[j] = to
         /\ found'[j] = (found[j] \/ remote[j] = "ready")
<1>1. ThreadTyped /\ FoundTyped /\ MAX_POLL_ERRORS \in Nat
  BY JobsTyped, JobsAssumption
<1>2. ThreadKept(j) /\ polls'[j] = polls[j] /\ errors'[j] = 0 /\ poller'[j] = to
  BY <1>1 DEF HasAnswer, ThreadKept, ThreadTyped, Forgiven
<1>3. found' \in [Jobs -> BOOLEAN] /\ (found'[j] <=> (found[j] \/ remote[j] = "ready"))
      /\ \A i \in Jobs \ {j} : found'[i] = found[i]
  BY <1>1 DEF HasAnswer, FoundTyped
<1>4. QED
  BY <1>1, <1>2, <1>3 DEF FoundKept, FoundTyped

\* No reason is none of the others.
LEMMA NoReason == ASSUME NEW x, x = "" PROVE x \in Reasons /\ x \notin Troubles
  BY Zenon DEF Reasons, Troubles

\* A card is shown.
LEMMA AskKeeps == ASSUME JobsInv, NEW j \in Jobs, Ask(j) PROVE JobsInv'
<1>1. JobsTypeOK /\ JobOK(j)
  BY DEF JobsInv
<1>2. WorldTyped /\ ItemTyped /\ ThreadTyped /\ FoundTyped
  BY <1>1, JobsTyped
<1>3. /\ WorldKept(j) /\ FoundKept(j)
      /\ UNCHANGED <<kind, remote, why, links, temp, file, found, restarts>>
  BY <1>1, KeptAlone DEF Ask
<1>4. ThreadKept(j) /\ poller'[j] = "submits"
  BY <1>1, Going DEF Ask, Places
<1>5. item[j] = "none" /\ item'[j] = "pending" /\ ItemKept(j)
  BY <1>2 DEF Ask, ItemKept, ItemTyped
<1>6. WholeFirst(j)' /\ GivenUpIsLeft(j)' /\ BudgetKept(j)' /\ Handed(j)'
  BY <1>1, <1>2, <1>3, <1>4, <1>5
     DEF JobOK, WholeFirst, GivenUpIsLeft, Troubles, BudgetKept, Polling, Handed, InPlace,
         ItemTyped, ThreadTyped, FoundTyped, WorldTyped
<1>7. SeenReady(j)'
  BY <1>1, <1>2, <1>3, <1>4, <1>5, JobsAssumption
     DEF JobOK, SeenReady, LinkLost, GivenUpIsLeft, Troubles, BudgetKept,
         Polling, ItemTyped, ThreadTyped, FoundTyped, WorldTyped
<1>8. QED
  BY <1>3, <1>4, <1>5, <1>6, <1>7, OneJob DEF OnlyThis, JobOK

\* A failed one is tried again.
LEMMA RegenerateKeeps == ASSUME JobsInv, NEW j \in Jobs, Regenerate(j) PROVE JobsInv'
<1>1. JobsTypeOK /\ JobOK(j)
  BY DEF JobsInv
<1>2. WorldTyped /\ ItemTyped /\ ThreadTyped /\ FoundTyped
  BY <1>1, JobsTyped
<1>3. ThreadKept(j) /\ poller'[j] = "submits"
  BY <1>1, Going DEF Regenerate, Places
<1>4. item'[j] = "pending" /\ why'[j] \notin Troubles /\ ItemKept(j)
  <2>1. "" \in Reasons /\ \A x : x = "" => x \notin Troubles
    BY NoReason
  <2>2. item' = [item EXCEPT ![j] = "pending"] /\ why' = [why EXCEPT ![j] = ""]
    BY DEF Regenerate
  <2>3. QED
    BY <1>2, <2>1, <2>2 DEF ItemKept, ItemTyped
<1>5. WorldKept(j) /\ kind' = kind /\ remote'[j] = "none" /\ temp'[j] = "none" /\ file'[j] = "none"
  BY <1>2 DEF Regenerate, WorldKept, WorldTyped, Copies
<1>6. FoundKept(j) /\ found'[j] = FALSE
  BY <1>2 DEF Regenerate, FoundKept, FoundTyped
<1>7. WholeFirst(j)' /\ GivenUpIsLeft(j)' /\ BudgetKept(j)' /\ Handed(j)'
  BY <1>1, <1>2, <1>3, <1>4, <1>5, <1>6
     DEF JobOK, WholeFirst, GivenUpIsLeft, Troubles, BudgetKept, Polling, Handed, InPlace,
         ItemTyped, ThreadTyped, FoundTyped, WorldTyped
<1>8. SeenReady(j)'
  BY <1>1, <1>2, <1>3, <1>4, <1>5, <1>6, JobsAssumption
     DEF JobOK, SeenReady, LinkLost, GivenUpIsLeft, Troubles, BudgetKept,
         Polling, ItemTyped, ThreadTyped, FoundTyped, WorldTyped
<1>9. QED
  BY <1>3, <1>4, <1>5, <1>6, <1>7, <1>8, OneJob DEF OnlyThis, JobOK

\* The job is submitted, or that fails.
LEMMA QueueKeeps == ASSUME JobsInv, NEW j \in Jobs, Queue(j) PROVE JobsInv'
<1>1. JobsTypeOK /\ JobOK(j)
  BY DEF JobsInv
<1>2. WorldTyped /\ ItemTyped /\ ThreadTyped /\ FoundTyped
  BY <1>1, JobsTyped
<1>3. /\ FoundKept(j)
      /\ UNCHANGED <<kind, temp, file, found, restarts>> /\ poller[j] = "submits"
  BY <1>1, KeptAlone DEF Queue
<1>4. PICK answer \in Answers :
       /\ OpenRouterSubmits(j) \/ PolloSubmits(j) \/ VeniceSubmits(j, answer)
       /\ Asked(j, answer)
       /\ IF answer = "queued" THEN Goes(j, "starts") /\ UNCHANGED <<item, why>>
          ELSE GivesUp(j, "refused")
  BY DEF Queue
<1>5. WorldKept(j) /\ (kind[j] = "private" /\ answer = "queued" => j \in links')
  <2>1. /\ links' \subseteq Jobs /\ \A i \in Jobs \ {j} : i \in links' <=> i \in links
        /\ kind[j] = "private" /\ answer = "queued" => j \in links'
    BY <1>2, <1>4 DEF OpenRouterSubmits, PolloSubmits, VeniceSubmits, WorldTyped
  <2>2. remote' \in [Jobs -> {"none", "running", "ready", "failed", "gone"}]
        /\ \A i \in Jobs \ {j} : remote'[i] = remote[i]
    BY <1>2, <1>4 DEF Asked, WorldTyped
  <2>3. QED
    BY <1>2, <1>3, <2>1, <2>2 DEF WorldKept, WorldTyped
<1>6. ThreadKept(j) /\ ItemKept(j)
      /\ \/ answer = "queued" /\ poller'[j] = "starts" /\ item'[j] = item[j] /\ why'[j] = why[j]
         \/ /\ answer # "queued" /\ poller'[j] = "none"
            /\ \/ item[j] \in {"pending", "queued"} /\ item'[j] = "error" /\ why'[j] = "refused"
               \/ item[j] \notin {"pending", "queued"} /\ item'[j] = item[j] /\ why'[j] = why[j]
  <2>1. CASE answer = "queued"
    BY <1>1, <1>4, <2>1, Going, KeptAlone DEF Places
  <2>2. CASE answer # "queued"
    <3>1. Updated(j, "error", "refused") /\ Goes(j, "none")
      BY <1>4, <2>2 DEF GivesUp
    <3>2. "refused" \in Reasons /\ "none" \in Places
      BY DEF Reasons, Troubles, Places
    <3>3. ThreadKept(j) /\ poller'[j] = "none"
      BY <1>1, <3>1, <3>2, Going
    <3>4. QED
      BY <1>1, <2>2, <3>1, <3>2, <3>3, Updating
  <2>3. QED
    BY <2>1, <2>2
<1>7. WholeFirst(j)' /\ GivenUpIsLeft(j)' /\ BudgetKept(j)' /\ Handed(j)'
  BY <1>1, <1>2, <1>3, <1>5, <1>6
     DEF JobOK, WholeFirst, GivenUpIsLeft, Troubles, BudgetKept, Polling, Handed, InPlace,
         ItemTyped, ThreadTyped, FoundTyped, WorldTyped
<1>8. SeenReady(j)'
  BY <1>1, <1>2, <1>3, <1>5, <1>6, JobsAssumption
     DEF JobOK, SeenReady, LinkLost, GivenUpIsLeft, Troubles, BudgetKept,
         Polling, ItemTyped, ThreadTyped, FoundTyped, WorldTyped
<1>9. QED
  BY <1>3, <1>5, <1>6, <1>7, <1>8, OneJob DEF OnlyThis, JobOK

\* The poller starts.
LEMMA StartKeeps == ASSUME JobsInv, NEW j \in Jobs, Start(j) PROVE JobsInv'
<1>1. JobsTypeOK /\ JobOK(j)
  BY DEF JobsInv
<1>2. WorldTyped /\ ItemTyped /\ ThreadTyped /\ FoundTyped
  BY <1>1, JobsTyped
<1>3. /\ WorldKept(j) /\ FoundKept(j)
      /\ UNCHANGED <<kind, remote, links, temp, file, found, restarts>>
  BY <1>1, KeptAlone DEF Start
<1>4. /\ poller[j] = "starts" /\ ThreadKept(j)
      /\ poller'[j] = "asleep" /\ polls'[j] = 0 /\ errors'[j] = 0
  <2>1. /\ poller[j] = "starts" /\ poller' = [poller EXCEPT ![j] = "asleep"]
        /\ polls' = [polls EXCEPT ![j] = 0] /\ errors' = [errors EXCEPT ![j] = 0]
    BY DEF Start
  <2>2. 0 \in 0 .. MaxPolls /\ 0 \in 0 .. MAX_POLL_ERRORS
    BY JobsAssumption
  <2>3. QED
    BY <1>2, <2>1, <2>2 DEF ThreadKept, ThreadTyped, Places
<1>5. ItemKept(j)
      /\ \/ /\ kind[j] = "image" \/ item[j] \notin {"pending", "queued"}
            /\ item'[j] = item[j] /\ why'[j] = why[j]
         \/ item[j] \in {"pending", "queued"} /\ item'[j] = "queued" /\ why'[j] \notin Troubles
  <2>1. CASE kind[j] = "image"
    BY <1>1, <2>1, KeptAlone DEF Start
  <2>2. CASE kind[j] # "image"
    <3>1. Updated(j, "queued", "")
      BY <2>2 DEF Start
    <3>2. "" \in Reasons /\ \A x : x = "" => x \notin Troubles
      BY NoReason
    <3>3. QED
      BY <1>1, <3>1, <3>2, Updating
  <2>3. QED
    BY <2>1, <2>2
<1>6. WholeFirst(j)' /\ GivenUpIsLeft(j)' /\ BudgetKept(j)' /\ Handed(j)'
  <2>1. MAX_POLL_ERRORS > 0
    BY JobsAssumption
  <2>2. BudgetKept(j)'
    BY <1>1, <1>2, <1>3, <1>4, <1>5, <2>1 DEF JobOK, BudgetKept, GivenUpIsLeft, Troubles, Polling
  <2>3. WholeFirst(j)' /\ GivenUpIsLeft(j)' /\ Handed(j)'
    BY <1>1, <1>2, <1>3, <1>4, <1>5
       DEF JobOK, WholeFirst, GivenUpIsLeft, Troubles, Handed, InPlace, Polling
  <2>4. QED
    BY <2>2, <2>3
<1>7. SeenReady(j)'
  BY <1>1, <1>2, <1>3, <1>4, <1>5, JobsAssumption
     DEF JobOK, SeenReady, LinkLost, GivenUpIsLeft, Troubles, BudgetKept,
         Polling, ItemTyped, ThreadTyped, FoundTyped, WorldTyped
<1>8. QED
  BY <1>3, <1>4, <1>5, <1>6, <1>7, OneJob DEF OnlyThis, JobOK

\* The poller wakes up.
LEMMA WakeKeeps == ASSUME JobsInv, NEW j \in Jobs, Wake(j) PROVE JobsInv'
<1>1. JobsTypeOK /\ JobOK(j)
  BY DEF JobsInv
<1>2. WorldTyped /\ ItemTyped /\ ThreadTyped /\ FoundTyped
  BY <1>1, JobsTyped
<1>3. /\ WorldKept(j) /\ FoundKept(j)
      /\ UNCHANGED <<kind, remote, links, temp, file, found, restarts>>
  BY <1>1, KeptAlone DEF Wake
<1>4. CASE polls[j] = MaxPolls /\ GivesUp(j, "timeout")
  <2>1. /\ poller[j] = "asleep" /\ Updated(j, "error", "timeout") /\ Goes(j, "none")
        /\ "timeout" \in Reasons /\ "none" \in Places
    BY <1>4 DEF Wake, GivesUp, Reasons, Troubles, Places
  <2>2. ThreadKept(j) /\ poller'[j] = "none"
    BY <1>1, <2>1, Going
  <2>3. ItemKept(j)
        /\ \/ item[j] \in {"pending", "queued"} /\ item'[j] = "error" /\ why'[j] = "timeout"
           \/ item[j] \notin {"pending", "queued"} /\ item'[j] = item[j] /\ why'[j] = why[j]
    BY <1>1, <2>1, Updating
  <2>4. (found[j] => LinkLost(j)) /\ ~ InPlace(j)
    BY <1>1, <1>2, <1>4, <2>1, JobsAssumption DEF JobOK, SeenReady, Handed, ThreadTyped
  <2>5. WholeFirst(j)' /\ GivenUpIsLeft(j)' /\ BudgetKept(j)' /\ Handed(j)'
    BY <1>1, <1>3, <2>1, <2>2, <2>3, <2>4
       DEF JobOK, WholeFirst, GivenUpIsLeft, Troubles, BudgetKept, Polling, Handed, InPlace
  <2>6. SeenReady(j)'
    BY <1>1, <1>3, <2>1, <2>2, <2>3, <2>4
       DEF JobOK, SeenReady, LinkLost, GivenUpIsLeft, Troubles
  <2>7. QED
    BY <1>3, <2>2, <2>3, <2>5, <2>6, OneJob DEF OnlyThis, JobOK
<1>5. CASE ~ (polls[j] = MaxPolls /\ GivesUp(j, "timeout"))
  <2>1. ItemKept(j) /\ UNCHANGED <<item, why, errors>> /\ poller[j] = "asleep"
    BY <1>1, <1>5, KeptAlone DEF Wake
  <2>2. ThreadKept(j) /\ polls'[j] = polls[j] + 1 /\ poller'[j] \in {"asks", "none"}
    BY <1>2, <1>5, JobsAssumption DEF Wake, ThreadKept, ThreadTyped, Places
  <2>3. WholeFirst(j)' /\ GivenUpIsLeft(j)' /\ BudgetKept(j)' /\ Handed(j)'
    BY <1>1, <1>3, <2>1, <2>2
       DEF JobOK, WholeFirst, GivenUpIsLeft, Troubles, BudgetKept, Polling, Handed, InPlace
  <2>4. SeenReady(j)'
    BY <1>1, <1>2, <1>3, <2>1, <2>2 DEF JobOK, SeenReady, LinkLost, ThreadTyped
  <2>5. QED
    BY <1>3, <2>1, <2>2, <2>3, <2>4, OneJob DEF OnlyThis, JobOK
<1>6. QED
  BY <1>4, <1>5

\* The budget pays for a poll without an answer.
LEMMA MissKeeps ==
  ASSUME JobsInv, NEW j \in Jobs, poller[j] \in {"asks", "retrieves"}, Missed(j),
         WorldKept(j), kind'[j] = kind[j], remote'[j] = remote[j], file'[j] = file[j],
         (j \in links') <=> (j \in links), temp'[j] \notin {"torn", "whole"}
  PROVE  JobsInv'
<1>1. JobsTypeOK /\ JobOK(j) /\ restarts' = restarts
  BY DEF JobsInv, WorldKept
<1>2. ThreadTyped /\ FoundTyped /\ poller[j] \in Polling
  BY <1>1, JobsTyped DEF Polling
<1>3. /\ ItemKept(j) /\ ThreadKept(j) /\ FoundKept(j)
      /\ polls'[j] = polls[j] /\ errors'[j] = errors[j] + 1 /\ found'[j] = found[j]
      /\ \/ /\ errors[j] + 1 < MAX_POLL_ERRORS /\ poller'[j] = "asleep"
            /\ item'[j] = item[j] /\ why'[j] = why[j]
         \/ /\ errors[j] + 1 >= MAX_POLL_ERRORS /\ poller'[j] = "none"
            /\ \/ item[j] \in {"pending", "queued"} /\ item'[j] = "error" /\ why'[j] = "polling"
               \/ /\ item[j] \notin {"pending", "queued"}
                  /\ item'[j] = item[j] /\ why'[j] = why[j]
  BY <1>2, Missing
<1>4. WholeFirst(j)' /\ GivenUpIsLeft(j)' /\ Handed(j)'
  <2>1. WholeFirst(j)'
    BY <1>1, <1>3 DEF JobOK, WholeFirst
  <2>2. GivenUpIsLeft(j)'
    BY <1>1, <1>3 DEF JobOK, GivenUpIsLeft, Troubles
  <2>3. Handed(j)'
    BY <1>1, <1>3 DEF JobOK, Handed, InPlace, Polling
  <2>4. QED
    BY <2>1, <2>2, <2>3
<1>5. BudgetKept(j)'
  BY <1>3 DEF BudgetKept, Polling
<1>6. SeenReady(j)'
  BY <1>1, <1>2, <1>3 DEF JobOK, SeenReady, LinkLost, ThreadTyped
<1>7. QED
  BY <1>3, <1>4, <1>5, <1>6, OneJob DEF OnlyThis, JobOK

\* The poller has its answer, or none.
LEMMA PollKeeps == ASSUME JobsInv, NEW j \in Jobs, Poll(j) PROVE JobsInv'
<1>1. JobsTypeOK /\ JobOK(j)
  BY DEF JobsInv
<1>2. WorldTyped /\ ItemTyped /\ ThreadTyped /\ FoundTyped
  BY <1>1, JobsTyped
<1>3. WorldKept(j) /\ UNCHANGED <<kind, remote, links, temp, file, restarts>> /\ poller[j] = "asks"
  BY <1>1, KeptAlone DEF Poll
<1>4. CASE ~ InPlace(j) /\ Missed(j)
  BY <1>1, <1>3, <1>4, MissKeeps DEF InPlace
<1>5. CASE "in_progress" \in Says(j) /\ HasAnswer(j, "asleep") /\ UNCHANGED <<item, why>>
  <2>1. ItemKept(j) /\ "asleep" \in Places
    BY <1>1, <1>5, KeptAlone DEF Places
  <2>2. /\ ThreadKept(j) /\ FoundKept(j)
        /\ polls'[j] = polls[j] /\ errors'[j] = 0 /\ poller'[j] = "asleep"
        /\ found'[j] = (found[j] \/ remote[j] = "ready")
    BY <1>1, <1>5, <2>1, Answering
  <2>3. /\ remote[j] = "running" \/ (remote[j] = "ready" /\ kind[j] = "private" /\ j \notin links)
        /\ ~ InPlace(j)
    BY <1>1, <1>2, <1>5, SaysFacts DEF WorldTyped, JobOK, Handed
  <2>4. found'[j] => LinkLost(j)
    <3>1. CASE remote[j] = "running"
      BY <1>1, <1>3, <2>2, <3>1 DEF JobOK, SeenReady, LinkLost
    <3>2. CASE remote[j] = "ready" /\ kind[j] = "private" /\ j \notin links
      BY <1>1, <1>2, <1>3, <3>2 DEF JobOK, SeenReady, LinkLost, WorldTyped
    <3>3. QED
      BY <2>3, <3>1, <3>2
  <2>5. WholeFirst(j)' /\ GivenUpIsLeft(j)' /\ BudgetKept(j)' /\ Handed(j)'
    <3>1. MAX_POLL_ERRORS > 0
      BY JobsAssumption
    <3>2. BudgetKept(j)'
      BY <1>1, <1>3, <1>5, <2>2, JobsAssumption, <3>1
         DEF JobOK, BudgetKept, GivenUpIsLeft, Troubles, Polling
    <3>3. WholeFirst(j)' /\ GivenUpIsLeft(j)' /\ Handed(j)'
      BY <1>1, <1>3, <1>5, <2>2, <2>3
         DEF JobOK, WholeFirst, GivenUpIsLeft, Troubles, Handed, InPlace, Polling
    <3>4. QED
      BY <3>2, <3>3
  <2>6. SeenReady(j)'
    BY <1>1, <1>3, <1>5, <2>2, <2>4
       DEF JobOK, SeenReady, LinkLost, GivenUpIsLeft, Troubles
  <2>7. QED
    BY <1>3, <2>1, <2>2, <2>5, <2>6, OneJob DEF OnlyThis, JobOK
<1>6. CASE "failed" \in Says(j) /\ HasAnswer(j, "none") /\ Updated(j, "error", "failed")
  <2>1. "failed" \in Reasons /\ "none" \in Places
    BY DEF Reasons, Troubles, Places
  <2>2. /\ ThreadKept(j) /\ FoundKept(j)
        /\ poller'[j] = "none" /\ found'[j] = (found[j] \/ remote[j] = "ready")
    BY <1>1, <1>6, <2>1, Answering
  <2>3. ItemKept(j)
        /\ \/ item[j] \in {"pending", "queued"} /\ item'[j] = "error" /\ why'[j] = "failed"
           \/ item[j] \notin {"pending", "queued"} /\ item'[j] = item[j] /\ why'[j] = why[j]
    BY <1>1, <1>6, <2>1, Updating
  <2>4. ~ InPlace(j)
    BY <1>1, <1>2, <1>6, SaysFacts DEF WorldTyped, JobOK, Handed
  <2>5. WholeFirst(j)' /\ GivenUpIsLeft(j)' /\ BudgetKept(j)' /\ Handed(j)'
    BY <1>1, <1>3, <2>2, <2>3, <2>4
       DEF JobOK, WholeFirst, GivenUpIsLeft, Troubles, BudgetKept, Polling, Handed, InPlace
  <2>6. SeenReady(j)'
    BY <1>1, <1>3, <2>2, <2>3, <2>4
       DEF JobOK, SeenReady, LinkLost, GivenUpIsLeft, Troubles
  <2>7. QED
    BY <1>3, <2>2, <2>3, <2>5, <2>6, OneJob DEF OnlyThis, JobOK
<1>7. CASE /\ UNCHANGED <<item, why>>
         /\ IF kind[j] = "venice" /\ ~ InPlace(j)
              THEN Goes(j, "retrieves") /\ UNCHANGED found ELSE HasAnswer(j, "downloads")
  <2>1. ItemKept(j) /\ "retrieves" \in Places /\ "downloads" \in Places
    BY <1>1, <1>7, KeptAlone DEF Places
  <2>2. CASE kind[j] = "venice" /\ ~ InPlace(j)
    <3>1. /\ ThreadKept(j) /\ poller'[j] = "retrieves"
          /\ polls'[j] = polls[j] /\ errors'[j] = errors[j]
      BY <1>1, <1>7, <2>1, <2>2, Going
    <3>2. FoundKept(j) /\ UNCHANGED found
      BY <1>1, <1>7, <2>2, KeptAlone
    <3>3. WholeFirst(j)' /\ GivenUpIsLeft(j)' /\ BudgetKept(j)' /\ Handed(j)'
      BY <1>1, <1>3, <1>7, <2>2, <3>1, <3>2
         DEF JobOK, WholeFirst, GivenUpIsLeft, Troubles, BudgetKept, Polling, Handed, InPlace
    <3>4. SeenReady(j)'
      BY <1>1, <1>3, <1>7, <3>1, <3>2
         DEF JobOK, SeenReady, LinkLost, GivenUpIsLeft, Troubles
    <3>5. QED
      BY <1>3, <2>1, <3>1, <3>2, <3>3, <3>4, OneJob DEF OnlyThis, JobOK
  <2>3. CASE ~ (kind[j] = "venice" /\ ~ InPlace(j))
    <3>1. /\ ThreadKept(j) /\ FoundKept(j) /\ errors'[j] = 0 /\ poller'[j] = "downloads"
          /\ found'[j] = (found[j] \/ remote[j] = "ready")
      BY <1>1, <1>7, <2>1, <2>3, Answering
    <3>2. kind[j] = "venice" => temp[j] = "whole"
      BY <1>1, <2>3 DEF InPlace, JobOK, WholeFirst
    <3>3. WholeFirst(j)' /\ GivenUpIsLeft(j)' /\ BudgetKept(j)' /\ Handed(j)'
      <4>1. MAX_POLL_ERRORS > 0
        BY JobsAssumption
      <4>2. BudgetKept(j)'
        BY <1>1, <1>3, <1>7, <3>1, <3>2, JobsAssumption, <4>1
           DEF JobOK, BudgetKept, GivenUpIsLeft, Troubles, Polling
      <4>3. WholeFirst(j)' /\ GivenUpIsLeft(j)' /\ Handed(j)'
        BY <1>1, <1>3, <1>7, <3>1, <3>2
           DEF JobOK, WholeFirst, GivenUpIsLeft, Troubles, Handed, InPlace, Polling
      <4>4. QED
        BY <4>2, <4>3
    <3>4. SeenReady(j)'
      BY <1>1, <1>3, <1>7, <3>1 DEF JobOK, SeenReady, LinkLost, GivenUpIsLeft, Troubles
    <3>5. QED
      BY <1>3, <2>1, <3>1, <3>3, <3>4, OneJob DEF OnlyThis, JobOK
  <2>4. QED
    BY <2>2, <2>3
<1>8. QED
  BY <1>4, <1>5, <1>6, <1>7 DEF Poll

\* Venice's answer is taken down.
LEMMA RetrieveKeeps == ASSUME JobsInv, NEW j \in Jobs, Retrieve(j) PROVE JobsInv'
<1>1. JobsTypeOK /\ JobOK(j)
  BY DEF JobsInv
<1>2. WorldTyped /\ ItemTyped /\ ThreadTyped /\ FoundTyped
  BY <1>1, JobsTyped
<1>3. poller[j] = "retrieves" /\ UNCHANGED <<kind, remote, links, file, restarts>>
  BY DEF Retrieve
<1>4. CASE /\ temp[j] = "none" /\ temp' = [temp EXCEPT ![j] = PartOf]
           /\ UNCHANGED <<thread, found, item, why>>
  <2>1. WorldKept(j) /\ temp'[j] = "part"
    BY <1>2, <1>3, <1>4 DEF WorldKept, WorldTyped, PartOf, Copies
  <2>2. ItemKept(j) /\ ThreadKept(j) /\ FoundKept(j)
    BY <1>1, <1>4, KeptAlone
  <2>3. UNCHANGED <<poller, polls, errors, found, item, why>>
    BY <1>4 DEF thread
  <2>4. WholeFirst(j)' /\ GivenUpIsLeft(j)' /\ BudgetKept(j)' /\ Handed(j)'
    BY <1>1, <1>3, <2>1, <2>3 DEF JobOK, WholeFirst, GivenUpIsLeft, BudgetKept, Handed, InPlace
  <2>5. SeenReady(j)'
    BY <1>1, <1>3, <2>3 DEF JobOK, SeenReady, LinkLost
  <2>6. QED
    BY <2>1, <2>2, <2>4, <2>5, OneJob DEF OnlyThis, JobOK
<1>5. CASE Missed(j) /\ UNCHANGED temp
  <2>1. WorldKept(j) /\ temp[j] \notin {"torn", "whole"}
    BY <1>1, <1>3, <1>5, KeptAlone DEF JobOK, Handed, InPlace
  <2>2. QED
    BY <1>3, <1>5, <2>1, MissKeeps
<1>6. CASE /\ temp' = [temp EXCEPT ![j] = "whole"] /\ HasAnswer(j, "downloads")
           /\ UNCHANGED <<item, why>>
  <2>1. WorldKept(j) /\ temp'[j] = "whole"
    BY <1>2, <1>3, <1>6 DEF WorldKept, WorldTyped, Copies
  <2>2. ItemKept(j) /\ "downloads" \in Places
    BY <1>1, <1>6, KeptAlone DEF Places
  <2>3. /\ ThreadKept(j) /\ FoundKept(j) /\ errors'[j] = 0 /\ poller'[j] = "downloads"
        /\ found'[j] = (found[j] \/ remote[j] = "ready")
    BY <1>1, <1>6, <2>2, Answering
  <2>4. MAX_POLL_ERRORS > 0
    BY JobsAssumption
  <2>5. WholeFirst(j)' /\ GivenUpIsLeft(j)' /\ BudgetKept(j)' /\ Handed(j)'
    <3>1. WholeFirst(j)' /\ GivenUpIsLeft(j)' /\ BudgetKept(j)'
      BY <1>1, <1>3, <1>6, <2>1, <2>3, <2>4
         DEF JobOK, WholeFirst, GivenUpIsLeft, Troubles, BudgetKept, Polling
    <3>2. item[j] # "error"
      BY <1>1, <1>3 DEF JobOK, GivenUpIsLeft
    <3>3. Handed(j)'
      BY <1>1, <1>3, <1>6, <2>1, <2>3, <3>2 DEF JobOK, Handed, InPlace, Polling
    <3>4. QED
      BY <3>1, <3>3
  <2>6. SeenReady(j)'
    BY <1>1, <1>3, <1>6, <2>3 DEF JobOK, SeenReady, LinkLost, GivenUpIsLeft, Troubles
  <2>7. QED
    BY <2>1, <2>2, <2>3, <2>5, <2>6, OneJob DEF OnlyThis, JobOK
<1>7. QED
  BY <1>4, <1>5, <1>6 DEF Retrieve

\* A thread that has its answer goes on, or gives up.
LEMMA PastTheAnswer ==
  ASSUME JobsInv, NEW j \in Jobs, poller[j] \in {"downloads", "saves", "records"},
         WorldKept(j), kind' = kind, remote' = remote, links' = links,
         UNCHANGED found, ItemKept(j), ThreadKept(j), errors'[j] = errors[j], WholeFirst(j)',
         item'[j] = "none" => item[j] = "none", temp'[j] \in {temp[j], "none"},
         \/ /\ poller'[j] \in {"saves", "records"} /\ item'[j] = item[j] /\ why'[j] = why[j]
         \/ /\ poller'[j] = "none"
            /\ \/ item'[j] = item[j] /\ why'[j] = why[j]
               \/ item'[j] = "error" /\ why'[j] = "download"
               \/ item'[j] = "done" /\ why'[j] \notin Troubles
  PROVE  JobsInv'
<1>1. JobsTypeOK /\ JobOK(j) /\ restarts' = restarts
  BY DEF JobsInv, WorldKept
<1>2. FoundKept(j) /\ UNCHANGED found
  BY <1>1, KeptAlone
<1>3. GivenUpIsLeft(j)'
  BY <1>1, <1>2 DEF JobOK, GivenUpIsLeft, Troubles
<1>4. BudgetKept(j)' /\ Handed(j)'
  BY <1>1, <1>2 DEF JobOK, GivenUpIsLeft, Troubles, BudgetKept, Polling, Handed, InPlace
<1>5. SeenReady(j)'
  BY <1>1, <1>2 DEF JobOK, SeenReady, LinkLost, GivenUpIsLeft, Troubles
<1>6. QED
  BY <1>2, <1>3, <1>4, <1>5, OneJob DEF OnlyThis, JobOK

\* Giving up for one reason.
LEMMA GivingUp ==
  ASSUME JobsTypeOK, NEW j \in Jobs, GivesUp(j, "download")
  PROVE  /\ ItemKept(j) /\ ThreadKept(j) /\ errors'[j] = errors[j] /\ poller'[j] = "none"
         /\ \/ item'[j] = item[j] /\ why'[j] = why[j]
            \/ item'[j] = "error" /\ why'[j] = "download"
<1>1. /\ Updated(j, "error", "download") /\ Goes(j, "none")
      /\ "none" \in Places /\ "download" \in Reasons
  BY DEF GivesUp, Places, Reasons, Troubles
<1>2. ThreadKept(j) /\ errors'[j] = errors[j] /\ poller'[j] = "none"
  BY <1>1, Going
<1>3. QED
  BY <1>1, <1>2, Updating

\* The file arrives in the chat's folder.
LEMMA DownloadKeeps == ASSUME JobsInv, NEW j \in Jobs, Download(j) PROVE JobsInv'
<1>1. JobsTypeOK /\ JobOK(j)
  BY DEF JobsInv
<1>2. WorldTyped /\ ItemTyped /\ ThreadTyped /\ FoundTyped
  BY <1>1, JobsTyped
<1>3. poller[j] = "downloads" /\ UNCHANGED <<kind, remote, links, temp, found, restarts>>
  BY DEF Download
<1>4. CASE (Streams(j) \/ Moves(j) \/ Writes(j)) /\ Goes(j, "saves") /\ UNCHANGED <<item, why>>
  <2>1. WorldKept(j)
    BY <1>2, <1>3, <1>4 DEF Streams, Moves, Writes, WorldKept, WorldTyped, Copies
  <2>2. ItemKept(j) /\ "saves" \in Places
    BY <1>1, <1>4, KeptAlone DEF Places
  <2>3. ThreadKept(j) /\ errors'[j] = errors[j] /\ poller'[j] = "saves"
    BY <1>1, <1>4, <2>2, Going
  <2>4. WholeFirst(j)'
    BY <1>1, <1>3, <1>4, <2>3 DEF JobOK, WholeFirst
  <2>5. QED
    BY <1>3, <1>4, <2>1, <2>2, <2>3, <2>4, PastTheAnswer
<1>5. CASE GivesUp(j, "download") /\ UNCHANGED file
  <2>1. WorldKept(j)
    BY <1>1, <1>3, <1>5, KeptAlone
  <2>2. /\ ItemKept(j) /\ ThreadKept(j) /\ errors'[j] = errors[j] /\ poller'[j] = "none"
        /\ \/ item'[j] = item[j] /\ why'[j] = why[j]
           \/ item'[j] = "error" /\ why'[j] = "download"
    BY <1>1, <1>5, GivingUp
  <2>3. WholeFirst(j)'
    BY <1>1, <1>3, <2>2 DEF JobOK, WholeFirst
  <2>4. QED
    BY <1>3, <2>1, <2>2, <2>3, PastTheAnswer
<1>6. QED
  BY <1>4, <1>5 DEF Download

\* The file has its name: it is whole.
LEMMA SaveKeeps == ASSUME JobsInv, NEW j \in Jobs, Save(j) PROVE JobsInv'
<1>1. JobsTypeOK /\ JobOK(j)
  BY DEF JobsInv
<1>2. WorldTyped /\ ItemTyped /\ ThreadTyped /\ FoundTyped
  BY <1>1, JobsTyped
<1>3. poller[j] = "saves" /\ UNCHANGED <<kind, remote, links, found, restarts>>
  BY DEF Save
<1>4. CASE /\ file' = [file EXCEPT ![j] = IF kind[j] = "venice" THEN temp[j] ELSE "whole"]
           /\ temp' = [temp EXCEPT ![j] = "none"]
           /\ Goes(j, "records") /\ UNCHANGED <<item, why>>
  <2>1. file'[j] = "whole" /\ file' = [file EXCEPT ![j] = "whole"]
    BY <1>1, <1>2, <1>3, <1>4 DEF JobOK, WholeFirst, WorldTyped
  <2>2. WorldKept(j) /\ temp'[j] = "none"
    BY <1>2, <1>3, <1>4, <2>1 DEF WorldKept, WorldTyped, Copies
  <2>3. ItemKept(j) /\ "records" \in Places
    BY <1>1, <1>4, KeptAlone DEF Places
  <2>4. ThreadKept(j) /\ errors'[j] = errors[j] /\ poller'[j] = "records"
    BY <1>1, <1>4, <2>3, Going
  <2>5. WholeFirst(j)'
    BY <1>1, <1>3, <1>4, <2>1, <2>2, <2>4 DEF JobOK, WholeFirst
  <2>6. QED
    BY <1>3, <1>4, <2>2, <2>3, <2>4, <2>5, PastTheAnswer
<1>5. CASE GivesUp(j, "download") /\ UNCHANGED <<file, temp>>
  <2>1. WorldKept(j)
    BY <1>1, <1>3, <1>5, KeptAlone
  <2>2. /\ ItemKept(j) /\ ThreadKept(j) /\ errors'[j] = errors[j] /\ poller'[j] = "none"
        /\ \/ item'[j] = item[j] /\ why'[j] = why[j]
           \/ item'[j] = "error" /\ why'[j] = "download"
    BY <1>1, <1>5, GivingUp
  <2>3. WholeFirst(j)'
    BY <1>1, <1>3, <1>5, <2>2 DEF JobOK, WholeFirst
  <2>4. QED
    BY <1>3, <1>5, <2>1, <2>2, <2>3, PastTheAnswer
<1>6. QED
  BY <1>4, <1>5 DEF Save

\* The file is recorded.
LEMMA RecordKeeps == ASSUME JobsInv, NEW j \in Jobs, Record(j) PROVE JobsInv'
<1>1. JobsTypeOK /\ JobOK(j)
  BY DEF JobsInv
<1>2. /\ poller[j] = "records" /\ UNCHANGED <<kind, remote, links, temp, file, found, restarts>>
      /\ Updated(j, "done", "") /\ Goes(j, "none") /\ "none" \in Places
  BY DEF Record, Places
<1>3. WorldKept(j)
  BY <1>1, <1>2, KeptAlone
<1>4. ThreadKept(j) /\ errors'[j] = errors[j] /\ poller'[j] = "none"
  BY <1>1, <1>2, Going
<1>5. "" \in Reasons /\ \A x : x = "" => x \notin Troubles
  BY NoReason
<1>6. /\ ItemKept(j)
      /\ \/ item'[j] = item[j] /\ why'[j] = why[j]
         \/ item'[j] = "done" /\ why'[j] \notin Troubles
  BY <1>1, <1>2, <1>5, Updating
<1>7. WholeFirst(j)'
  BY <1>1, <1>2, <1>4 DEF JobOK, WholeFirst
<1>8. QED
  BY <1>2, <1>3, <1>4, <1>6, <1>7, PastTheAnswer

\* The provider makes the video, fails, or throws it away.
LEMMA RenderKeeps == ASSUME JobsInv, NEW j \in Jobs, Render(j) PROVE JobsInv'
<1>1. JobsTypeOK /\ JobOK(j)
  BY DEF JobsInv
<1>2. WorldTyped
  BY <1>1, JobsTyped
<1>3. UNCHANGED <<kind, item, why, thread, links, temp, file, found, restarts>>
  BY DEF Render
<1>4. /\ WorldKept(j)
      /\ remote[j] \in {"failed", "gone"} => remote'[j] = remote[j]
      /\ remote[j] = "ready" => remote'[j] = "gone"
  BY <1>2, <1>3 DEF Render, WorldKept, WorldTyped
<1>5. ItemKept(j) /\ ThreadKept(j) /\ FoundKept(j)
  BY <1>1, <1>3, KeptAlone
<1>6. UNCHANGED <<poller, polls, errors, found, item, why>>
  BY <1>3 DEF thread
<1>7. WholeFirst(j)' /\ GivenUpIsLeft(j)' /\ BudgetKept(j)' /\ Handed(j)'
  BY <1>1, <1>3, <1>4, <1>6 DEF JobOK, WholeFirst, GivenUpIsLeft, BudgetKept, Handed, InPlace
<1>8. SeenReady(j)'
  BY <1>1, <1>3, <1>4, <1>6 DEF JobOK, SeenReady, LinkLost
<1>9. QED
  BY <1>4, <1>5, <1>7, <1>8, OneJob DEF OnlyThis, JobOK

\* The item is removed, whatever its thread does.
LEMMA RemoveKeeps == ASSUME JobsInv, NEW j \in Jobs, Remove(j) PROVE JobsInv'
<1>1. JobsTypeOK /\ JobOK(j)
  BY DEF JobsInv
<1>2. ItemTyped
  BY <1>1, JobsTyped
<1>3. UNCHANGED <<kind, remote, why, thread, links, temp, file, found, restarts>>
  BY DEF Remove
<1>4. ItemKept(j) /\ item'[j] = "removed" /\ item[j] # "none"
  BY <1>2, <1>3 DEF Remove, ItemKept, ItemTyped
<1>5. WorldKept(j) /\ ThreadKept(j) /\ FoundKept(j)
  BY <1>1, <1>3, KeptAlone
<1>6. UNCHANGED <<poller, polls, errors, found, why>>
  BY <1>3 DEF thread
<1>7. WholeFirst(j)' /\ GivenUpIsLeft(j)' /\ BudgetKept(j)' /\ Handed(j)'
  BY <1>1, <1>3, <1>4, <1>6 DEF JobOK, WholeFirst, GivenUpIsLeft, BudgetKept, Handed, InPlace
<1>8. SeenReady(j)'
  BY <1>1, <1>3, <1>6 DEF JobOK, SeenReady, LinkLost
<1>9. QED
  BY <1>4, <1>5, <1>7, <1>8, OneJob DEF OnlyThis, JobOK

\* A restart: every thread is gone, and what has a job is polled again.
LEMMA RestartKeeps == ASSUME JobsInv, Restart PROVE JobsInv'
<1>1. JobsTypeOK
  BY DEF JobsInv
<1>2. WorldTyped /\ ItemTyped /\ ThreadTyped /\ FoundTyped
  BY <1>1, JobsTyped
<1>3. restarts' \in 0 .. MaxRestarts /\ restarts' > 0
  <2>1. restarts \in 0 .. MaxRestarts /\ restarts < MaxRestarts /\ restarts' = restarts + 1
    BY <1>2 DEF Restart, WorldTyped
  <2>2. QED
    BY <2>1, JobsAssumption
<1>4. WorldTyped'
  <2>1. links' \subseteq Jobs /\ UNCHANGED <<kind, remote>>
    BY DEF Restart
  <2>2. temp' \in [Jobs -> Copies]
    BY <1>2 DEF Restart, WorldTyped, Copies
  <2>3. file' \in [Jobs -> Copies]
    BY <1>2 DEF Restart, WorldTyped, Copies
  <2>4. QED
    BY <1>2, <1>3, <2>1, <2>2, <2>3 DEF WorldTyped
<1>5. ItemTyped'
  <2>1. item' \in [Jobs -> {"none", "pending", "queued", "done", "error", "removed"}]
    BY <1>2 DEF Restart, ItemTyped
  <2>2. why' = [j \in Jobs |-> IF item[j] = "pending" THEN "interrupted" ELSE why[j]]
        /\ why \in [Jobs -> Reasons] /\ "interrupted" \in Reasons
    BY <1>2 DEF Restart, ItemTyped, Reasons, Troubles
  <2>3. why' \in [Jobs -> Reasons]
    BY <2>2
  <2>4. QED
    BY <2>1, <2>3 DEF ItemTyped
<1>6. ThreadTyped'
  BY JobsAssumption DEF Restart, ThreadTyped, Places
<1>7. FoundTyped'
  BY DEF Restart, FoundTyped
<1>8. ASSUME NEW j \in Jobs PROVE JobOK(j)'
  <2>1. JobOK(j)
    BY DEF JobsInv
  <2>2. /\ kind'[j] = kind[j] /\ remote'[j] = remote[j] /\ found'[j] = FALSE
        /\ polls'[j] = 0 /\ errors'[j] = 0
        /\ (temp'[j] = temp[j] \/ temp'[j] = "none")
        /\ item[j] = "done" => file'[j] = file[j]
    BY DEF Restart
  <2>3. \/ /\ item[j] = "queued" /\ poller'[j] = "asleep"
           /\ item'[j] = item[j] /\ why'[j] = why[j]
        \/ /\ item[j] # "queued" /\ poller'[j] = "none"
           /\ \/ item[j] = "pending" /\ item'[j] = "error" /\ why'[j] = "interrupted"
              \/ item[j] # "pending" /\ item'[j] = item[j] /\ why'[j] = why[j]
    <3>1. CASE item[j] = "queued"
      BY <3>1 DEF Restart, Resumes
    <3>2. CASE item[j] = "pending"
      BY <3>2 DEF Restart, Resumes
    <3>3. CASE item[j] \notin {"queued", "pending"}
      BY <3>3 DEF Restart, Resumes
    <3>4. QED
      BY <3>1, <3>2, <3>3
  <2>4. MAX_POLL_ERRORS > 0 /\ 0 < MaxPolls
    BY JobsAssumption
  <2>5. WholeFirst(j)' /\ GivenUpIsLeft(j)' /\ Handed(j)'
    BY <2>1, <2>2, <2>3, <2>4
       DEF JobOK, WholeFirst, GivenUpIsLeft, Troubles, Handed, InPlace, Polling
  <2>6. BudgetKept(j)'
    BY <2>1, <2>2, <2>3, <2>4 DEF JobOK, BudgetKept, GivenUpIsLeft, Troubles, Polling
  <2>7. SeenReady(j)'
    BY <1>3, <2>1, <2>2, <2>3 DEF JobOK, SeenReady, LinkLost, GivenUpIsLeft, Troubles
  <2>8. QED
    BY <2>5, <2>6, <2>7 DEF JobOK
<1>9. QED
  BY <1>4, <1>5, <1>6, <1>7, <1>8, JobsTypedNext DEF JobsInv

\* The first state.
LEMMA JobsStart == JobsInit => JobsInv
<1> SUFFICES ASSUME JobsInit PROVE JobsInv
  OBVIOUS
<1>1. WorldTyped /\ ThreadTyped /\ FoundTyped
  <2>1. 0 \in 0 .. MAX_POLL_ERRORS /\ 0 \in 0 .. MaxPolls /\ 0 \in 0 .. MaxRestarts
    BY JobsAssumption
  <2>2. QED
    BY <2>1 DEF JobsInit, WorldTyped, ThreadTyped, FoundTyped, Copies, Places
<1>2. "" \in Reasons /\ \A x : x = "" => x \notin Troubles
  BY NoReason
<1>3. ItemTyped /\ \A j \in Jobs : why[j] \notin Troubles
  BY <1>2 DEF JobsInit, ItemTyped
<1>4. ASSUME NEW j \in Jobs PROVE JobOK(j)
  <2>1. /\ item[j] = "none" /\ poller[j] = "none" /\ found[j] = FALSE /\ temp[j] = "none"
        /\ why[j] \notin Troubles
    BY <1>3 DEF JobsInit
  <2>2. WholeFirst(j) /\ GivenUpIsLeft(j) /\ BudgetKept(j) /\ Handed(j)
    BY <2>1 DEF WholeFirst, GivenUpIsLeft, Troubles, BudgetKept, Polling, Handed, InPlace
  <2>3. SeenReady(j)
    BY <2>1 DEF SeenReady, Troubles
  <2>4. QED
    BY <2>2, <2>3 DEF JobOK
<1>5. QED
  BY <1>1, <1>3, <1>4, JobsTyped DEF JobsInv

\* The invariant of the pollers.
THEOREM JobsInvariant == JobsSpec => []JobsInv
<1>1. JobsInv /\ [JobsNext]_jobVars => JobsInv'
  <2> SUFFICES ASSUME JobsInv, [JobsNext]_jobVars PROVE JobsInv'
    OBVIOUS
  <2>1. CASE UNCHANGED jobVars
    <3>1. UNCHANGED <<kind, remote, item, why, poller, polls, errors, links, temp, file, found,
                      restarts>>
      BY <2>1 DEF jobVars, thread
    <3>2. JobsTypeOK'
      BY <3>1 DEF JobsInv, JobsTypeOK
    <3>3. ASSUME NEW j \in Jobs PROVE JobOK(j)'
      <4>1. JobOK(j)
        BY DEF JobsInv
      <4>2. QED
        BY <3>1, <4>1 DEF JobOK, WholeFirst, GivenUpIsLeft, BudgetKept, Handed, InPlace,
                          SeenReady, LinkLost
    <3>4. QED
      BY <3>2, <3>3 DEF JobsInv
  <2>2. CASE Restart
    BY <2>2, RestartKeeps
  <2>3. ASSUME NEW j \in Jobs, Ask(j) \/ Regenerate(j) \/ Render(j) \/ Remove(j)
        PROVE  JobsInv'
    BY <2>3, AskKeeps, RegenerateKeeps, RenderKeeps, RemoveKeeps
  <2>4. ASSUME NEW j \in Jobs, Runs(j) PROVE JobsInv'
    BY <2>4, QueueKeeps, StartKeeps, WakeKeeps, PollKeeps, RetrieveKeeps, DownloadKeeps, SaveKeeps,
       RecordKeeps DEF Runs
  <2>5. QED
    BY <2>1, <2>2, <2>3, <2>4 DEF JobsNext
<1>2. QED
  BY <1>1, JobsStart, PTL DEF JobsSpec

\* Items, threads and files have a valid shape, whatever the budgets are.
THEOREM JobsTypeCorrect == JobsSpec => []JobsTypeOK
<1>1. JobsInv => JobsTypeOK
  BY DEF JobsInv
<1>2. QED
  BY <1>1, JobsInvariant, PTL

\* What is shown is whole, however often the server was stopped.
THEOREM ShownIsWhole == JobsSpec => []DoneIsWhole
<1>1. JobsInv => DoneIsWhole
  BY DEF JobsInv, JobOK, WholeFirst, DoneIsWhole
<1>2. QED
  BY <1>1, JobsInvariant, PTL

\* What Venice has handed over is lost only when moving it fails, whatever the budgets
\* are and however often the server is stopped.
THEOREM HandedOverStays == JobsSpec => []HandedOverIsKept
<1>1. JobsInv => HandedOverIsKept
  BY DEF JobsInv, JobOK, Handed, HandedOverIsKept
<1>2. QED
  BY <1>1, JobsInvariant, PTL

\* A poller that had an answer while the video was ready does not run out of time,
\* unless a restart lost the link.
THEOREM TimesOutUnseen == JobsSpec => []TimedOutUnseen
<1>1. JobsInv => TimedOutUnseen
  BY DEF JobsInv, JobOK, SeenReady, LinkLost, TimedOutUnseen
<1>2. QED
  BY <1>1, JobsInvariant, PTL

\* The only way a thread changes its item.
Ends(j) ==
  /\ item[j] \in {"pending", "queued"}
  /\ \E status \in {"queued", "done", "error"} : item' = [item EXCEPT ![j] = status]

\* A thread leaves its item alone or ends it.
LEMMA RunsEnd == ASSUME NEW j \in Jobs, Runs(j) PROVE UNCHANGED item \/ Ends(j)
<1>1. ASSUME NEW status \in {"queued", "done", "error"}, NEW reason, Updated(j, status, reason)
      PROVE  UNCHANGED item \/ Ends(j)
  BY <1>1 DEF Updated, Ends
<1>2. ASSUME NEW reason, GivesUp(j, reason) PROVE UNCHANGED item \/ Ends(j)
  BY <1>1, <1>2 DEF GivesUp
<1>3. CASE Queue(j)
  BY <1>2, <1>3 DEF Queue
<1>4. CASE Start(j)
  BY <1>1, <1>4 DEF Start
<1>5. CASE Wake(j)
  BY <1>2, <1>5 DEF Wake
<1>6. CASE Missed(j)
  BY <1>1, <1>6 DEF Missed
<1>7. CASE Poll(j)
  BY <1>1, <1>6, <1>7 DEF Poll
<1>8. CASE Retrieve(j)
  BY <1>6, <1>8 DEF Retrieve
<1>9. CASE Download(j)
  BY <1>2, <1>9 DEF Download
<1>10. CASE Save(j)
  BY <1>2, <1>10 DEF Save
<1>11. CASE Record(j)
  BY <1>1, <1>11 DEF Record
<1>12. QED
  BY <1>3, <1>4, <1>5, <1>7, <1>8, <1>9, <1>10, <1>11 DEF Runs

\* What a change of one item shows.
LEMMA OneShown ==
  ASSUME JobsTypeOK, NEW j \in Jobs, NEW status, item' = [item EXCEPT ![j] = status]
  PROVE  Shown' = [Shown EXCEPT ![j] = IF status = "queued" THEN "pending" ELSE status]
<1>1. item \in [Jobs -> {"none", "pending", "queued", "done", "error", "removed"}]
  BY DEF JobsTypeOK
<1>2. QED
  BY <1>1 DEF Shown

\* What a poller does to an item is a step of the promised life.
LEMMA StepShown == JobsInv /\ [JobsNext]_jobVars => [Abstract!Next]_Shown
<1> SUFFICES ASSUME JobsInv, [JobsNext]_jobVars PROVE [Abstract!Next]_Shown
  OBVIOUS
<1>1. JobsTypeOK /\ item \in [Jobs -> {"none", "pending", "queued", "done", "error", "removed"}]
  BY DEF JobsInv, JobsTypeOK
<1>2. CASE UNCHANGED item
  BY <1>2 DEF Shown
<1>3. ASSUME NEW j \in Jobs, Ends(j) PROVE [Abstract!Next]_Shown
  <2>1. PICK status \in {"queued", "done", "error"} : item' = [item EXCEPT ![j] = status]
    BY <1>3 DEF Ends
  <2>2. Shown[j] = "pending" /\ Shown \in [Jobs -> Abstract!States]
    BY <1>1, <1>3 DEF Ends, Shown, Abstract!States
  <2>3. Shown' = [Shown EXCEPT ![j] = IF status = "queued" THEN "pending" ELSE status]
    BY <1>1, <2>1, OneShown
  <2>4. CASE status = "queued"
    <3>1. Shown' = Shown
      BY <2>2, <2>3, <2>4
    <3>2. QED
      BY <3>1
  <2>5. CASE status = "done"
    BY <2>2, <2>3, <2>5 DEF Abstract!Next, Abstract!Finish, Abstract!Becomes
  <2>6. CASE status = "error"
    BY <2>2, <2>3, <2>6 DEF Abstract!Next, Abstract!Fail, Abstract!Becomes
  <2>7. QED
    BY <2>1, <2>4, <2>5, <2>6
<1>4. ASSUME NEW j \in Jobs, Ask(j) PROVE [Abstract!Next]_Shown
  <2>1. Shown[j] = "none"
    BY <1>1, <1>4 DEF Ask, Shown
  <2>2. item' = [item EXCEPT ![j] = "pending"]
    BY <1>4 DEF Ask
  <2>3. Shown' = [Shown EXCEPT ![j] = "pending"]
    BY <1>1, <2>2, OneShown
  <2>4. QED
    BY <2>1, <2>3 DEF Abstract!Next, Abstract!Appear, Abstract!Becomes
<1>5. ASSUME NEW j \in Jobs, Regenerate(j) PROVE [Abstract!Next]_Shown
  <2>1. Shown[j] = "error"
    BY <1>1, <1>5 DEF Regenerate, Shown
  <2>2. item' = [item EXCEPT ![j] = "pending"]
    BY <1>5 DEF Regenerate
  <2>3. Shown' = [Shown EXCEPT ![j] = "pending"]
    BY <1>1, <2>2, OneShown
  <2>4. QED
    BY <2>1, <2>3 DEF Abstract!Next, Abstract!TryAgain, Abstract!Becomes
<1>6. ASSUME NEW j \in Jobs, Remove(j) PROVE [Abstract!Next]_Shown
  <2>1. item' = [item EXCEPT ![j] = "removed"]
    BY <1>6 DEF Remove
  <2>2. Shown' = [i \in Jobs |-> IF i \in {j} THEN "removed" ELSE Shown[i]]
    BY <1>1, <2>1 DEF Shown
  <2>3. Abstract!Remove
    BY <2>2 DEF Abstract!Remove
  <2>4. QED
    BY <2>3 DEF Abstract!Next
<1>7. CASE Restart
  <2> DEFINE S == {i \in Jobs : item[i] = "pending"}
  <2>1. item' = [i \in Jobs |-> IF item[i] = "pending" THEN "error" ELSE item[i]]
    BY <1>7 DEF Restart
  <2>2. Shown' = [i \in Jobs |-> IF i \in S THEN "error" ELSE Shown[i]]
    BY <1>1, <2>1 DEF Shown
  <2>3. S \subseteq {i \in Jobs : Shown[i] = "pending"}
    BY DEF Shown
  <2>4. CASE S = {}
    <3>1. Shown' = Shown
      BY <2>2, <2>4 DEF Shown
    <3>2. QED
      BY <3>1
  <2>5. CASE S # {}
    <3> HIDE DEF S
    <3>1. Abstract!Interrupt
      BY <2>2, <2>3, <2>5 DEF Abstract!Interrupt
    <3>2. QED
      BY <3>1 DEF Abstract!Next
  <2>6. QED
    BY <2>4, <2>5
<1>8. ASSUME NEW j \in Jobs, Runs(j) PROVE [Abstract!Next]_Shown
  BY <1>2, <1>3, <1>8, RunsEnd
<1>9. ASSUME NEW j \in Jobs, Render(j) PROVE [Abstract!Next]_Shown
  BY <1>2, <1>9 DEF Render
<1>10. CASE UNCHANGED jobVars
  BY <1>2, <1>10 DEF jobVars
<1>11. QED
  BY <1>4, <1>5, <1>6, <1>7, <1>8, <1>9, <1>10 DEF JobsNext

\* Through polls, retrieval, download, restarts and removals an item goes only the
\* way that is promised of generated media.
THEOREM JobsAreGenerated == JobsSpec => Abstract!Spec
<1>1. JobsInit => Abstract!Init
  BY DEF JobsInit, Abstract!Init, Shown
<1>2. QED
  BY <1>1, StepShown, JobsInvariant, PTL DEF JobsSpec, Abstract!Spec

=============================================================================
