-------------------------- MODULE MediaItemsProofs --------------------------
(***************************************************************************)
(* What holds of a reply's media for every number of items, polls, retries *)
(* and restarts, of tabs, errors and deletions: its shape and its cost;    *)
(* and, where each request that writes finds what it read, that each item  *)
(* has one thread and lives the life of a generated media.                 *)
(***************************************************************************)
EXTENDS MediaItems, FiniteSets, FiniteSetTheorems, TLAPS

Statuses == {"pending", "done", "error"}

\* The bounds are natural numbers.
LEMMA BoundsInNat ==
  /\ MaxPolls \in Nat /\ MaxPollErrors \in Nat /\ MaxPolls # 0 /\ MaxPollErrors # 0
  /\ MaxRetries \in Nat /\ MaxRestarts \in Nat
BY BoundsAssumption

\* Storing an item keeps the items' shape.
LEMMA AppendedType ==
  ASSUME TypeOK, NEW i \in Items, NEW kind \in Kinds, NEW status \in Statuses
  PROVE  Appended(i, kind, status) \in [Items -> Item]
BY DEF TypeOK, Appended, Item, Statuses

\* Updating one keeps it as well.
LEMMA UpdatedType ==
  ASSUME TypeOK, NEW i \in Items, NEW status \in Statuses, NEW job \in BOOLEAN
  PROVE  Updated(i, status, job) \in [Items -> Item]
BY ZenonT(40) DEF TypeOK, Updated, Item, Statuses

\* An item's fields have their types.
LEMMA ItemType ==
  ASSUME TypeOK, NEW i \in Items
  PROVE  items[i].status \in Statuses /\ items[i].job \in BOOLEAN /\ items[i].kind \in Kinds
BY DEF TypeOK, Item, Statuses

\* A new thread has a thread's shape.
LEMMA NewWorkerType ==
  ASSUME NEW i \in Items, NEW n \in 0 .. MaxRetries, NEW kind \in {"regen", "poll"},
         NEW at \in {"work", "extra", "wait", "poll", "readcost", "addcost"}
  PROVE  NewWorker(i, n, kind, at) \in Worker
BY BoundsInNat DEF NewWorker, Worker

\* A thread that goes on or ends leaves the threads' shapes valid.
LEMMA WorkerStepType ==
  ASSUME TypeOK, NEW w \in workers,
         \/ WorkerEnds(w)
         \/ \E at \in {"wait", "poll", "readcost", "addcost"} : WorkerGoes(w, at)
  PROVE  workers' \subseteq Worker
BY DEF TypeOK, WorkerEnds, WorkerGoes, Worker

\* A step of the reply thread keeps every shape.
LEMMA TurnStepType == TypeOK /\ TurnStep => TypeOK'
<1> SUFFICES ASSUME TypeOK, TurnStep PROVE TypeOK'
  OBVIOUS
<1>1. ASSUME NEW i \in Items, NEW kind \in Kinds, TurnBegins(i, kind) PROVE TypeOK'
  <2>1. items' \in [Items -> Item]
    BY <1>1, AppendedType DEF TurnBegins, Statuses
  <2>2. turn' \in Turn /\ turn'.item \in Items
    BY <1>1 DEF TurnBegins, TypeOK, Turn
  <2>3. QED
    BY <1>1, <2>1, <2>2 DEF TurnBegins, TypeOK
<1>2. CASE TurnMakesImage
  <2>1. items' \in [Items -> Item]
    BY <1>2, UpdatedType DEF TurnMakesImage, Statuses, TypeOK
  <2>2. turn.item \in Items /\ turn.cost + 1 \in Nat
    BY <1>2 DEF TurnMakesImage, TypeOK, Turn
  <2>3. turn' = [turn EXCEPT !.at = "made", !.cost = turn.cost + 1]
    BY <1>2 DEF TurnMakesImage
  <2>4. turn' \in Turn /\ turn'.item = turn.item
    BY <2>2, <2>3 DEF TypeOK, Turn
  <2>5. billed' \in Nat
    BY <1>2 DEF TurnMakesImage, TypeOK
  <2>6. QED
    BY <1>2, <2>1, <2>2, <2>4, <2>5 DEF TurnMakesImage, TypeOK
<1>3. ASSUME NEW i \in Items, TurnAddsImage(i) PROVE TypeOK'
  <2>1. items' \in [Items -> Item]
    BY <1>3, AppendedType DEF TurnAddsImage, Statuses, Kinds
  <2>2. QED
    BY <1>3, <2>1 DEF TurnAddsImage, TypeOK
<1>4. CASE TurnHasMade
  BY <1>4 DEF TurnHasMade, TypeOK, Turn
<1>5. CASE TurnSubmitsVideo
  <2>1. turn.item \in Items
    BY <1>5 DEF TurnSubmitsVideo, TypeOK
  <2>2. items' \in [Items -> Item]
    BY <1>5, <2>1, ItemType, UpdatedType DEF TurnSubmitsVideo
  <2>3. workers' \subseteq Worker
    BY <1>5, <2>1, NewWorkerType, BoundsInNat DEF TurnSubmitsVideo, TypeOK
  <2>4. turn' \in Turn /\ turn'.at = "ready"
    BY <1>5 DEF TurnSubmitsVideo, TypeOK, Turn
  <2>5. QED
    BY <1>5, <2>2, <2>3, <2>4 DEF TurnSubmitsVideo, TypeOK
<1>6. CASE TurnFails
  <2>1. turn.item \in Items
    BY <1>6 DEF TurnFails, TypeOK
  <2>2. items' \in [Items -> Item]
    BY <1>6, <2>1, ItemType, UpdatedType DEF TurnFails, Statuses
  <2>3. turn' \in Turn /\ turn'.at = "ready"
    BY <1>6 DEF TurnFails, TypeOK, Turn
  <2>4. QED
    BY <1>6, <2>2, <2>3 DEF TurnFails, TypeOK
<1>7. CASE TurnBreaks
  BY <1>7 DEF TurnBreaks, TypeOK, Turn
<1>8. ASSUME NEW status \in {"done", "error"}, TurnEnds(status) PROVE TypeOK'
  BY <1>8 DEF TurnEnds, TypeOK, Turn
<1>9. QED
  BY <1>1, <1>2, <1>3, <1>4, <1>5, <1>6, <1>7, <1>8 DEF TurnStep

\* So does a step of a regenerate worker or a poller.
LEMMA WorkersStepType == ASSUME TypeOK, NEW w \in workers, WorkerStep(w) PROVE TypeOK'
<1>w. w \in Worker /\ w.item \in Items
  BY DEF TypeOK, Worker
<1>i. items[w.item].status \in Statuses /\ items[w.item].job \in BOOLEAN
  BY <1>w, ItemType
<1>1. CASE RegenMakesImage(w)
  <2>1. items' \in [Items -> Item]
    BY <1>1, <1>w, <1>i, UpdatedType DEF RegenMakesImage, Statuses
  <2>2. workers' \subseteq Worker
    BY <1>1, WorkerStepType DEF RegenMakesImage
  <2>3. QED
    BY <1>1, <2>1, <2>2 DEF RegenMakesImage, TypeOK
<1>2. ASSUME NEW i \in Items, RegenAddsImage(w, i) PROVE TypeOK'
  <2>1. items' \in [Items -> Item]
    BY <1>2, AppendedType DEF RegenAddsImage, Statuses, Kinds
  <2>2. QED
    BY <1>2, <2>1 DEF RegenAddsImage, TypeOK
<1>3. CASE RegenSubmitsVideo(w)
  <2>1. items' \in [Items -> Item]
    BY <1>3, <1>w, <1>i, UpdatedType DEF RegenSubmitsVideo
  <2>2. NewWorker(w.item, w.try, "poll", "wait") \in Worker
    BY <1>w, NewWorkerType DEF Worker
  <2>3. QED
    BY <1>3, <2>1, <2>2 DEF RegenSubmitsVideo, TypeOK
<1>4. CASE RegenFails(w) \/ PollerTimesOut(w) \/ PollFails(w)
  <2>1. items' \in [Items -> Item]
    BY <1>4, <1>w, <1>i, UpdatedType DEF RegenFails, PollerTimesOut, PollFails, Statuses
  <2>2. workers' \subseteq Worker
    BY <1>4, WorkerStepType DEF RegenFails, PollerTimesOut, PollFails
  <2>3. QED
    BY <1>4, <2>1, <2>2 DEF RegenFails, PollerTimesOut, PollFails, TypeOK
<1>5. CASE PollerWakes(w)
  <2>0. ASSUME w.polls < MaxPolls
        PROVE  [w EXCEPT !.at = "poll", !.polls = w.polls + 1] \in Worker
    <3>1. w.polls \in Nat /\ w.polls <= MaxPolls
      BY <1>w, BoundsInNat DEF Worker
    <3>2. w.polls + 1 \in 0 .. MaxPolls
      BY <2>0, <3>1, BoundsInNat
    <3>3. QED
      BY <1>w, <3>2 DEF Worker
  <2>1. workers' \subseteq Worker
    BY <1>5, <2>0 DEF PollerWakes, WorkerEnds, TypeOK
  <2>2. QED
    BY <1>5, <2>1 DEF PollerWakes, TypeOK
<1>6. CASE PollAnswers(w)
  <2>0. [w EXCEPT !.at = "wait", !.errors = 0] \in Worker
    <3>1. 0 \in 0 .. MaxPollErrors
      BY BoundsInNat
    <3>2. QED
      BY <1>w, <3>1 DEF Worker
  <2>1. workers' \subseteq Worker
    BY <1>6, <2>0 DEF PollAnswers, TypeOK
  <2>2. QED
    BY <1>6, <2>1 DEF PollAnswers, TypeOK
<1>7. CASE PollErrs(w)
  <2>0. ASSUME w.errors + 1 < MaxPollErrors
        PROVE  [w EXCEPT !.at = "wait", !.errors = w.errors + 1] \in Worker
    <3>1. w.errors \in Nat
      BY <1>w, BoundsInNat DEF Worker
    <3>2. w.errors + 1 \in 0 .. MaxPollErrors
      BY <2>0, <3>1, BoundsInNat
    <3>3. QED
      BY <1>w, <3>2 DEF Worker
  <2>1. workers' \subseteq Worker
    BY <1>7, <2>0 DEF PollErrs, TypeOK
  <2>2. QED
    BY <1>7, <2>1 DEF PollErrs, TypeOK
<1>8. CASE PollFinishes(w)
  <2>1. items' \in [Items -> Item]
    BY <1>8, <1>w, <1>i, UpdatedType DEF PollFinishes, Statuses
  <2>2. workers' \subseteq Worker
    BY <1>8, WorkerStepType DEF PollFinishes
  <2>3. QED
    BY <1>8, <2>1, <2>2 DEF PollFinishes, TypeOK
<1>9. CASE ReadCost(w)
  <2>0. [w EXCEPT !.at = "addcost", !.seen = cost] \in Worker
    BY <1>w DEF Worker, TypeOK
  <2>1. workers' \subseteq Worker
    BY <1>9, <2>0 DEF ReadCost, WorkerEnds, TypeOK
  <2>2. QED
    BY <1>9, <2>1 DEF ReadCost, TypeOK
<1>10. CASE AddCost(w)
  <2>1. cost' \in Nat
    BY <1>10, <1>w DEF AddCost, TypeOK, Worker
  <2>2. QED
    BY <1>10, <2>1 DEF AddCost, WorkerEnds, TypeOK
<1>11. QED
  BY <1>1, <1>2, <1>3, <1>4, <1>5, <1>6, <1>7, <1>8, <1>9, <1>10 DEF WorkerStep

\* So does a step of a request: what it read and what it writes are items.
LEMMA RequestStepType == ASSUME TypeOK, NEW r \in reqs, RequestStep(r) PROVE TypeOK'
<1>r. r \in Request
  BY DEF TypeOK
<1>1. ASSUME NEW i \in Items, Mark(r, i) PROVE TypeOK'
  <2>1. items' \in [Items -> Item]
    BY <1>1, UpdatedType DEF Mark, Statuses
  <2>2. NewWorker(i, r.try, "regen", "work") \in Worker
    BY <1>r, NewWorkerType DEF Request
  <2>3. QED
    BY <1>1, <2>1, <2>2 DEF Mark, TypeOK
<1>2. CASE GetMessage(r)
  <2>1. [r EXCEPT !.at = "write", !.snap = items] \in Request
    BY <1>r DEF Request, TypeOK
  <2>2. QED
    BY <1>2, <2>1 DEF GetMessage, TypeOK
<1>3. CASE WriteMedia(r)
  <2>1. r.snap \in [Items -> Item]
    BY <1>r DEF Request
  <2>2. \A i \in Items : [items[i] EXCEPT !.place = "gone"] \in Item
    BY DEF TypeOK, Item
  <2>3. items' \in [Items -> Item]
    BY <1>3, <2>1, <2>2 DEF WriteMedia, TypeOK
  <2>4. QED
    BY <1>3, <2>3 DEF WriteMedia, TypeOK
<1>4. QED
  BY <1>1, <1>2, <1>3 DEF RequestStep

\* Asking for something leaves a request of the right shape.
LEMMA AsksType ==
  ASSUME TypeOK, NEW c \in Clients, NEW op \in {"regen", "delete"},
         NEW at \in {"mark", "get", "write"}, NEW drop \in SUBSET Items,
         NEW n \in 0 .. MaxRetries, Asks(c, op, at, drop, n)
  PROVE  reqs' \subseteq Request
BY DEF Asks, TypeOK, Request

\* Whatever errors, deletions and restarts occur, the reply's row, its items,
\* threads and requests keep their shape.
THEOREM MediaTypeCorrect == Spec => []TypeOK
<1>1. Init => TypeOK
  BY BoundsInNat DEF Init, TypeOK, Item, Kinds, Turn
<1>2. TypeOK /\ [Next]_vars => TypeOK'
  <2> SUFFICES ASSUME TypeOK, [Next]_vars PROVE TypeOK'
    OBVIOUS
  <2>1. CASE TurnStep
    BY <2>1, TurnStepType
  <2>2. ASSUME NEW w \in workers, WorkerStep(w) PROVE TypeOK'
    BY <2>2, WorkersStepType
  <2>3. ASSUME NEW r \in reqs, RequestStep(r) PROVE TypeOK'
    BY <2>3, RequestStepType
  <2>4. ASSUME NEW c \in Clients, NEW i \in Items, AskRegenerate(c, i) PROVE TypeOK'
    <3>1. retries + 1 \in 0 .. MaxRetries /\ 0 \in 0 .. MaxRetries
      BY <2>4, BoundsInNat DEF AskRegenerate, TypeOK
    <3>2. reqs' \subseteq Request
      BY <2>4, <3>1, AsksType DEF AskRegenerate
    <3>3. QED
      BY <2>4, <3>1, <3>2 DEF AskRegenerate, TypeOK
  <2>5. ASSUME NEW c \in Clients, NEW i \in Items, AskDeleteMedia(c, i) PROVE TypeOK'
    <3>1. reqs' \subseteq Request
      BY <2>5, AsksType, BoundsInNat DEF AskDeleteMedia
    <3>2. QED
      BY <2>5, <3>1 DEF AskDeleteMedia, TypeOK
  <2>6. ASSUME NEW c \in Clients, NEW S \in SUBSET Items, AskClearBlocked(c, S) PROVE TypeOK'
    <3>1. reqs' \subseteq Request
      BY <2>6, AsksType, BoundsInNat DEF AskClearBlocked
    <3>2. \A i \in Items : [items[i] EXCEPT !.place = "gone"] \in Item
      BY DEF TypeOK, Item
    <3>3. items' \in [Items -> Item]
      BY <2>6, <3>2 DEF AskClearBlocked, TypeOK
    <3>4. QED
      BY <2>6, <3>1, <3>3 DEF AskClearBlocked, TypeOK
  <2>7. ASSUME NEW c \in Clients, NEW i \in Items, DeleteDetached(c, i) PROVE TypeOK'
    BY <2>7 DEF DeleteDetached, TypeOK, Item
  <2>8. ASSUME NEW c \in Clients, DeleteTurn(c) PROVE TypeOK'
    <3>1. \A i \in Items, place \in {"library", "gone"} : [items[i] EXCEPT !.place = place] \in Item
      BY DEF TypeOK, Item
    <3>2. items' \in [Items -> Item]
      BY <2>8, <3>1 DEF DeleteTurn, TypeOK
    <3>3. QED
      BY <2>8, <3>2 DEF DeleteTurn, TypeOK
  <2>9. ASSUME NEW c \in Clients, DeleteChat(c) PROVE TypeOK'
    <3>1. \A i \in Items : [items[i] EXCEPT !.place = "gone"] \in Item
      BY DEF TypeOK, Item
    <3>2. items' \in [Items -> Item]
      BY <2>9, <3>1 DEF DeleteChat, TypeOK
    <3>3. QED
      BY <2>9, <3>2 DEF DeleteChat, TypeOK
  <2>10. CASE Restart
    <3>1. \A i \in Items : [items[i] EXCEPT !.status = "error"] \in Item
      BY DEF TypeOK, Item
    <3>2. items' \in [Items -> Item]
      BY <2>10, <3>1 DEF Restart, TypeOK
    <3>3. workers' \subseteq Worker
      BY <2>10, NewWorkerType, BoundsInNat DEF Restart
    <3>4. turn' \in Turn /\ turn'.at = "over"
      BY <2>10 DEF Restart, TypeOK, Turn
    <3>5. QED
      BY <2>10, <3>2, <3>3, <3>4, BoundsInNat DEF Restart, TypeOK
  <2>11. CASE UNCHANGED vars
    BY <2>11 DEF vars, TypeOK
  <2>12. QED
    BY <2>1, <2>2, <2>3, <2>4, <2>5, <2>6, <2>7, <2>8, <2>9, <2>10, <2>11 DEF Next
<1>3. QED
  BY <1>1, <1>2, PTL DEF Spec

-----------------------------------------------------------------------------
(* No reply is charged for more than was made *)

\* The threads that have made something and have not charged it yet.
Charging == {w \in workers : w.at \in {"readcost", "addcost"}}

Due == Cardinality(Charging)

\* Whatever the reply's cost is set to next, the total of the reply thread or
\* what a thread has read plus its own charge, leaves room for all that is due.
ChargesCovered ==
  /\ IsFiniteSet(Charging)
  /\ cost + Due <= billed
  /\ turn.cost + Due <= billed
  /\ \A w \in Charging : w.at = "addcost" => w.seen + Due <= billed

\* The numbers the argument is about are natural numbers.
LEMMA CostsInNat ==
  ASSUME TypeOK
  PROVE  /\ cost \in Nat /\ billed \in Nat /\ turn.cost \in Nat
         /\ \A w \in workers : w.seen \in Nat
BY DEF TypeOK, Turn, Worker

\* How much is due is a number once it is finite.
LEMMA DueInNat == ASSUME IsFiniteSet(Charging) PROVE Due \in Nat
BY FS_CardinalityType DEF Due

\* A step after which no thread is due that was not, and that makes and charges
\* nothing, or replaces the reply's cost by the reply thread's total.
LEMMA NothingNewDue ==
  ASSUME TypeOK, TypeOK', ChargesCovered, Charging' \subseteq Charging,
         billed' = billed, turn'.cost = turn.cost, cost' = cost \/ cost' = turn.cost
  PROVE  ChargesCovered'
<1>1. IsFiniteSet(Charging') /\ Due' <= Due
  BY FS_Subset DEF ChargesCovered, Due
<1>2. Due \in Nat /\ Due' \in Nat
  BY <1>1, FS_CardinalityType DEF ChargesCovered, Due
<1>3. \A w \in Charging' : w \in Charging /\ w.seen \in Nat
  BY CostsInNat DEF Charging
<1>4. QED
  BY <1>1, <1>2, <1>3, CostsInNat DEF ChargesCovered

\* A step that makes something and leaves its maker to charge it.
LEMMA OneMoreDue ==
  ASSUME TypeOK, TypeOK', ChargesCovered, NEW x, x.at = "readcost",
         Charging' = Charging \cup {x},
         billed' = billed + 1, turn'.cost = turn.cost, cost' = cost
  PROVE  ChargesCovered'
<1>1. IsFiniteSet(Charging') /\ Due' <= Due + 1
  <2>1. Due \in Nat
    BY FS_CardinalityType DEF ChargesCovered, Due
  <2>2. /\ IsFiniteSet(Charging \cup {x})
        /\ Cardinality(Charging \cup {x}) =
             IF x \in Charging THEN Cardinality(Charging) ELSE Cardinality(Charging) + 1
    BY FS_AddElement DEF ChargesCovered
  <2>3. Due' = Cardinality(Charging \cup {x})
    BY DEF Due
  <2>4. QED
    BY <2>1, <2>2, <2>3 DEF Due
<1>2. Due \in Nat /\ Due' \in Nat
  BY <1>1, FS_CardinalityType DEF ChargesCovered, Due
<1>3. \A w \in Charging' : w.at = "addcost" => w \in Charging /\ w.seen \in Nat
  BY CostsInNat DEF Charging
<1>4. QED
  BY <1>1, <1>2, <1>3, CostsInNat DEF ChargesCovered

\* A reply is never charged for more than was made for it, however the reads and
\* writes of its cost by the reply thread, the workers and the pollers interleave.
THEOREM ReplyNeverOvercharged == Spec => []NeverOvercharged
<1>1. Init => ChargesCovered
  <2> SUFFICES ASSUME Init PROVE ChargesCovered
    OBVIOUS
  <2>1. Charging = {}
    BY DEF Init, Charging
  <2>2. IsFiniteSet(Charging) /\ Due = 0
    BY <2>1, FS_EmptySet DEF Due
  <2>3. QED
    BY <2>1, <2>2 DEF Init, ChargesCovered
<1>2. TypeOK /\ TypeOK' /\ ChargesCovered /\ [Next]_vars => ChargesCovered'
  <2> SUFFICES ASSUME TypeOK, TypeOK', ChargesCovered, [Next]_vars PROVE ChargesCovered'
    OBVIOUS
  <2>1. CASE TurnStep
    <3>1. CASE TurnMakesImage
      <4>1. Charging' = Charging /\ Due' = Due
        BY <3>1 DEF TurnMakesImage, Charging, Due
      <4>2. turn'.cost = turn.cost + 1 /\ billed' = billed + 1 /\ cost' = cost
        BY <3>1 DEF TurnMakesImage, TypeOK, Turn
      <4>3. Due \in Nat /\ \A w \in Charging : w.seen \in Nat
        BY DueInNat, CostsInNat DEF ChargesCovered, Charging
      <4>4. QED
        BY <4>1, <4>2, <4>3, CostsInNat DEF ChargesCovered
    <3>2. CASE TurnSubmitsVideo
      <4>1. Charging' = Charging
        BY <3>2 DEF TurnSubmitsVideo, Charging, NewWorker
      <4>2. turn'.cost = turn.cost /\ billed' = billed /\ cost' = cost
        BY <3>2 DEF TurnSubmitsVideo, TypeOK, Turn
      <4>3. QED
        BY <4>1, <4>2, NothingNewDue
    <3>3. CASE \/ \E i \in Items, kind \in Kinds : TurnBegins(i, kind)
               \/ \E i \in Items : TurnAddsImage(i)
               \/ TurnHasMade \/ TurnFails \/ TurnBreaks
      <4>1. workers' = workers /\ billed' = billed /\ cost' = cost
        BY <3>3 DEF TurnBegins, TurnAddsImage, TurnHasMade, TurnFails, TurnBreaks
      <4>2. turn'.cost = turn.cost
        BY <3>3 DEF TurnBegins, TurnAddsImage, TurnHasMade, TurnFails, TurnBreaks, TypeOK, Turn
      <4>3. QED
        BY <4>1, <4>2, NothingNewDue DEF Charging
    <3>4. CASE \E status \in {"done", "error"} : TurnEnds(status)
      <4>1. workers' = workers /\ billed' = billed /\ (cost' = cost \/ cost' = turn.cost)
        BY <3>4 DEF TurnEnds
      <4>2. turn'.cost = turn.cost
        BY <3>4 DEF TurnEnds, TypeOK, Turn
      <4>3. QED
        BY <4>1, <4>2, NothingNewDue DEF Charging
    <3>5. QED
      BY <2>1, <3>1, <3>2, <3>3, <3>4 DEF TurnStep
  <2>2. ASSUME NEW w \in workers, WorkerStep(w) PROVE ChargesCovered'
    <3>w. w \in Worker
      BY DEF TypeOK
    <3>1. CASE RegenMakesImage(w) \/ (PollFinishes(w) /\ items[w.item].place = "message")
      <4> DEFINE x == [w EXCEPT !.at = "readcost"]
      <4>1. x.at = "readcost" /\ w \notin Charging
        BY <3>w, <3>1 DEF RegenMakesImage, PollFinishes, Worker, Charging
      <4>2. workers' = (workers \ {w}) \cup {x}
        BY <3>1 DEF RegenMakesImage, PollFinishes, WorkerGoes
      <4>3. billed' = billed + 1 /\ turn' = turn /\ cost' = cost
        BY <3>1 DEF RegenMakesImage, PollFinishes
      <4> HIDE DEF x
      <4>4. Charging' = Charging \cup {x}
        BY <4>1, <4>2 DEF Charging
      <4>5. QED
        BY <4>1, <4>3, <4>4, OneMoreDue
    <3>2. CASE PollFinishes(w) /\ items[w.item].place # "message"
      <4>1. Charging' = Charging /\ Due' = Due
        BY <3>2 DEF PollFinishes, WorkerEnds, Charging, Due
      <4>2. billed' = billed + 1 /\ turn' = turn /\ cost' = cost
        BY <3>2 DEF PollFinishes
      <4>3. Due \in Nat /\ \A v \in Charging : v.seen \in Nat
        BY DueInNat, CostsInNat DEF ChargesCovered, Charging
      <4>4. QED
        BY <4>1, <4>2, <4>3, CostsInNat DEF ChargesCovered
    <3>3. ASSUME \/ \E i \in Items : RegenAddsImage(w, i)
                 \/ RegenSubmitsVideo(w) \/ RegenFails(w)
                 \/ PollerWakes(w) \/ PollerTimesOut(w) \/ PollAnswers(w) \/ PollErrs(w) \/ PollFails(w)
          PROVE  ChargesCovered'
      <4>1. Charging' \subseteq Charging
        <5>1. [w EXCEPT !.at = "poll", !.polls = w.polls + 1].at = "poll"
          BY <3>w DEF Worker
        <5>2. [w EXCEPT !.at = "wait", !.errors = 0].at = "wait"
          BY <3>w DEF Worker
        <5>3. [w EXCEPT !.at = "wait", !.errors = w.errors + 1].at = "wait"
          BY <3>w DEF Worker
        <5>4. NewWorker(w.item, w.try, "poll", "wait").at = "wait"
          BY DEF NewWorker
        <5>5. \A v \in workers' : v \in workers \/ v.at \in {"poll", "wait"}
          BY <3>3, <5>1, <5>2, <5>3, <5>4 DEF RegenAddsImage, RegenSubmitsVideo, RegenFails,
             PollerWakes, PollerTimesOut, PollAnswers, PollErrs, PollFails, WorkerEnds
        <5>6. QED
          BY <5>5 DEF Charging
      <4>2. billed' = billed /\ turn' = turn /\ cost' = cost
        BY <3>3 DEF RegenAddsImage, RegenSubmitsVideo, RegenFails,
             PollerWakes, PollerTimesOut, PollAnswers, PollErrs, PollFails
      <4>3. QED
        BY <4>1, <4>2, NothingNewDue
    <3>4. CASE ReadCost(w)
      <4>1. CASE reply = "deleted"
        <5>1. Charging' \subseteq Charging
          BY <3>4, <4>1 DEF ReadCost, WorkerEnds, Charging
        <5>2. QED
          BY <3>4, <5>1, NothingNewDue DEF ReadCost
      <4>2. CASE reply # "deleted"
        <5> DEFINE x == [w EXCEPT !.at = "addcost", !.seen = cost]
        <5>1. x.at = "addcost" /\ x.seen = cost /\ w \in Charging
          BY <3>w, <3>4 DEF ReadCost, Worker, Charging
        <5>2. workers' = (workers \ {w}) \cup {x}
          BY <3>4, <4>2 DEF ReadCost
        <5>3. billed' = billed /\ turn' = turn /\ cost' = cost
          BY <3>4 DEF ReadCost
        <5> HIDE DEF x
        <5>4. Charging' = (Charging \ {w}) \cup {x}
          BY <5>1, <5>2 DEF Charging
        <5>5. /\ IsFiniteSet(Charging \ {w})
              /\ Cardinality(Charging \ {w}) = Due - 1
          BY <5>1, FS_RemoveElement DEF ChargesCovered, Due
        <5>6. Due \in Nat
          BY DueInNat DEF ChargesCovered
        <5>7. IsFiniteSet(Charging') /\ Due' <= Due
          <6> DEFINE rest == Charging \ {w}
          <6>1. /\ IsFiniteSet(rest \cup {x})
                /\ Cardinality(rest \cup {x}) =
                     IF x \in rest THEN Cardinality(rest) ELSE Cardinality(rest) + 1
            BY <5>5, FS_AddElement
          <6>2. Due' = Cardinality(rest \cup {x})
            BY <5>4 DEF Due
          <6>3. QED
            BY <5>4, <5>5, <5>6, <6>1, <6>2
        <5>8. Due' \in Nat
          BY <5>7, FS_CardinalityType DEF Due
        <5>9. \A v \in Charging' : v.at = "addcost" =>
                v.seen \in Nat /\ (v.seen = cost \/ v \in Charging)
          BY <5>1, <5>4, CostsInNat DEF Charging
        <5>10. QED
          BY <5>3, <5>6, <5>7, <5>8, <5>9, CostsInNat DEF ChargesCovered
      <4>3. QED
        BY <4>1, <4>2
    <3>5. CASE AddCost(w)
      <4>1. w \in Charging /\ w.seen \in Nat /\ w.seen + Due <= billed
        BY <3>5, CostsInNat DEF AddCost, Charging, ChargesCovered
      <4>2. Charging' = Charging \ {w}
        BY <3>5 DEF AddCost, WorkerEnds, Charging
      <4>3. Due \in Nat
        BY DueInNat DEF ChargesCovered
      <4>4. IsFiniteSet(Charging') /\ Due' = Due - 1
        BY <4>1, <4>2, FS_RemoveElement DEF ChargesCovered, Due
      <4>5. billed' = billed /\ turn' = turn /\ (cost' = cost \/ cost' = w.seen + 1)
        BY <3>5 DEF AddCost
      <4>6. \A v \in Charging' : v \in Charging /\ v.seen \in Nat
        BY <4>2, CostsInNat DEF Charging
      <4>7. QED
        BY <4>1, <4>3, <4>4, <4>5, <4>6, CostsInNat DEF ChargesCovered
    <3>6. CASE RegenMakesImage(w) \/ PollFinishes(w)
      BY <3>1, <3>2, <3>6
    <3>7. CASE \E i \in Items : RegenAddsImage(w, i)
      BY <3>3, <3>7
    <3>8. CASE \/ RegenSubmitsVideo(w) \/ RegenFails(w) \/ PollerWakes(w)
               \/ PollerTimesOut(w) \/ PollAnswers(w) \/ PollErrs(w) \/ PollFails(w)
      BY <3>3, <3>8
    <3>9. QED
      BY <2>2, <3>4, <3>5, <3>6, <3>7, <3>8 DEF WorkerStep
  <2>3. ASSUME NEW r \in reqs, RequestStep(r) PROVE ChargesCovered'
    <3>1. billed' = billed /\ turn' = turn /\ cost' = cost
      BY <2>3 DEF RequestStep, Mark, GetMessage, WriteMedia
    <3>2. \A v \in workers' : v \in workers \/ v.at = "work"
      <4>1. ASSUME NEW i \in Items, Mark(r, i)
            PROVE  workers' \subseteq workers \cup {NewWorker(i, r.try, "regen", "work")}
        BY <4>1 DEF Mark
      <4>2. \A i \in Items : NewWorker(i, r.try, "regen", "work").at = "work"
        BY DEF NewWorker
      <4>3. GetMessage(r) \/ WriteMedia(r) => workers' = workers
        BY DEF GetMessage, WriteMedia
      <4>4. QED
        BY <2>3, <4>1, <4>2, <4>3 DEF RequestStep
    <3>3. Charging' \subseteq Charging
      BY <3>2 DEF Charging
    <3>4. QED
      BY <3>1, <3>3, NothingNewDue
  <2>4. ASSUME NEW c \in Clients,
               \/ \E i \in Items : AskRegenerate(c, i) \/ AskDeleteMedia(c, i) \/ DeleteDetached(c, i)
               \/ \E S \in SUBSET Items : AskClearBlocked(c, S)
               \/ DeleteTurn(c) \/ DeleteChat(c)
        PROVE  ChargesCovered'
    <3>1. billed' = billed /\ turn' = turn /\ cost' = cost /\ workers' = workers
      BY <2>4 DEF AskRegenerate, AskDeleteMedia, DeleteDetached, AskClearBlocked, DeleteTurn, DeleteChat
    <3>2. QED
      BY <3>1, NothingNewDue DEF Charging
  <2>5. CASE Restart
    <3>1. Charging' \subseteq Charging
      BY <2>5 DEF Restart, Charging, NewWorker
    <3>2. billed' = billed /\ turn'.cost = turn.cost /\ cost' = cost
      BY <2>5 DEF Restart, TypeOK, Turn
    <3>3. QED
      BY <3>1, <3>2, NothingNewDue
  <2>6. CASE UNCHANGED vars
    BY <2>6, NothingNewDue DEF vars, Charging
  <2>7. QED
    BY <2>1, <2>2, <2>3, <2>4, <2>5, <2>6 DEF Next
<1>3. TypeOK /\ ChargesCovered => NeverOvercharged
  BY DueInNat, CostsInNat DEF ChargesCovered, NeverOvercharged
<1>4. QED
  BY <1>1, <1>2, <1>3, MediaTypeCorrect, PTL DEF Spec

-----------------------------------------------------------------------------
(* One thread for what renders *)

\* Two handlers check in one database call and write in another
\* (routes_turns.py:222-244, media.py:377-409).  A step is in time when the one that
\* writes finds what it read: the item to be tried again still failed and in its
\* message, the message's media list as it was.  Nothing in the code sees to it;
\* these are the only two places where what happens in between matters.
AsItWasRead ==
  /\ \A r \in reqs, i \in Items :
       Mark(r, i) => items[i].place = "message" /\ items[i].status = "error"
  /\ \A r \in reqs : WriteMedia(r) =>
       \A i \in Items : r.snap[i].place = "message" \/ items[i].place = "message"
                         => r.snap[i] = items[i]

\* The threads that may still give their item an outcome.
Live == {w \in workers : w.at \in {"work", "wait", "poll"}}

Making(i) == turn.item = i /\ turn.at = "making"

\* What a thread makes was put up before, and has no outcome yet where it is stored.
InTheMaking ==
  /\ \A w \in workers : items[w.item].place # "none"
  /\ \A w \in Live : Stored(w.item) => items[w.item].status = "pending"
  /\ turn.at = "making" =>
       /\ items[turn.item].place # "none"
       /\ Stored(turn.item) => items[turn.item].status = "pending" /\ ~ items[turn.item].job

\* What renders has a thread that will end it, but for the card a reply left when it
\* broke on another error, which has no job (turn.py:524-533).
Attended ==
  \A i \in Items : Rendering(i) =>
    \/ Making(i)
    \/ \E w \in Live : w.item = i
    \/ OtherErrors /\ ~ items[i].job

\* What moved to the library while it rendered had its job.
LibraryHasJob == \A i \in Items : items[i].place = "library" /\ items[i].status = "pending" => items[i].job

\* The threads and the items they are about.
Threads == OneWorker /\ Attended /\ InTheMaking /\ LibraryHasJob

\* The inductive invariant.
MediaInv == TypeOK /\ Threads

\* What renders, in terms of the threads that may end it.
LEMMA ThreadsAre ==
  /\ OneWorker <=>
       \A i \in Items :
         /\ \A v, w \in Live : v.item = i /\ w.item = i => v = w
         /\ Making(i) => \A w \in workers : w.item # i
  /\ OneWorker' <=>
       \A i \in Items :
         /\ \A v, w \in Live' : v.item = i /\ w.item = i => v = w
         /\ Making(i)' => \A w \in workers' : w.item # i
BY DEF OneWorker, Live, Making

\* What one item becomes leaves the others alone.
LEMMA AppendedItem ==
  ASSUME TypeOK, NEW i \in Items, NEW kind \in Kinds, NEW status \in Statuses,
         items' = Appended(i, kind, status)
  PROVE  /\ items'[i].place = IF reply = "deleted" THEN "gone" ELSE "message"
         /\ items'[i].status = status /\ items'[i].job = FALSE
         /\ \A j \in Items : j # i => items'[j] = items[j]
BY DEF TypeOK, Appended

LEMMA UpdatedItem ==
  ASSUME TypeOK, NEW i \in Items, NEW status \in Statuses, NEW job \in BOOLEAN,
         items' = Updated(i, status, job)
  PROVE  /\ \A j \in Items : items'[j].place = items[j].place
         /\ Stored(i) => items'[i].status = status /\ items'[i].job = job
         /\ ~ Stored(i) => items' = items
         /\ \A j \in Items : j # i => items'[j] = items[j]
BY DEF TypeOK, Updated, Item

-----------------------------------------------------------------------------

\* One more item is put up, by a thread that has no thread's item in mind.
LEMMA OneMoreItem ==
  ASSUME TypeOK, Threads, NEW i \in Items, NEW kind \in Kinds, items[i].place = "none",
         items' = Appended(i, kind, "done"), turn' = turn, workers' = workers
  PROVE  Threads'
<1>1. /\ items'[i].place \in {"message", "gone"} /\ items'[i].status = "done"
      /\ \A j \in Items : j # i => items'[j] = items[j]
  BY AppendedItem DEF Statuses
<1>2. OneWorker' /\ Attended'
  <2>1. OneWorker'
    BY <1>1, ThreadsAre DEF Threads, Rendering, Stored, Making, Live
  <2>2. Attended'
    BY <1>1 DEF Threads, Attended, Rendering, Stored, Making, Live
  <2>3. QED
    BY <2>1, <2>2
<1>3. InTheMaking'
  BY <1>1 DEF Threads, InTheMaking, Live, Stored, TypeOK, Worker
<1>4. LibraryHasJob'
  BY <1>1 DEF Threads, LibraryHasJob
<1>5. QED
  BY <1>2, <1>3, <1>4 DEF Threads

\* A thread goes on with its item: another takes its place, and the item stays as
\* it is but for its job.
LEMMA GoesOn ==
  ASSUME TypeOK, Threads, NEW w \in Live, NEW x, x.item = w.item, x.at \in {"work", "wait", "poll"},
         workers' = (workers \ {w}) \cup {x}, turn' = turn,
         \/ items' = items
         \/ items' = Updated(w.item, items[w.item].status, TRUE)
  PROVE  Threads'
<1>w. w \in workers /\ w.item \in Items /\ w.at \in {"work", "wait", "poll"}
  BY DEF Live, TypeOK, Worker
<1>1. \A j \in Items : /\ items'[j].place = items[j].place
                       /\ Stored(j) => items'[j].status = items[j].status
                       /\ items'[j].job = items[j].job \/ (Stored(j) /\ items'[j].job)
  <2>1. CASE items' = items
    BY <2>1
  <2>2. CASE items' = Updated(w.item, items[w.item].status, TRUE)
    BY <1>w, <2>2, UpdatedItem, ItemType, ZenonT(40)
  <2>3. QED
    BY <2>1, <2>2
<1>a. \A j \in Items : j # w.item => items'[j] = items[j]
  BY <1>w, UpdatedItem, ItemType
<1>2. Live' = (Live \ {w}) \cup {x}
  BY <1>w DEF Live
<1>3. \A j \in Items : Making(j)' <=> Making(j)
  BY DEF Making
<1>4. \A j \in Items : Rendering(j)' <=> Rendering(j)
  BY <1>1 DEF Rendering, Stored
<1>5. OneWorker' /\ Attended'
  <2>1. OneWorker'
    BY <1>w, <1>2, <1>3, <1>4, ThreadsAre DEF Threads
  <2>2. Attended'
    <3>1. \E v \in Live' : v.item = w.item
      BY <1>2
    <3>2. \A j \in Items : j # w.item => \A v \in Live : v.item = j => v \in Live'
      BY <1>2
    <3>3. QED
      BY <1>w, <1>a, <1>3, <1>4, <3>1, <3>2 DEF Threads, Attended
  <2>3. QED
    BY <2>1, <2>2
<1>6. InTheMaking'
  <2>1. \A v \in workers' : v.item \in Items /\ items[v.item].place # "none"
    BY <1>w DEF Threads, InTheMaking, TypeOK, Worker
  <2>2. \A v \in Live' : v.item \in Items /\ (Stored(v.item) => items[v.item].status = "pending")
    BY <1>w, <1>2 DEF Threads, InTheMaking, Live, TypeOK, Worker
  <2>3. turn.at = "making" => turn.item \in Items /\ turn.item # w.item
    BY <1>w, ThreadsAre DEF Threads, Making, TypeOK
  <2>4. QED
    BY <1>1, <1>a, <2>1, <2>2, <2>3 DEF Threads, InTheMaking, Stored
<1>7. LibraryHasJob'
  BY <1>1 DEF Threads, LibraryHasJob, Stored
<1>8. QED
  BY <1>5, <1>6, <1>7 DEF Threads

\* A thread has an outcome for its item, if it is still somewhere, and is no longer
\* one that may give it any.
LEMMA HasOutcome ==
  ASSUME TypeOK, Threads, NEW w \in Live, NEW status \in {"done", "error"},
         items' = Updated(w.item, status, items[w.item].job), turn' = turn,
         Live' = Live \ {w}, \A v \in workers' : \E u \in workers : v.item = u.item
  PROVE  Threads'
<1>w. w \in workers /\ w.item \in Items
  BY DEF Live, TypeOK, Worker
<1>1. /\ \A j \in Items : items'[j].place = items[j].place
      /\ Stored(w.item) => items'[w.item].status = status
      /\ \A j \in Items : j # w.item => items'[j] = items[j]
  BY <1>w, UpdatedItem, ItemType DEF Statuses
<1>2. \A j \in Items : Rendering(j)' => Rendering(j) /\ j # w.item
  BY <1>1 DEF Rendering, Stored
<1>3. OneWorker' /\ Attended'
  <2>1. OneWorker'
    BY <1>w, <1>2, ThreadsAre DEF Threads, Making
  <2>2. Attended'
    BY <1>w, <1>1, <1>2 DEF Threads, Attended, Making
  <2>3. QED
    BY <2>1, <2>2
<1>4. InTheMaking'
  <2>1. \A v \in Live' : v \in Live /\ v.item # w.item /\ v.item \in Items
    BY <1>w, ThreadsAre DEF Threads, Live, TypeOK, Worker
  <2>2. \A v \in workers' : v.item \in Items /\ items'[v.item].place # "none"
    BY <1>1 DEF Threads, InTheMaking, TypeOK, Worker
  <2>3. turn.at = "making" => turn.item \in Items /\ turn.item # w.item
    BY <1>w, ThreadsAre DEF Threads, Making, TypeOK
  <2>4. QED
    BY <1>1, <2>1, <2>2, <2>3 DEF Threads, InTheMaking, Stored
<1>5. LibraryHasJob'
  BY <1>1, <1>w DEF Threads, LibraryHasJob, Stored
<1>6. QED
  BY <1>3, <1>4, <1>5 DEF Threads

\* A thread that only has its charge to add, or no item any more, ends or goes on.
LEMMA NoItemLeft ==
  ASSUME TypeOK, Threads, items' = items, turn' = turn,
         NEW w \in workers, w \notin Live \/ ~ Stored(w.item),
         Live' = Live \ {w}, \A v \in workers' : \E u \in workers : v.item = u.item
  PROVE  Threads'
<1>1. \A j \in Items : Rendering(j)' => Rendering(j) /\ (w \in Live => j # w.item)
  BY DEF Rendering, Stored
<1>2. OneWorker' /\ Attended'
  <2>1. OneWorker'
    BY <1>1, ThreadsAre DEF Threads, Making
  <2>2. Attended'
    BY <1>1 DEF Threads, Attended, Rendering, Stored, Making, Live
  <2>3. QED
    BY <2>1, <2>2
<1>3. InTheMaking'
  BY DEF Threads, InTheMaking, Stored
<1>4. LibraryHasJob'
  BY DEF Threads, LibraryHasJob
<1>5. QED
  BY <1>2, <1>3, <1>4 DEF Threads

\* Items leave the message, for the library when they have a file or a job.
TakesAway ==
  \A i \in Items :
    \/ items'[i] = items[i]
    \/ items'[i].place = "gone"
    \/ /\ items[i].place = "message" /\ items'[i].place = "library"
       /\ items'[i].status = items[i].status
       /\ items'[i].job = items[i].job
       /\ items[i].job \/ items[i].status = "done"

\* Taking items away leaves the threads in order: a thread whose item is gone finds so.
LEMMA Taken ==
  ASSUME TypeOK, Threads, TakesAway, turn' = turn, workers' = workers
  PROVE  Threads'
<1>1. \A j \in Items : Rendering(j)' => Rendering(j)
  BY DEF TakesAway, Rendering, Stored
<1>2. OneWorker' /\ Attended'
  <2>1. OneWorker'
    BY <1>1, ThreadsAre DEF Threads, Making, Live
  <2>2. Attended'
    <3>1. \A j \in Items : Rendering(j)' => items'[j].job = items[j].job
      BY DEF TakesAway, Rendering, Stored
    <3>2. QED
      BY <1>1, <3>1 DEF Threads, Attended, Making, Live
  <2>3. QED
    BY <2>1, <2>2
<1>3. InTheMaking'
  BY DEF Threads, InTheMaking, TakesAway, Live, Stored, TypeOK, Worker
<1>4. LibraryHasJob'
  BY DEF Threads, LibraryHasJob, TakesAway
<1>5. QED
  BY <1>2, <1>3, <1>4 DEF Threads

-----------------------------------------------------------------------------

\* The reply thread keeps the threads and the items in order.
LEMMA TurnKeepsThreads ==
  ASSUME TypeOK, TypeOK', MediaInv, TurnStep
  PROVE  Threads'
<1>t. Threads
  BY DEF MediaInv
<1>1. ASSUME NEW i \in Items, NEW kind \in Kinds, TurnBegins(i, kind) PROVE Threads'
  <2>1. /\ items[i].place = "none" /\ items'[i].place \in {"message", "gone"}
        /\ items'[i].status = "pending" /\ ~ items'[i].job
        /\ \A j \in Items : j # i => items'[j] = items[j]
    BY <1>1, AppendedItem DEF TurnBegins, Statuses
  <2>2. turn'.item = i /\ turn'.at = "making" /\ turn.at = "ready" /\ workers' = workers
    BY <1>1 DEF TurnBegins, TypeOK, Turn
  <2>3. \A w \in workers : w.item \in Items /\ w.item # i
    BY <1>t, <2>1 DEF Threads, InTheMaking, TypeOK, Worker
  <2>4. OneWorker' /\ Attended'
    <3>1. OneWorker'
      BY <1>t, <2>1, <2>2, <2>3, ThreadsAre DEF Threads, Rendering, Stored, Making, Live
    <3>2. Attended'
      BY <1>t, <2>1, <2>2, <2>3 DEF Threads, Attended, Rendering, Stored, Making, Live
    <3>3. QED
      BY <3>1, <3>2
  <2>5. InTheMaking'
    BY <1>t, <2>1, <2>2, <2>3 DEF Threads, InTheMaking, Live, Stored
  <2>6. LibraryHasJob'
    BY <1>t, <2>1 DEF Threads, LibraryHasJob
  <2>7. QED
    BY <2>4, <2>5, <2>6 DEF Threads
<1>2. ASSUME NEW i \in Items, TurnAddsImage(i) PROVE Threads'
  BY <1>t, <1>2, OneMoreItem DEF TurnAddsImage, Kinds
<1>3. CASE TurnMakesImage \/ TurnFails \/ TurnSubmitsVideo
  <2> DEFINE i == turn.item
  <2>1. turn.at = "making" /\ i \in Items
    BY <1>3 DEF TurnMakesImage, TurnFails, TurnSubmitsVideo, TypeOK
  <2>2. /\ items[i].place # "none" /\ (Stored(i) => items[i].status = "pending")
        /\ \A w \in workers : w.item \in Items /\ w.item # i
    BY <1>t, <2>1, ThreadsAre DEF Threads, InTheMaking, Making, TypeOK, Worker
  <2>3. turn'.at \in {"made", "ready"}
    BY <1>3 DEF TurnMakesImage, TurnFails, TurnSubmitsVideo, TypeOK, Turn
  <2>4. /\ \A j \in Items : items'[j].place = items[j].place
        /\ \A j \in Items : j # i => items'[j] = items[j]
        /\ Stored(i) /\ ~ TurnSubmitsVideo => items'[i].status # "pending"
        /\ TurnSubmitsVideo => (Stored(i) => items'[i].status = "pending" /\ items'[i].job)
    <3>1. CASE TurnMakesImage
      BY <3>1, <2>1, UpdatedItem DEF TurnMakesImage, TurnSubmitsVideo, Statuses
    <3>2. CASE TurnFails
      <4>1. /\ \A j \in Items : items'[j].place = items[j].place
            /\ \A j \in Items : j # i => items'[j] = items[j]
            /\ Stored(i) => items'[i].status # "pending"
        BY <3>2, <2>1, UpdatedItem, ItemType DEF TurnFails, Statuses
      <4>2. CASE TurnSubmitsVideo
        BY <3>2, <4>2, <2>1, <2>2, <4>1, UpdatedItem, ItemType DEF TurnSubmitsVideo, Statuses
      <4>3. QED
        BY <4>1, <4>2
    <3>3. CASE TurnSubmitsVideo
      BY <3>3, <2>1, <2>2, UpdatedItem, ItemType DEF TurnSubmitsVideo, Statuses
    <3>4. QED
      BY <1>3, <3>1, <3>2, <3>3
  <2> HIDE DEF i
  <2>5. ASSUME TurnSubmitsVideo PROVE Threads'
    <3> DEFINE x == NewWorker(i, 0, "poll", "wait")
    <3>1. x.item = i /\ x.at = "wait" /\ workers' = workers \cup {x}
      BY <2>5 DEF TurnSubmitsVideo, NewWorker, i
    <3> HIDE DEF x
    <3>2. Live' = Live \cup {x} /\ \A w \in Live : w.item # i /\ w.item \in Items
      BY <2>2, <3>1 DEF Live
    <3>3. \A j \in Items : ~ Making(j)' /\ (Making(j) => j = i) /\ (Rendering(j)' <=> Rendering(j))
      BY <2>2, <2>3, <2>4, <2>5 DEF Making, Rendering, Stored, i
    <3>4. OneWorker' /\ Attended'
      <4>1. OneWorker'
        BY <1>t, <2>1, <3>1, <3>2, <3>3, ThreadsAre DEF Threads
      <4>2. Attended'
        <5>1. \E v \in Live' : v.item = i
          BY <3>1, <3>2
        <5>2. \A j \in Items : j # i => items'[j] = items[j] /\ ~ Making(j)
          BY <2>4, <3>3
        <5>3. QED
          BY <1>t, <2>1, <3>2, <3>3, <5>1, <5>2 DEF Attended, Threads
      <4>3. QED
        BY <4>1, <4>2
    <3>5. InTheMaking'
      BY <1>t, <2>1, <2>2, <2>3, <2>4, <2>5, <3>1, <3>2 DEF Threads, InTheMaking, Stored
    <3>6. LibraryHasJob'
      BY <1>t, <2>1, <2>4, <2>5 DEF Threads, LibraryHasJob, Stored
    <3>7. QED
      BY <3>4, <3>5, <3>6 DEF Threads
  <2>6. ASSUME ~ TurnSubmitsVideo PROVE Threads'
    <3>1. workers' = workers
      BY <1>3, <2>6 DEF TurnMakesImage, TurnFails
    <3>2. \A j \in Items : ~ Making(j)' /\ (Making(j) => j = i) /\ (Rendering(j)' => Rendering(j) /\ j # i)
      BY <2>2, <2>3, <2>4, <2>6 DEF Making, Rendering, Stored, i
    <3>3. OneWorker' /\ Attended'
      <4>1. OneWorker'
        BY <1>t, <2>1, <3>1, <3>2, ThreadsAre DEF Threads, Live
      <4>2. Attended'
        BY <1>t, <2>1, <2>4, <3>1, <3>2 DEF Threads, Attended, Live
      <4>3. QED
        BY <4>1, <4>2
    <3>4. InTheMaking'
      BY <1>t, <2>1, <2>2, <2>3, <2>4, <3>1 DEF Threads, InTheMaking, Stored, Live
    <3>5. LibraryHasJob'
      BY <1>t, <2>1, <2>4, <2>6 DEF Threads, LibraryHasJob, Stored
    <3>6. QED
      BY <3>3, <3>4, <3>5 DEF Threads
  <2>7. QED
    BY <2>5, <2>6
<1>4. CASE TurnHasMade \/ \E status \in {"done", "error"} : TurnEnds(status)
  <2>1. /\ items' = items /\ workers' = workers
        /\ turn.at # "making" /\ turn'.at # "making"
    BY <1>4 DEF TurnHasMade, TurnEnds, TypeOK, Turn
  <2>2. OneWorker' /\ Attended'
    <3>1. OneWorker'
      BY <1>t, <2>1, ThreadsAre DEF Threads, Making, Rendering, Stored, Live
    <3>2. Attended'
      BY <1>t, <2>1 DEF Threads, Attended, Rendering, Stored, Making, Live
    <3>3. QED
      BY <3>1, <3>2
  <2>3. InTheMaking' /\ LibraryHasJob'
    BY <1>t, <2>1 DEF Threads, InTheMaking, LibraryHasJob, Live, Stored
  <2>4. QED
    BY <2>2, <2>3 DEF Threads
<1>5. CASE TurnBreaks
  <2>1. /\ items' = items /\ workers' = workers /\ OtherErrors /\ turn.at = "making"
        /\ turn.item \in Items /\ turn'.at # "making"
    BY <1>5 DEF TurnBreaks, TypeOK, Turn
  <2>2. OneWorker'
    BY <1>t, <2>1, ThreadsAre DEF Threads, Making, Live
  <2>3. Attended'
    BY <1>t, <2>1 DEF Threads, Attended, InTheMaking, Making, Rendering, Stored, Live
  <2>4. InTheMaking' /\ LibraryHasJob'
    BY <1>t, <2>1 DEF Threads, InTheMaking, LibraryHasJob, Live, Stored
  <2>5. QED
    BY <2>2, <2>3, <2>4 DEF Threads
<1>6. QED
  BY <1>1, <1>2, <1>3, <1>4, <1>5 DEF TurnStep

\* So do the workers and the pollers.
LEMMA WorkersKeepThreads ==
  ASSUME TypeOK, TypeOK', MediaInv, NEW w \in workers, WorkerStep(w)
  PROVE  Threads'
<1>t. Threads /\ w \in Worker /\ w.item \in Items
  BY DEF MediaInv, TypeOK, Worker
<1>1. CASE RegenMakesImage(w) \/ RegenFails(w) \/ PollerTimesOut(w) \/ PollFails(w) \/ PollFinishes(w)
  <2>1. w \in Live /\ turn' = turn
    BY <1>1 DEF RegenMakesImage, RegenFails, PollerTimesOut, PollFails, PollFinishes, Live
  <2>2. PICK status \in {"done", "error"} : items' = Updated(w.item, status, items[w.item].job)
    BY <1>1 DEF RegenMakesImage, RegenFails, PollerTimesOut, PollFails, PollFinishes
  <2>3. WorkerEnds(w) \/ WorkerGoes(w, "readcost")
    BY <1>1 DEF RegenMakesImage, RegenFails, PollerTimesOut, PollFails, PollFinishes
  <2>4. Live' = Live \ {w} /\ \A v \in workers' : \E u \in workers : v.item = u.item
    <3>1. CASE WorkerEnds(w)
      BY <3>1 DEF WorkerEnds, Live
    <3>2. CASE WorkerGoes(w, "readcost")
      <4>1. PICK x : x = [w EXCEPT !.at = "readcost"]
        OBVIOUS
      <4>2. x.at = "readcost" /\ x.item = w.item
        BY <1>t, <4>1 DEF Worker
      <4>3. workers' = (workers \ {w}) \cup {x}
        BY <3>2, <4>1 DEF WorkerGoes
      <4>4. QED
        BY <4>2, <4>3 DEF Live
    <3>3. QED
      BY <2>3, <3>1, <3>2
  <2>5. QED
    BY <1>t, <2>1, <2>2, <2>4, HasOutcome
<1>2. ASSUME NEW i \in Items, RegenAddsImage(w, i) PROVE Threads'
  BY <1>t, <1>2, OneMoreItem DEF RegenAddsImage, Kinds
<1>3. CASE RegenSubmitsVideo(w)
  <2>1. PICK x : x = NewWorker(w.item, w.try, "poll", "wait")
    OBVIOUS
  <2>2. x.item = w.item /\ x.at = "wait"
    BY <2>1 DEF NewWorker
  <2>3. /\ w \in Live /\ turn' = turn
        /\ workers' = (workers \ {w}) \cup {x}
        /\ items' = Updated(w.item, items[w.item].status, TRUE)
    BY <1>3, <2>1 DEF RegenSubmitsVideo, Live
  <2>4. QED
    BY <1>t, <2>2, <2>3, GoesOn
<1>4. CASE PollerWakes(w) \/ PollAnswers(w) \/ PollErrs(w)
  <2>1. items' = items /\ turn' = turn /\ w \in Live
    BY <1>4 DEF PollerWakes, PollAnswers, PollErrs, Live
  <2>3. CASE PollerWakes(w) /\ ~ Stored(w.item)
    <3>1. workers' = workers \ {w}
      BY <2>3 DEF PollerWakes, WorkerEnds
    <3>2. Live' = Live \ {w} /\ \A v \in workers' : \E u \in workers : v.item = u.item
      BY <3>1 DEF Live
    <3>3. QED
      BY <1>t, <2>1, <2>3, <3>2, NoItemLeft
  <2>4. CASE ~ (PollerWakes(w) /\ ~ Stored(w.item))
    <3>1. PICK x : x.item = w.item /\ x.at \in {"wait", "poll"} /\ workers' = (workers \ {w}) \cup {x}
      <4>1. CASE PollerWakes(w)
        BY <1>t, <2>4, <4>1 DEF PollerWakes, Worker
      <4>2. CASE PollAnswers(w)
        BY <1>t, <4>2 DEF PollAnswers, Worker
      <4>3. CASE PollErrs(w)
        BY <1>t, <4>3 DEF PollErrs, Worker
      <4>4. QED
        BY <1>4, <4>1, <4>2, <4>3
    <3>2. QED
      BY <1>t, <2>1, <3>1, GoesOn
  <2>5. QED
    BY <2>3, <2>4
<1>5. CASE ReadCost(w) \/ AddCost(w)
  <2>1. items' = items /\ turn' = turn /\ w \notin Live
    BY <1>5 DEF ReadCost, AddCost, Live
  <2>2. \/ workers' = workers \ {w}
        \/ \E x : x.item = w.item /\ x.at = "addcost" /\ workers' = (workers \ {w}) \cup {x}
    BY <1>t, <1>5 DEF ReadCost, AddCost, WorkerEnds, Worker
  <2>3. Live' = Live \ {w} /\ \A v \in workers' : \E u \in workers : v.item = u.item
    BY <2>1, <2>2 DEF Live
  <2>4. QED
    BY <1>t, <2>1, <2>3, NoItemLeft
<1>6. QED
  BY <1>1, <1>2, <1>3, <1>4, <1>5 DEF WorkerStep

\* A deletion that finds the list it read takes items away, and does nothing else.
LEMMA RequestTakesAway ==
  ASSUME TypeOK, AsItWasRead, NEW r \in reqs, GetMessage(r) \/ WriteMedia(r)
  PROVE  TakesAway
<1>1. CASE GetMessage(r)
  BY <1>1 DEF GetMessage, TakesAway
<1>2. CASE WriteMedia(r)
  <2> DEFINE had == {i \in Items : r.snap[i].place = "message"}
             wrote == reply # "deleted" /\ had \cap r.drop # {}
  <2>1. items' = [i \in Items |->
          IF wrote /\ i \in had \ r.drop THEN r.snap[i]
          ELSE IF \/ wrote /\ items[i].place = "message"
                  \/ i \in r.drop /\ items[i].place = "library"
               THEN [items[i] EXCEPT !.place = "gone"]
               ELSE items[i]]
    BY <1>2 DEF WriteMedia
  <2>2. \A i \in had : r.snap[i] = items[i]
    BY <1>2 DEF AsItWasRead
  <2>3. \A i \in Items : [items[i] EXCEPT !.place = "gone"].place = "gone"
    BY DEF TypeOK, Item
  <2> HIDE DEF wrote
  <2>4. QED
    BY <2>1, <2>2, <2>3 DEF TakesAway
<1>3. QED
  BY <1>1, <1>2

\* So do the requests that find what they read.
LEMMA RequestsKeepThreads ==
  ASSUME TypeOK, TypeOK', MediaInv, AsItWasRead, NEW r \in reqs, RequestStep(r)
  PROVE  Threads'
<1>t. Threads
  BY DEF MediaInv
<1>1. ASSUME NEW i \in Items, Mark(r, i) PROVE Threads'
  <2>1. items[i].place = "message" /\ items[i].status = "error"
    BY <1>1 DEF AsItWasRead
  <2>2. PICK x : x = NewWorker(i, r.try, "regen", "work")
    OBVIOUS
  <2>3. x.item = i /\ x.at = "work" /\ workers' = workers \cup {x} /\ turn' = turn
    BY <1>1, <2>1, <2>2 DEF Mark, NewWorker
  <2>4. /\ items'[i].place = "message" /\ items'[i].status = "pending"
        /\ \A j \in Items : j # i => items'[j] = items[j]
    BY <1>1, <2>1, UpdatedItem DEF Mark, Statuses, Stored
  <2>5. /\ ~ Making(i) /\ (turn.at = "making" => turn.item \in Items)
        /\ \A w \in Live : w.item # i /\ w.item \in Items
        /\ \A w \in workers : w.item \in Items
    BY <1>t, <2>1 DEF Threads, InTheMaking, Making, Stored, Live, TypeOK, Worker
  <2>6. Live' = Live \cup {x}
    BY <2>3 DEF Live
  <2>7. OneWorker' /\ Attended'
    <3>1. OneWorker'
      BY <1>t, <2>1, <2>3, <2>4, <2>5, <2>6, ThreadsAre DEF Threads, Making, Rendering, Stored
    <3>2. Attended'
      BY <1>t, <2>1, <2>3, <2>4, <2>5, <2>6 DEF Threads, Attended, Rendering, Stored, Making, Live
    <3>3. QED
      BY <3>1, <3>2
  <2>8. InTheMaking'
    BY <1>t, <2>3, <2>4, <2>5, <2>6 DEF Threads, InTheMaking, Making, Stored
  <2>9. LibraryHasJob'
    BY <1>t, <2>3, <2>4 DEF Threads, LibraryHasJob
  <2>10. QED
    BY <2>7, <2>8, <2>9 DEF Threads
<1>2. CASE GetMessage(r) \/ WriteMedia(r)
  <2>1. turn' = turn /\ workers' = workers
    BY <1>2 DEF GetMessage, WriteMedia
  <2>2. TakesAway
    BY <1>2, RequestTakesAway
  <2>3. QED
    BY <1>t, <2>1, <2>2, Taken
<1>3. QED
  BY <1>1, <1>2 DEF RequestStep

\* What asking does: it takes items away or only reads them.
LEMMA AskKeepsThreads ==
  ASSUME TypeOK, TypeOK', MediaInv, NEW c \in Clients,
         \/ \E i \in Items : AskRegenerate(c, i) \/ AskDeleteMedia(c, i) \/ DeleteDetached(c, i)
         \/ \E S \in SUBSET Items : AskClearBlocked(c, S)
         \/ DeleteTurn(c)
         \/ DeleteChat(c)
  PROVE  Threads' /\ TakesAway
<1>t. Threads
  BY DEF MediaInv
<1>1. turn' = turn /\ workers' = workers
  BY DEF AskRegenerate, AskDeleteMedia, DeleteDetached, AskClearBlocked, DeleteTurn, DeleteChat
<1>2. TakesAway
  <2>1. ASSUME NEW i \in Items, AskRegenerate(c, i) \/ AskDeleteMedia(c, i) \/ DeleteDetached(c, i)
        PROVE  TakesAway
    BY <2>1 DEF AskRegenerate, AskDeleteMedia, DeleteDetached, TakesAway, TypeOK, Item
  <2>2. ASSUME NEW S \in SUBSET Items, AskClearBlocked(c, S) PROVE TakesAway
    BY <2>2 DEF AskClearBlocked, TakesAway, TypeOK, Item
  <2>3. CASE DeleteTurn(c)
    BY <2>3 DEF DeleteTurn, TakesAway, TypeOK, Item
  <2>4. CASE DeleteChat(c)
    BY <2>4 DEF DeleteChat, TakesAway, TypeOK, Item
  <2>5. QED
    BY <2>1, <2>2, <2>3, <2>4
<1>3. Threads'
  BY <1>t, <1>1, <1>2, Taken
<1>4. QED
  BY <1>2, <1>3

\* A restart polls on whatever renders and has a job, and fails the rest, which is
\* all in the message.
LEMMA RestartKeepsThreads ==
  ASSUME TypeOK, TypeOK', MediaInv, Restart
  PROVE  Threads'
<1>t. Threads
  BY DEF MediaInv
<1> DEFINE Resumed == {j \in Items : Rendering(j) /\ items[j].job}
<1>1. turn'.at = "over"
  BY DEF Restart, TypeOK, Turn
<1>2. /\ \A v \in workers' : v.item \in Resumed /\ v.at = "wait"
      /\ \A j \in Resumed : \E v \in workers' : v.item = j
      /\ \A v, w \in workers' : v.item = w.item => v = w
  <2> DEFINE Resumes(j) == NewWorker(j, 0, "poll", "wait")
  <2>1. workers' = {Resumes(j) : j \in Resumed}
    BY DEF Restart
  <2>2. \A j : Resumes(j).item = j /\ Resumes(j).at = "wait"
    BY DEF NewWorker
  <2> HIDE DEF Resumes, Resumed
  <2>3. QED
    BY <2>1, <2>2
<1>3. Live' = workers'
  BY <1>2 DEF Live
<1>4. \A j \in Items : /\ items'[j].place = items[j].place
                       /\ items'[j].job = items[j].job
                       /\ items'[j].status = "pending" => items[j].status = "pending"
                       /\ j \in Resumed => items'[j] = items[j]
                       /\ Rendering(j)' => j \in Resumed
  <2> SUFFICES ASSUME NEW j \in Items
               PROVE  /\ items'[j].place = items[j].place
                      /\ items'[j].job = items[j].job
                      /\ items'[j].status = "pending" => items[j].status = "pending"
                      /\ j \in Resumed => items'[j] = items[j]
                      /\ Rendering(j)' => j \in Resumed
    OBVIOUS
  <2>1. CASE Rendering(j) /\ items[j].place = "message" /\ ~ items[j].job
    <3>1. items'[j] = [items[j] EXCEPT !.status = "error"]
      BY <2>1 DEF Restart
    <3>2. QED
      BY <2>1, <3>1 DEF TypeOK, Item, Rendering
  <2>2. CASE ~ (Rendering(j) /\ items[j].place = "message" /\ ~ items[j].job)
    <3>1. items'[j] = items[j]
      BY <2>2 DEF Restart
    <3>2. QED
      BY <1>t, <2>2, <3>1 DEF Rendering, Stored, Threads, LibraryHasJob
  <2>3. QED
    BY <2>1, <2>2
<1>5. OneWorker' /\ Attended'
  <2>1. OneWorker'
    BY <1>1, <1>2, <1>3, <1>4, ThreadsAre DEF Making
  <2>2. Attended'
    BY <1>1, <1>2, <1>3, <1>4 DEF Attended, Rendering, Stored, Making, Live
  <2>3. QED
    BY <2>1, <2>2
<1>6. InTheMaking'
  BY <1>1, <1>2, <1>3, <1>4 DEF InTheMaking, Rendering, Stored
<1>7. LibraryHasJob'
  BY <1>t, <1>4 DEF Threads, LibraryHasJob
<1>8. QED
  BY <1>5, <1>6, <1>7 DEF Threads

\* The invariant from which the next two theorems follow.
THEOREM MediaInvariant == Spec /\ [][AsItWasRead]_vars => []MediaInv
<1>1. Init => MediaInv
  <2> SUFFICES ASSUME Init PROVE MediaInv
    OBVIOUS
  <2>1. TypeOK
    BY BoundsInNat DEF Init, TypeOK, Item, Kinds, Turn
  <2>2. Threads
    BY DEF Init, Threads, OneWorker, Attended, InTheMaking, LibraryHasJob, Rendering, Stored, Live
  <2>3. QED
    BY <2>1, <2>2 DEF MediaInv
<1>2. MediaInv /\ TypeOK' /\ [Next]_vars /\ [AsItWasRead]_vars => MediaInv'
  <2> SUFFICES ASSUME MediaInv, TypeOK', [Next]_vars, [AsItWasRead]_vars PROVE Threads'
    BY DEF MediaInv
  <2>t. TypeOK
    BY DEF MediaInv
  <2>1. CASE TurnStep
    BY <2>t, <2>1, TurnKeepsThreads
  <2>2. ASSUME NEW w \in workers, WorkerStep(w) PROVE Threads'
    BY <2>t, <2>2, WorkersKeepThreads
  <2>3. ASSUME AsItWasRead, NEW r \in reqs, RequestStep(r) PROVE Threads'
    BY <2>t, <2>3, RequestsKeepThreads
  <2>4. ASSUME NEW c \in Clients,
               \/ \E i \in Items : AskRegenerate(c, i) \/ AskDeleteMedia(c, i) \/ DeleteDetached(c, i)
               \/ \E S \in SUBSET Items : AskClearBlocked(c, S)
               \/ DeleteTurn(c)
               \/ DeleteChat(c)
        PROVE  Threads'
    BY <2>t, <2>4, AskKeepsThreads
  <2>5. CASE Restart
    BY <2>t, <2>5, RestartKeepsThreads
  <2>6. CASE UNCHANGED vars
    <3>1. TakesAway /\ turn' = turn /\ workers' = workers
      BY <2>6 DEF vars, TakesAway
    <3>2. QED
      BY <2>t, <3>1, Taken DEF MediaInv
  <2>7. QED
    BY <2>1, <2>2, <2>3, <2>4, <2>5, <2>6 DEF Next
<1>3. QED
  BY <1>1, <1>2, MediaTypeCorrect, PTL DEF Spec

\* A rendering video's poller.
VideoHasPoller ==
  \A i \in Items : Rendering(i) /\ items[i].job =>
    Making(i) \/ \E w \in workers : w.item = i /\ w.at \in {"work", "wait", "poll"}

\* For any number of tabs, items, retries, polls and restarts, whatever is deleted and
\* whatever fails: as long as the two handlers that check and then write find what
\* they read, no item has two threads and every video that was submitted has one; and
\* every card that renders has one unless an error passed the reply by, which is the
\* only other way to lose it (polling.py:25-91, routes_turns.py:222-244).
THEOREM EachHasOneThread ==
  Spec /\ [][AsItWasRead]_vars =>
    [](OneWorker /\ VideoHasPoller /\ (OtherErrors \/ OneThreadEach))
<1>1. MediaInv => OneWorker /\ VideoHasPoller /\ (OtherErrors \/ OneThreadEach)
  BY DEF MediaInv, Threads, Attended, VideoHasPoller, OneThreadEach, RenderingHasWorker, Live, Making
<1>2. QED
  BY <1>1, MediaInvariant, PTL

-----------------------------------------------------------------------------
(* What the user sees of an item is a generated media's life *)

\* What is shown of an item, by where it is.
LEMMA ShownIs ==
  ASSUME TypeOK, NEW i \in Items
  PROVE  /\ items[i].place \in {"none", "gone", "message", "library"}
         /\ Stored(i) => Shown[i] = items[i].status
         /\ items[i].place = "none" => Shown[i] = "none"
         /\ items[i].place = "gone" => Shown[i] = "removed"
BY DEF TypeOK, Item, Shown, Stored

LEMMA ShownNext ==
  ASSUME TypeOK', NEW i \in Items
  PROVE  /\ items'[i].place \in {"none", "gone", "message", "library"}
         /\ Stored(i)' => Shown'[i] = items'[i].status
         /\ items'[i].place = "none" => Shown'[i] = "none"
         /\ items'[i].place = "gone" => Shown'[i] = "removed"
BY DEF TypeOK, Item, Shown, Stored

LEMMA ShownFunctions ==
  /\ Shown = [i \in Items |-> Shown[i]]
  /\ Shown' = [i \in Items |-> Shown'[i]]
<1> DEFINE S(i) == CASE Stored(i) -> items[i].status
                     [] items[i].place = "none" -> "none"
                     [] items[i].place = "gone" -> "removed"
           T(i) == S(i)'
<1>1. Shown = [i \in Items |-> S(i)] /\ Shown' = [i \in Items |-> T(i)]
  BY DEF Shown
<1> HIDE DEF S, T
<1>2. QED
  BY <1>1

\* An item that is where it was, in the same state, shows the same.
LEMMA SameItemShows ==
  ASSUME TypeOK, TypeOK', NEW i \in Items, items'[i].place = items[i].place,
         Stored(i) => items'[i].status = items[i].status
  PROVE  Shown'[i] = Shown[i]
BY ShownIs, ShownNext DEF Stored

\* Where each item shows the same, nothing changed.
LEMMA SameShown ==
  ASSUME \A i \in Items : Shown'[i] = Shown[i]
  PROVE  Shown' = Shown
BY ShownFunctions

\* One item that shows something else.
LEMMA OneShows ==
  ASSUME NEW i \in Items, NEW s, Shown'[i] = s, \A j \in Items : j # i => Shown'[j] = Shown[j]
  PROVE  Shown' = [Shown EXCEPT ![i] = s]
BY ShownFunctions

\* A card appears, or finds its reply gone.
LEMMA AppendedShows ==
  ASSUME TypeOK, TypeOK', NEW i \in Items, NEW kind \in Kinds, NEW status \in {"pending", "done"},
         items[i].place = "none", items' = Appended(i, kind, status)
  PROVE  Abstract!Next
<1>1. Shown[i] = "none" /\ Shown'[i] \in {status, "removed"}
  BY AppendedItem, ShownIs, ShownNext DEF Stored, Statuses
<1>2. \A j \in Items : j # i => Shown'[j] = Shown[j]
  BY AppendedItem, SameItemShows DEF Statuses
<1>3. CASE Shown'[i] = status
  <2>1. Shown' = [Shown EXCEPT ![i] = status]
    BY <1>2, <1>3, OneShows
  <2>2. Abstract!Appear(i)
    BY <1>1, <2>1 DEF Abstract!Appear, Abstract!Becomes
  <2>3. QED
    BY <2>2 DEF Abstract!Next
<1>4. CASE Shown'[i] = "removed"
  <2>1. Shown' = [j \in Items |-> IF j \in {i} THEN "removed" ELSE Shown[j]]
    BY <1>2, <1>4, ShownFunctions
  <2>2. Abstract!Remove
    BY <2>1 DEF Abstract!Remove
  <2>3. QED
    BY <2>2 DEF Abstract!Next
<1>5. QED
  BY <1>1, <1>3, <1>4

LEMMA UpdatedShows ==
  ASSUME TypeOK, TypeOK', NEW i \in Items, NEW status \in Statuses, NEW job \in BOOLEAN,
         items' = Updated(i, status, job)
  PROVE  Shown' = IF Stored(i) THEN [Shown EXCEPT ![i] = status] ELSE Shown
<1>1. CASE Stored(i)
  <2>1. Shown'[i] = status
    BY <1>1, UpdatedItem, ShownNext DEF Stored
  <2>2. \A j \in Items : j # i => Shown'[j] = Shown[j]
    BY UpdatedItem, SameItemShows
  <2>3. QED
    BY <1>1, <2>1, <2>2, OneShows
<1>2. CASE ~ Stored(i)
  BY <1>2, UpdatedItem, SameItemShows, SameShown
<1>3. QED
  BY <1>1, <1>2

\* What was rendering gets an outcome, or renders on.
LEMMA OutcomeShows ==
  ASSUME TypeOK, TypeOK', NEW i \in Items, NEW status \in Statuses, NEW job \in BOOLEAN,
         items' = Updated(i, status, job), Stored(i) => items[i].status = "pending"
  PROVE  [Abstract!Next]_Shown
<1>1. CASE Stored(i) /\ status # "pending"
  <2>1. Shown[i] = "pending" /\ Shown' = [Shown EXCEPT ![i] = status]
    BY <1>1, ShownIs, UpdatedShows
  <2>2. Abstract!Finish(i) \/ Abstract!Fail(i)
    BY <1>1, <2>1 DEF Abstract!Finish, Abstract!Fail, Abstract!Becomes, Statuses
  <2>3. QED
    BY <2>2 DEF Abstract!Next
<1>2. CASE ~ (Stored(i) /\ status # "pending")
  <2>1. Shown' = Shown
    <3>1. CASE Stored(i)
      <4>1. Shown' = [Shown EXCEPT ![i] = "pending"] /\ Shown[i] = "pending"
        BY <1>2, <3>1, ShownIs, UpdatedShows
      <4>2. QED
        BY <4>1, ShownFunctions
    <3>2. CASE ~ Stored(i)
      BY <3>2, UpdatedShows
    <3>3. QED
      BY <3>1, <3>2
  <2>2. QED
    BY <2>1
<1>3. QED
  BY <1>1, <1>2

\* What is taken away is removed, or moves to the library and shows the same.
LEMMA TakenShows ==
  ASSUME TypeOK, TypeOK', TakesAway
  PROVE  [Abstract!Next]_Shown
<1> DEFINE S == {i \in Items : Shown'[i] # Shown[i]}
<1>1. \A i \in S : Shown'[i] = "removed"
  <2> SUFFICES ASSUME NEW i \in Items, Shown'[i] # Shown[i] PROVE Shown'[i] = "removed"
    OBVIOUS
  <2>1. items'[i] # items[i]
    BY SameItemShows
  <2>2. CASE items'[i].place = "gone"
    BY <2>2, ShownNext
  <2>3. CASE items'[i].place # "gone"
    BY <2>1, <2>3, ShownIs, ShownNext DEF TakesAway, Stored
  <2>4. QED
    BY <2>2, <2>3
<1>2. CASE S = {}
  BY <1>2, SameShown
<1>3. CASE S # {}
  <2>1. Shown' = [i \in Items |-> IF i \in S THEN "removed" ELSE Shown[i]]
    BY <1>1, ShownFunctions
  <2>2. Abstract!Remove
    BY <1>3, <2>1 DEF Abstract!Remove
  <2>3. QED
    BY <2>2 DEF Abstract!Next
<1>4. QED
  BY <1>2, <1>3

\* A restart fails what has no job.
LEMMA RestartShows ==
  ASSUME TypeOK, TypeOK', Restart
  PROVE  [Abstract!Next]_Shown
<1> DEFINE S == {i \in Items : Rendering(i) /\ items[i].place = "message" /\ ~ items[i].job}
<1>1. \A i \in S : Shown[i] = "pending" /\ Shown'[i] = "error"
  <2> SUFFICES ASSUME NEW i \in S PROVE Shown[i] = "pending" /\ Shown'[i] = "error"
    OBVIOUS
  <2>1. items'[i] = [items[i] EXCEPT !.status = "error"]
    BY DEF Restart
  <2>2. items'[i].place = "message" /\ items'[i].status = "error"
    BY <2>1 DEF TypeOK, Item
  <2>3. QED
    BY <2>2, ShownIs, ShownNext DEF Rendering, Stored
<1>2. \A i \in Items \ S : Shown'[i] = Shown[i]
  BY SameItemShows DEF Restart
<1>3. CASE S = {}
  BY <1>2, <1>3, SameShown
<1>4. CASE S # {}
  <2>1. Shown' = [i \in Items |-> IF i \in S THEN "error" ELSE Shown[i]]
    BY <1>1, <1>2, ShownFunctions
  <2>2. S \in SUBSET {i \in Items : Shown[i] = "pending"}
    BY <1>1
  <2>3. Abstract!Interrupt
    BY <1>4, <2>1, <2>2 DEF Abstract!Interrupt
  <2>4. QED
    BY <2>3 DEF Abstract!Next
<1>5. QED
  BY <1>3, <1>4

LEMMA SameItemsShow == ASSUME items' = items PROVE [Abstract!Next]_Shown
<1>1. Shown' = Shown
  BY DEF Shown, Stored
<1>2. QED
  BY <1>1

\* Each step is a step of a generated media's life, or shows nothing.
LEMMA StepShows ==
  ASSUME MediaInv, TypeOK', [Next]_vars, [AsItWasRead]_vars
  PROVE  [Abstract!Next]_Shown
<1>t. TypeOK /\ InTheMaking
  BY DEF MediaInv, Threads
<1>1. CASE TurnStep
  <2>1. ASSUME NEW i \in Items, NEW kind \in Kinds, TurnBegins(i, kind) PROVE [Abstract!Next]_Shown
    BY <1>t, <2>1, AppendedShows DEF TurnBegins
  <2>2. ASSUME NEW i \in Items, TurnAddsImage(i) PROVE [Abstract!Next]_Shown
    BY <1>t, <2>2, AppendedShows DEF TurnAddsImage, Kinds
  <2>3. CASE TurnMakesImage \/ TurnSubmitsVideo \/ TurnFails
    <3>1. turn.item \in Items /\ (Stored(turn.item) => items[turn.item].status = "pending")
      BY <1>t, <2>3 DEF TurnMakesImage, TurnSubmitsVideo, TurnFails, TypeOK, InTheMaking
    <3>2. items[turn.item].status \in Statuses /\ items[turn.item].job \in BOOLEAN
      BY <1>t, <3>1, ItemType
    <3>3. PICK status \in Statuses, job \in BOOLEAN : items' = Updated(turn.item, status, job)
      BY <2>3, <3>2 DEF TurnMakesImage, TurnSubmitsVideo, TurnFails, Statuses
    <3>4. QED
      BY <1>t, <3>1, <3>3, OutcomeShows
  <2>4. CASE TurnHasMade \/ TurnBreaks \/ \E status \in {"done", "error"} : TurnEnds(status)
    BY <2>4, SameItemsShow DEF TurnHasMade, TurnBreaks, TurnEnds
  <2>5. QED
    BY <1>1, <2>1, <2>2, <2>3, <2>4 DEF TurnStep
<1>2. ASSUME NEW w \in workers, WorkerStep(w) PROVE [Abstract!Next]_Shown
  <2>w. w.item \in Items
    BY <1>t DEF TypeOK, Worker
  <2>1. ASSUME NEW i \in Items, RegenAddsImage(w, i) PROVE [Abstract!Next]_Shown
    BY <1>t, <2>1, AppendedShows DEF RegenAddsImage, Kinds
  <2>2. CASE RegenMakesImage(w) \/ RegenSubmitsVideo(w) \/ RegenFails(w)
             \/ PollerTimesOut(w) \/ PollFails(w) \/ PollFinishes(w)
    <3>1. w \in Live
      BY <2>2 DEF RegenMakesImage, RegenSubmitsVideo, RegenFails, PollerTimesOut, PollFails, PollFinishes, Live
    <3>2. items[w.item].status \in Statuses /\ items[w.item].job \in BOOLEAN
      BY <1>t, <2>w, ItemType
    <3>3. PICK status \in Statuses, job \in BOOLEAN : items' = Updated(w.item, status, job)
      BY <2>2, <3>2 DEF RegenMakesImage, RegenSubmitsVideo, RegenFails,
           PollerTimesOut, PollFails, PollFinishes, Statuses
    <3>4. QED
      BY <1>t, <2>w, <3>1, <3>3, OutcomeShows DEF InTheMaking
  <2>3. CASE PollerWakes(w) \/ PollAnswers(w) \/ PollErrs(w) \/ ReadCost(w) \/ AddCost(w)
    BY <2>3, SameItemsShow DEF PollerWakes, PollAnswers, PollErrs, ReadCost, AddCost
  <2>4. QED
    BY <1>2, <2>1, <2>2, <2>3 DEF WorkerStep
<1>3. ASSUME AsItWasRead, NEW r \in reqs, RequestStep(r) PROVE [Abstract!Next]_Shown
  <2>1. ASSUME NEW i \in Items, Mark(r, i) PROVE [Abstract!Next]_Shown
    <3>1. Stored(i) /\ items[i].status = "error"
      BY <1>3, <2>1 DEF AsItWasRead, Stored
    <3>2. Shown[i] = "error" /\ Shown' = [Shown EXCEPT ![i] = "pending"]
      BY <1>t, <2>1, <3>1, ShownIs, UpdatedShows DEF Mark, Statuses
    <3>3. Abstract!TryAgain(i)
      BY <3>2 DEF Abstract!TryAgain, Abstract!Becomes
    <3>4. QED
      BY <3>3 DEF Abstract!Next
  <2>2. CASE GetMessage(r) \/ WriteMedia(r)
    BY <1>t, <1>3, <2>2, RequestTakesAway, TakenShows
  <2>3. QED
    BY <1>3, <2>1, <2>2 DEF RequestStep
<1>4. ASSUME NEW c \in Clients,
             \/ \E i \in Items : AskRegenerate(c, i) \/ AskDeleteMedia(c, i) \/ DeleteDetached(c, i)
             \/ \E S \in SUBSET Items : AskClearBlocked(c, S)
             \/ DeleteTurn(c)
             \/ DeleteChat(c)
      PROVE  [Abstract!Next]_Shown
  BY <1>t, <1>4, AskKeepsThreads, TakenShows
<1>5. CASE Restart
  BY <1>t, <1>5, RestartShows
<1>6. CASE UNCHANGED vars
  BY <1>6, SameItemsShow DEF vars
<1>7. QED
  BY <1>1, <1>2, <1>3, <1>4, <1>5, <1>6 DEF Next

\* The reply thread, the workers, the pollers, the requests and the restart between
\* them do to an item only what GeneratedMedia promises the user, whatever fails and however
\* many tabs there are: each step is one of its steps or shows nothing, as long as the
\* two handlers that check and then write find what they read.
THEOREM MediaAreGenerated == Spec /\ [][AsItWasRead]_vars => Abstract!Spec
<1>1. Init => Abstract!Init
  <2> SUFFICES ASSUME Init PROVE Shown = [i \in Items |-> "none"]
    BY DEF Abstract!Init
  <2>1. \A i \in Items : items[i].place = "none"
    BY DEF Init
  <2>2. QED
    BY <2>1 DEF Shown, Stored
<1>2. MediaInv /\ MediaInv' /\ [Next]_vars /\ [AsItWasRead]_vars => [Abstract!Next]_Shown
  BY StepShows DEF MediaInv
<1>3. QED
  BY <1>1, <1>2, MediaInvariant, PTL DEF Spec, Abstract!Spec

=============================================================================
