--------------------------- MODULE ChatTreeProofs ---------------------------
(***************************************************************************)
(* What holds of the chats' message trees for every number of chats and    *)
(* messages: of the replies for any tabs and restarts, and of the trees    *)
(* themselves for one tab that no restart disturbs.                        *)
(***************************************************************************)
EXTENDS ChatTree, WellFoundedInduction, TLAPS

\* The constants are natural numbers where they count.
LEMMA BoundsInNat == MaxMessages \in Nat /\ MaxMade \in Nat /\ MaxRestarts \in Nat
BY BoundsAssumption

\* Adding a message of a valid shape keeps the table, the leaves and the count valid.
LEMMA AddMessageType ==
  ASSUME TypeOK, NEW k \in Convs, NEW m \in Ids, NEW role \in {"user", "assistant"},
         NEW p \in Ids \cup {None}, NEW status \in {"streaming", "done", "error"},
         AddMessage(k, m, role, p, status)
  PROVE  /\ DOMAIN msgs' \subseteq Ids
         /\ \A n \in DOMAIN msgs' : msgs'[n] \in Row
         /\ leaf' \in [Convs -> Ids \cup {None}]
         /\ made' \in 0 .. MaxMade
         /\ made + 1 \in Serials
<1>1. made' \in 0 .. MaxMade /\ made + 1 \in Serials /\ made' = made + 1
  BY BoundsInNat DEF AddMessage, TypeOK, Serials
<1>2. DOMAIN msgs' = DOMAIN msgs \cup {m}
  BY DEF AddMessage
<1>3. \A n \in DOMAIN msgs' : msgs'[n] \in Row
  BY <1>1 DEF AddMessage, TypeOK, Row
<1>4. leaf' \in [Convs -> Ids \cup {None}]
  BY DEF AddMessage, TypeOK
<1>5. QED
  BY <1>1, <1>2, <1>3, <1>4 DEF TypeOK

\* A request that goes on to any call but the launch keeps its shape.
LEMMA GoesType ==
  ASSUME TypeOK, NEW r \in Request, NEW at \in {"reply", "user", "show", "delete"},
         NEW p \in Ids \cup {None}, Goes(r, [r EXCEPT !.at = at, !.parent = p])
  PROVE  /\ reqs' \subseteq Request
         /\ \A q \in reqs' : q.at = "launch" => q.target \in Ids /\ q.born \in Serials
<1>1. [r EXCEPT !.at = at, !.parent = p] \in Request
  BY DEF Request
<1>2. [r EXCEPT !.at = at, !.parent = p].at # "launch"
  BY DEF Request
<1>3. QED
  BY <1>1, <1>2 DEF Goes, TypeOK

\* Whatever the handlers, the reply threads and the restarts do, the table and
\* the requests and threads in flight keep their shape.
THEOREM TypeCorrect == Spec => []TypeOK
<1>1. Init => TypeOK
  <2>1. SUFFICES ASSUME Init PROVE TypeOK
    OBVIOUS
  <2>2. orphaned \in BOOLEAN
    BY <2>1 DEF Init
  <2>3. /\ msgs = [m \in {} |-> None] /\ convs = Convs /\ leaf = [k \in Convs |-> None]
        /\ reqs = {} /\ turns = {} /\ cancelEvents = [m \in Ids |-> 0] /\ made = 0 /\ restarts = 0
    BY <2>1 DEF Init
  <2> HIDE <2>1
  <2>4. QED
    BY <2>2, <2>3, BoundsInNat DEF TypeOK, Ids, Serials, None
<1>2. TypeOK /\ [Next]_vars => TypeOK'
  <2> SUFFICES ASSUME TypeOK, [Next]_vars PROVE TypeOK'
    OBVIOUS
  <2>1. ASSUME NEW c \in Clients, NEW k \in Convs, Send(c, k) PROVE TypeOK'
    BY <2>1 DEF Send, Accept, TypeOK, Request, None
  <2>2. ASSUME NEW c \in Clients, NEW k \in Convs, DeleteConv(c, k) PROVE TypeOK'
    BY <2>2 DEF DeleteConv, TypeOK, In
  <2>3. ASSUME NEW c \in Clients, NEW k \in Convs, NEW op \in {"retry", "edit", "switch"},
               NEW m \in Ids, Rewrite(c, k, op, m)
        PROVE TypeOK'
    BY <2>3 DEF Rewrite, Accept, TypeOK, Request, None
  <2>4. ASSUME NEW c \in Clients, NEW m \in Ids, AskDelete(c, m) PROVE TypeOK'
    BY <2>4 DEF AskDelete, Accept, TypeOK, Request, None, Row
  <2>5. ASSUME NEW r \in reqs, CheckIdle(r) PROVE TypeOK'
    BY <2>5 DEF CheckIdle, Goes, Ends, TypeOK, Request
  <2>6. ASSUME NEW r \in reqs, Read(r) PROVE TypeOK'
    <3>1. r \in Request /\ r.at = "read"
      BY <2>6 DEF Read, TypeOK
    <3>2. CASE r.target \notin In(r.conv)
      BY <2>6, <3>2 DEF Read, Ends, TypeOK
    <3>3. CASE r.target \in In(r.conv)
      <4>1. msgs[r.target].parent \in Ids \cup {None}
        BY <3>3 DEF TypeOK, In, Row
      <4>2. PICK p \in Ids \cup {None}, at \in {"reply", "user", "show"} :
              Goes(r, [r EXCEPT !.at = at, !.parent = p])
        BY <2>6, <3>1, <3>3, <4>1 DEF Read, Request
      <4>3. QED
        BY <2>6, <3>1, <4>2, GoesType DEF Read, TypeOK
    <3>4. QED
      BY <3>2, <3>3
  <2>7. ASSUME NEW r \in reqs, AddPrompt(r) PROVE TypeOK'
    <3>1. r \in Request
      BY DEF TypeOK
    <3>2. PICK m \in Ids, p \in Ids \cup {None} :
            /\ AddMessage(r.conv, m, "user", p, "done")
            /\ Goes(r, [r EXCEPT !.at = "reply", !.parent = m])
      BY <2>7 DEF AddPrompt
    <3>3. /\ reqs' \subseteq Request
          /\ \A q \in reqs' : q.at = "launch" => q.target \in Ids /\ q.born \in Serials
      BY <3>1, <3>2, GoesType
    <3>4. r.conv \in Convs
      BY <3>1 DEF Request
    <3>5. QED
      BY <2>7, <3>2, <3>3, <3>4, AddMessageType DEF AddPrompt, TypeOK
  <2>8. ASSUME NEW r \in reqs, AddReply(r) PROVE TypeOK'
    <3>1. r \in Request
      BY DEF TypeOK
    <3>2. PICK m \in Ids :
            /\ AddMessage(r.conv, m, "assistant", r.parent, "streaming")
            /\ Goes(r, [r EXCEPT !.at = "launch", !.target = m, !.born = made + 1])
      BY <2>8 DEF AddReply
    <3>3. r.conv \in Convs /\ r.parent \in Ids \cup {None}
      BY <3>1 DEF Request
    <3>4. made + 1 \in Serials
      BY <3>2, <3>3, AddMessageType
    <3>5. /\ reqs' \subseteq Request
          /\ \A q \in reqs' : q.at = "launch" => q.target \in Ids /\ q.born \in Serials
      <4>1. [r EXCEPT !.at = "launch", !.target = m, !.born = made + 1] \in Request
        BY <3>1, <3>4 DEF Request
      <4>2. /\ [r EXCEPT !.at = "launch", !.target = m, !.born = made + 1].target = m
            /\ [r EXCEPT !.at = "launch", !.target = m, !.born = made + 1].born = made + 1
        BY <3>1 DEF Request
      <4>3. QED
        BY <3>2, <3>4, <4>1, <4>2 DEF Goes, TypeOK
    <3>6. QED
      BY <2>8, <3>2, <3>3, <3>5, AddMessageType DEF AddReply, TypeOK
  <2>9. ASSUME NEW r \in reqs, Launch(r) PROVE TypeOK'
    BY <2>9 DEF Launch, Ends, TypeOK, Request, Thread
  <2>10. ASSUME NEW r \in reqs, Show(r) PROVE TypeOK'
    BY <2>10 DEF Show, Ends, TypeOK, Request
  <2>11. ASSUME NEW r \in reqs, Delete(r) PROVE TypeOK'
    BY <2>11 DEF Delete, Prune, Ends, TypeOK, Request, Row, In
  <2>12. ASSUME NEW t \in turns, Begin(t) PROVE TypeOK'
    BY <2>12 DEF Begin, TypeOK, Thread
  <2>13. ASSUME NEW t \in turns, NEW status \in {"done", "error"}, Write(t, status) PROVE TypeOK'
    BY <2>13 DEF Write, TypeOK, Thread, Row
  <2>14. ASSUME NEW t \in turns, Exit(t) PROVE TypeOK'
    BY <2>14 DEF Exit, TypeOK, Thread
  <2>15. ASSUME Restart PROVE TypeOK'
    <3>1. orphaned' \in BOOLEAN
      BY <2>15 DEF Restart
    <3>2. /\ reqs' = {} /\ turns' = {} /\ cancelEvents' = [m \in Ids |-> 0]
          /\ restarts < MaxRestarts /\ restarts' = restarts + 1
          /\ UNCHANGED <<convs, leaf, made>>
      BY <2>15 DEF Restart
    <3>3. DOMAIN msgs' \subseteq Ids /\ \A m \in DOMAIN msgs' : msgs'[m] \in Row
      BY <2>15 DEF Restart, TypeOK, Row
    <3>4. QED
      BY <3>1, <3>2, <3>3, BoundsInNat DEF TypeOK
  <2>16. ASSUME UNCHANGED vars PROVE TypeOK'
    BY <2>16 DEF vars, TypeOK
  <2>17. QED
    BY <2>1, <2>2, <2>3, <2>4, <2>5, <2>6, <2>7, <2>8, <2>9, <2>10, <2>11, <2>12,
       <2>13, <2>14, <2>15, <2>16 DEF Next, RequestStep, ThreadStep
<1>3. QED
  BY <1>1, <1>2, PTL DEF Spec

-----------------------------------------------------------------------------

\* A step that adds no streaming row, keeps the status of the rows it keeps and
\* keeps every request about to launch and every thread about to write,
\* abandons no reply.
LEMMA KeepsRunning ==
  ASSUME NoAbandonedReply,
         \A m \in DOMAIN msgs' : msgs'[m].status = "streaming" =>
           m \in DOMAIN msgs /\ msgs[m].status = "streaming",
         \A r \in reqs : r.at = "launch" => r \in reqs',
         \A t \in turns : t.at # "written" => t \in turns'
  PROVE  NoAbandonedReply'
BY DEF NoAbandonedReply

\* A reply that says "streaming" always has a thread that will end it or a
\* handler about to start one, however requests, threads, deletions and
\* restarts interleave.
THEOREM NoReplyAbandoned == Spec => []NoAbandonedReply
<1>1. Init => NoAbandonedReply
  BY DEF Init, NoAbandonedReply
<1>2. TypeOK /\ NoAbandonedReply /\ [Next]_vars => NoAbandonedReply'
  <2> SUFFICES ASSUME TypeOK, NoAbandonedReply, [Next]_vars PROVE NoAbandonedReply'
    OBVIOUS
  <2>1. ASSUME NEW c \in Clients, NEW k \in Convs, Send(c, k) PROVE NoAbandonedReply'
    BY <2>1 DEF Send, Accept, NoAbandonedReply
  <2>2. ASSUME NEW c \in Clients, NEW k \in Convs, DeleteConv(c, k) PROVE NoAbandonedReply'
    BY <2>2, KeepsRunning DEF DeleteConv
  <2>3. ASSUME NEW c \in Clients, NEW k \in Convs, NEW op \in {"retry", "edit", "switch"},
               NEW m \in Ids, Rewrite(c, k, op, m)
        PROVE NoAbandonedReply'
    BY <2>3 DEF Rewrite, Accept, NoAbandonedReply
  <2>4. ASSUME NEW c \in Clients, NEW m \in Ids, AskDelete(c, m) PROVE NoAbandonedReply'
    BY <2>4 DEF AskDelete, Accept, NoAbandonedReply
  <2>5. ASSUME NEW r \in reqs, CheckIdle(r) PROVE NoAbandonedReply'
    BY <2>5, KeepsRunning DEF CheckIdle, Goes, Ends
  <2>6. ASSUME NEW r \in reqs, Read(r) PROVE NoAbandonedReply'
    <3>1. /\ r.at # "launch"
          /\ \A q \in reqs : q # r => q \in reqs'
      BY <2>6 DEF Read, Goes, Ends
    <3>2. QED
      BY <2>6, <3>1, KeepsRunning DEF Read
  <2>7. ASSUME NEW r \in reqs, AddPrompt(r) PROVE NoAbandonedReply'
    <3>1. PICK m \in Ids, p \in Ids \cup {None} :
            /\ AddMessage(r.conv, m, "user", p, "done")
            /\ Goes(r, [r EXCEPT !.at = "reply", !.parent = m])
      BY <2>7 DEF AddPrompt
    <3>2. \A n \in DOMAIN msgs' : msgs'[n].status = "streaming" =>
            n \in DOMAIN msgs /\ msgs[n].status = "streaming"
      BY <3>1 DEF AddMessage
    <3>3. r.at # "launch" /\ \A q \in reqs : q # r => q \in reqs'
      BY <2>7, <3>1 DEF AddPrompt, Goes
    <3>4. QED
      BY <2>7, <3>2, <3>3, KeepsRunning DEF AddPrompt
  <2>8. ASSUME NEW r \in reqs, AddReply(r) PROVE NoAbandonedReply'
    <3>1. PICK m \in Ids :
            /\ AddMessage(r.conv, m, "assistant", r.parent, "streaming")
            /\ Goes(r, [r EXCEPT !.at = "launch", !.target = m, !.born = made + 1])
      BY <2>8 DEF AddReply
    <3> DEFINE s == [r EXCEPT !.at = "launch", !.target = m, !.born = made + 1]
    <3>2. s \in reqs' /\ s.at = "launch" /\ s.target = m
      BY <3>1 DEF Goes, TypeOK, Request
    <3>3. \A n \in DOMAIN msgs' : n # m => n \in DOMAIN msgs /\ msgs'[n] = msgs[n]
      BY <3>1 DEF AddMessage
    <3>4. r.at # "launch" /\ \A q \in reqs : q # r => q \in reqs'
      BY <2>8, <3>1 DEF AddReply, Goes
    <3> HIDE DEF s
    <3>5. QED
      BY <2>8, <3>2, <3>3, <3>4 DEF AddReply, NoAbandonedReply
  <2>9. ASSUME NEW r \in reqs, Launch(r) PROVE NoAbandonedReply'
    <3> DEFINE t == [msg |-> r.target, conv |-> r.conv, born |-> r.born, at |-> "starting"]
    <3>1. t \in turns' /\ t.msg = r.target /\ t.at # "written"
      BY <2>9 DEF Launch
    <3> HIDE DEF t
    <3>2. turns \subseteq turns' /\ \A q \in reqs : q # r => q \in reqs'
      BY <2>9 DEF Launch, Ends
    <3>3. QED
      BY <2>9, <3>1, <3>2 DEF Launch, NoAbandonedReply
  <2>10. ASSUME NEW r \in reqs, Show(r) PROVE NoAbandonedReply'
    BY <2>10, KeepsRunning DEF Show, Ends
  <2>11. ASSUME NEW r \in reqs, Delete(r) PROVE NoAbandonedReply'
    <3>1. \A m \in DOMAIN msgs' : m \in DOMAIN msgs /\ msgs'[m].status = msgs[m].status
      BY <2>11 DEF Delete, Prune, TypeOK, Row
    <3>2. QED
      BY <2>11, <3>1, KeepsRunning DEF Delete, Ends
  <2>12. ASSUME NEW t \in turns, Begin(t) PROVE NoAbandonedReply'
    <3> DEFINE u == [t EXCEPT !.at = "running"]
    <3>1. u \in turns' /\ u.msg = t.msg /\ u.at # "written"
      BY <2>12 DEF Begin, TypeOK, Thread
    <3>2. \A v \in turns : v # t => v \in turns'
      BY <2>12 DEF Begin
    <3> HIDE DEF u
    <3>3. QED
      BY <2>12, <3>1, <3>2 DEF Begin, NoAbandonedReply
  <2>13. ASSUME NEW t \in turns, NEW status \in {"done", "error"}, Write(t, status)
         PROVE NoAbandonedReply'
    <3>1. \A m \in DOMAIN msgs' : msgs'[m].status = "streaming" =>
            m # t.msg /\ m \in DOMAIN msgs /\ msgs[m].status = "streaming"
      BY <2>13 DEF Write, TypeOK, Row
    <3>2. \A u \in turns : u # t => u \in turns'
      BY <2>13 DEF Write
    <3>3. QED
      BY <2>13, <3>1, <3>2 DEF Write, NoAbandonedReply
  <2>14. ASSUME NEW t \in turns, Exit(t) PROVE NoAbandonedReply'
    BY <2>14, KeepsRunning DEF Exit
  <2>15. ASSUME Restart PROVE NoAbandonedReply'
    BY <2>15 DEF Restart, NoAbandonedReply, TypeOK, Row
  <2>16. ASSUME UNCHANGED vars PROVE NoAbandonedReply'
    BY <2>16 DEF vars, NoAbandonedReply
  <2>17. QED
    BY <2>1, <2>2, <2>3, <2>4, <2>5, <2>6, <2>7, <2>8, <2>9, <2>10, <2>11, <2>12,
       <2>13, <2>14, <2>15, <2>16 DEF Next, RequestStep, ThreadStep
<1>3. QED
  BY <1>1, <1>2, TypeCorrect, PTL DEF Spec

-----------------------------------------------------------------------------
(* Whose row a thread writes *)

OneTab == \A c, d \in Clients : c = d

\* The row with this key is a reply that streams, and not one that had it before.
Streams(m, b) == m \in DOMAIN msgs /\ msgs[m].born = b /\ msgs[m].status = "streaming"

OneRequest == \A r, s \in reqs : r = s

\* Every thread that will write has a streaming row to itself.
ThreadsOwn ==
  \A t \in turns : t.at # "written" =>
    /\ Streams(t.msg, t.born)
    /\ \A u \in turns : u.at # "written" /\ u.msg = t.msg => u = t

\* The row of a reply that is about to be launched has no thread yet.
LaunchesOwn ==
  \A r \in reqs : r.at = "launch" =>
    /\ Streams(r.target, r.born)
    /\ \A t \in turns : t.at # "written" => t.msg # r.target

\* A chat that was found idle stays so until the turn is deleted.
DeletesIdle == \A r \in reqs : r.at = "delete" => Idle(r.conv)

\* The invariant of the replies' rows.
OwnInv == OneRequest /\ ThreadsOwn /\ LaunchesOwn /\ DeletesIdle

LEMMA NobodyElse ==
  ASSUME OneTab, TypeOK, NEW c \in Clients, Free(c)
  PROVE  reqs = {}
BY DEF OneTab, TypeOK, Free, Request

\* A step that spares the streaming rows and the threads, and leaves no request
\* about to launch.
LEMMA OwnKept ==
  ASSUME OwnInv, UNCHANGED turns,
         \A m \in DOMAIN msgs : msgs[m].status = "streaming" =>
           m \in DOMAIN msgs' /\ msgs'[m].born = msgs[m].born /\ msgs'[m].status = "streaming",
         \A r, s \in reqs' : r = s,
         \A r \in reqs' : r.at # "launch" /\ (r.at = "delete" => Idle(r.conv)')
  PROVE  OwnInv'
BY DEF OwnInv, OneRequest, ThreadsOwn, LaunchesOwn, DeletesIdle, Streams

\* The same for a step that a new request makes.
LEMMA AcceptKept ==
  ASSUME OneTab, TypeOK, OwnInv, NEW c \in Clients, NEW k, NEW op, NEW at \in {"read", "check", "user"}, NEW m,
         Free(c), Accept(c, k, op, at, m), UNCHANGED <<msgs, turns>>
  PROVE  OwnInv'
<1>1. reqs' = {[client |-> c, conv |-> k, op |-> op, at |-> at, target |-> m, parent |-> None, born |-> 0]}
  BY NobodyElse DEF Accept
<1>2. \A r \in reqs' : r.at = at
  BY <1>1
<1>3. QED
  BY <1>1, <1>2, OwnKept

\* What is removed with a turn is of the turn's chat; the rest stays as it was,
\* but for what it hangs on.
LEMMA Pruned ==
  ASSUME TypeOK, NEW k, NEW p, Prune(k, p)
  PROVE  \A m \in DOMAIN msgs \ In(k) :
           m \in DOMAIN msgs' /\ msgs'[m].born = msgs[m].born /\ msgs'[m].status = msgs[m].status
<1>1. \A m \in DOMAIN msgs \ In(k) : m \notin Doomed(k, p)
  BY DEF Doomed
<1>2. QED
  BY <1>1 DEF Prune, TypeOK, Row

\* A new row has a key that no row has.
LEMMA NewRow ==
  ASSUME TypeOK, NEW k, NEW m \in Ids, NEW role, NEW p, NEW status, AddMessage(k, m, role, p, status)
  PROVE  /\ m \notin DOMAIN msgs /\ DOMAIN msgs' = DOMAIN msgs \cup {m}
         /\ msgs'[m].born = made + 1 /\ msgs'[m].status = status
         /\ \A n \in DOMAIN msgs : msgs'[n] = msgs[n]
<1>1. m \notin DOMAIN msgs
  BY DEF AddMessage, NextId, Ids
<1>2. QED
  BY <1>1 DEF AddMessage

LEMMA OwnRequestStep ==
  ASSUME OneTab, TypeOK, OwnInv, NEW r \in reqs, RequestStep(r)
  PROVE  OwnInv'
<1>1. r \in Request /\ reqs = {r}
  BY DEF TypeOK, OwnInv, OneRequest
<1>2. CASE CheckIdle(r)
  <2>1. UNCHANGED <<msgs, turns>>
    BY <1>2 DEF CheckIdle
  <2>2. CASE Idle(r.conv) /\ reqs' = {[r EXCEPT !.at = "delete"]}
    <3>1. [r EXCEPT !.at = "delete"].conv = r.conv /\ [r EXCEPT !.at = "delete"].at = "delete"
      BY <1>1 DEF Request
    <3>2. \A k : Idle(k)' <=> Idle(k)
      BY <2>1 DEF Idle, In
    <3>3. QED
      BY <2>1, <2>2, <3>1, <3>2, OwnKept
  <2>3. CASE reqs' = {}
    BY <2>1, <2>3, OwnKept
  <2>4. QED
    BY <1>1, <1>2, <2>2, <2>3 DEF CheckIdle, Goes, Ends
<1>3. CASE Read(r)
  <2>1. UNCHANGED <<msgs, turns>>
    BY <1>3 DEF Read
  <2>2. CASE reqs' = {}
    BY <2>1, <2>2, OwnKept
  <2>3. ASSUME NEW at \in {"reply", "user", "show"}, NEW p, reqs' = {[r EXCEPT !.at = at, !.parent = p]}
        PROVE  OwnInv'
    <3>1. \A s \in reqs' : s.at = at
      BY <1>1, <2>3 DEF Request
    <3>2. QED
      BY <2>1, <2>3, <3>1, OwnKept
  <2>4. \/ reqs' = {}
        \/ \E at \in {"reply", "user", "show"} : \E p : reqs' = {[r EXCEPT !.at = at, !.parent = p]}
    BY <1>1, <1>3, ZenonT(40) DEF Read, Goes, Ends
  <2>5. QED
    BY <2>2, <2>3, <2>4
<1>4. CASE AddPrompt(r)
  <2>1. PICK m \in Ids, p \in Ids \cup {None} :
          /\ AddMessage(r.conv, m, "user", p, "done")
          /\ Goes(r, [r EXCEPT !.at = "reply", !.parent = m])
    BY <1>4 DEF AddPrompt
  <2>2. \A s \in reqs' : s.at = "reply"
    BY <1>1, <2>1 DEF Goes, Request
  <2>3. \A q, s \in reqs' : q = s
    BY <1>1, <2>1 DEF Goes
  <2>4. \A n \in DOMAIN msgs : n \in DOMAIN msgs' /\ msgs'[n] = msgs[n]
    BY <2>1, NewRow
  <2>5. UNCHANGED turns
    BY <1>4 DEF AddPrompt
  <2>6. QED
    BY <2>2, <2>3, <2>4, <2>5, OwnKept
<1>5. CASE AddReply(r)
  <2>1. PICK m \in Ids :
          /\ AddMessage(r.conv, m, "assistant", r.parent, "streaming")
          /\ Goes(r, [r EXCEPT !.at = "launch", !.target = m, !.born = made + 1])
    BY <1>5 DEF AddReply
  <2>2. /\ m \notin DOMAIN msgs /\ m \in DOMAIN msgs'
        /\ msgs'[m].born = made + 1 /\ msgs'[m].status = "streaming"
        /\ \A n \in DOMAIN msgs : n \in DOMAIN msgs' /\ msgs'[n] = msgs[n]
    BY <2>1, NewRow, ZenonT(40)
  <2>3. reqs' = {[r EXCEPT !.at = "launch", !.target = m, !.born = made + 1]}
    BY <1>1, <2>1 DEF Goes
  <2>4. \A s \in reqs' : s.at = "launch" /\ s.target = m /\ s.born = made + 1
    BY <1>1, <2>3 DEF Request
  <2>5. UNCHANGED turns
    BY <1>5 DEF AddReply
  <2>6. ThreadsOwn'
    BY <2>2, <2>5 DEF OwnInv, ThreadsOwn, Streams
  <2>7. LaunchesOwn'
    BY <2>2, <2>4, <2>5 DEF OwnInv, ThreadsOwn, LaunchesOwn, Streams
  <2>8. OneRequest' /\ DeletesIdle'
    BY <2>3, <2>4 DEF OneRequest, DeletesIdle
  <2>9. QED
    BY <2>6, <2>7, <2>8 DEF OwnInv
<1>6. CASE Launch(r)
  <2> DEFINE t == [msg |-> r.target, conv |-> r.conv, born |-> r.born, at |-> "starting"]
  <2>1. reqs' = {} /\ turns' = turns \cup {t} /\ UNCHANGED msgs
    BY <1>1, <1>6 DEF Launch, Ends
  <2>2. Streams(r.target, r.born) /\ \A u \in turns : u.at # "written" => u.msg # r.target
    BY <1>6 DEF Launch, OwnInv, LaunchesOwn
  <2>3. t.msg = r.target /\ t.born = r.born
    OBVIOUS
  <2> HIDE DEF t
  <2>4. ThreadsOwn'
    BY <2>1, <2>2, <2>3 DEF OwnInv, ThreadsOwn, Streams
  <2>5. QED
    BY <2>1, <2>4 DEF OwnInv, OneRequest, LaunchesOwn, DeletesIdle
<1>7. CASE Show(r)
  BY <1>1, <1>7, OwnKept DEF Show, Ends
<1>8. CASE Delete(r)
  <2>1. reqs' = {} /\ UNCHANGED turns /\ (Prune(r.conv, r.target) \/ UNCHANGED msgs)
    BY <1>1, <1>8 DEF Delete, Ends
  <2>2. \A m \in In(r.conv) : msgs[m].status # "streaming"
    BY <1>8 DEF Delete, OwnInv, DeletesIdle, Idle
  <2>3. QED
    BY <2>1, <2>2, Pruned, OwnKept
<1>9. QED
  BY <1>2, <1>3, <1>4, <1>5, <1>6, <1>7, <1>8 DEF RequestStep

LEMMA OwnThreadStep ==
  ASSUME TypeOK, OwnInv, NEW t \in turns, ThreadStep(t)
  PROVE  OwnInv'
<1>1. t \in Thread
  BY DEF TypeOK
<1>2. CASE Begin(t)
  <2> DEFINE u == [t EXCEPT !.at = "running"]
  <2>1. turns' = (turns \ {t}) \cup {u} /\ UNCHANGED <<msgs, reqs>> /\ t.at # "written"
    BY <1>2 DEF Begin
  <2>2. u.msg = t.msg /\ u.born = t.born /\ u.at # "written"
    BY <1>1 DEF Thread
  <2> HIDE DEF u
  <2>3. ThreadsOwn'
    BY <2>1, <2>2 DEF OwnInv, ThreadsOwn, Streams
  <2>4. LaunchesOwn'
    BY <2>1, <2>2 DEF OwnInv, LaunchesOwn, Streams
  <2>5. QED
    BY <2>1, <2>3, <2>4 DEF OwnInv, OneRequest, DeletesIdle, Idle, In
<1>3. ASSUME NEW status \in {"done", "error"}, Write(t, status) PROVE OwnInv'
  <2> DEFINE u == [t EXCEPT !.at = "written"]
  <2>1. turns' = (turns \ {t}) \cup {u} /\ UNCHANGED reqs /\ t.at # "written"
    BY <1>3 DEF Write
  <2>2. u.at = "written"
    BY <1>1 DEF Thread
  <2> HIDE DEF u
  <2>3. /\ DOMAIN msgs' = DOMAIN msgs
        /\ \A m \in DOMAIN msgs : m # t.msg => msgs'[m] = msgs[m]
        /\ \A m \in DOMAIN msgs : msgs'[m].conv = msgs[m].conv
        /\ \A m \in DOMAIN msgs : msgs'[m].status = "streaming" => msgs[m].status = "streaming"
    BY <1>3 DEF Write, TypeOK, Row
  <2>4. ThreadsOwn'
    BY <2>1, <2>2, <2>3 DEF OwnInv, ThreadsOwn, Streams
  <2>5. LaunchesOwn'
    BY <2>1, <2>2, <2>3 DEF OwnInv, LaunchesOwn, Streams
  <2>6. DeletesIdle'
    BY <2>1, <2>3 DEF OwnInv, DeletesIdle, Idle, In
  <2>7. QED
    BY <2>1, <2>4, <2>5, <2>6 DEF OwnInv, OneRequest
<1>4. CASE Exit(t)
  BY <1>4 DEF Exit, OwnInv, OneRequest, ThreadsOwn, LaunchesOwn, DeletesIdle, Streams, Idle, In
<1>5. QED
  BY <1>2, <1>3, <1>4 DEF ThreadStep

LEMMA OwnStep ==
  ASSUME OneTab, ~ orphaned', TypeOK, OwnInv, [Next]_vars
  PROVE  OwnInv'
<1>1. ASSUME NEW c \in Clients, NEW k \in Convs, Send(c, k) PROVE OwnInv'
  BY <1>1, AcceptKept DEF Send
<1>2. ASSUME NEW c \in Clients, NEW k \in Convs, DeleteConv(c, k) PROVE OwnInv'
  <2>1. reqs = {} /\ UNCHANGED <<reqs, turns>>
    BY <1>2, NobodyElse DEF DeleteConv
  <2>2. \A m \in DOMAIN msgs : msgs[m].status = "streaming" => m \in DOMAIN msgs' /\ msgs'[m] = msgs[m]
    BY <1>2 DEF DeleteConv
  <2>3. QED
    BY <2>1, <2>2, OwnKept
<1>3. ASSUME NEW c \in Clients, NEW k \in Convs, NEW op \in {"retry", "edit", "switch"},
             NEW m \in Ids, Rewrite(c, k, op, m)
      PROVE  OwnInv'
  BY <1>3, AcceptKept DEF Rewrite
<1>4. ASSUME NEW c \in Clients, NEW m \in Ids, AskDelete(c, m) PROVE OwnInv'
  BY <1>4, AcceptKept DEF AskDelete
<1>5. CASE Restart
  BY <1>5 DEF Restart, OwnInv, OneRequest, ThreadsOwn, LaunchesOwn, DeletesIdle
<1>6. CASE UNCHANGED vars
  BY <1>6 DEF vars, OwnInv, OneRequest, ThreadsOwn, LaunchesOwn, DeletesIdle, Streams, Idle, In
<1>7. QED
  BY <1>1, <1>2, <1>3, <1>4, <1>5, <1>6, OwnRequestStep, OwnThreadStep DEF Next

\* Only a restart makes good that a chat was deleted under its reply.
LEMMA OrphansStay ==
  ASSUME [Next]_vars, orphaned, ~ orphaned'
  PROVE  Restart
<1>1. ASSUME NEW c \in Clients, NEW k \in Convs,
             \/ Send(c, k) \/ DeleteConv(c, k)
             \/ \E op \in {"retry", "edit", "switch"}, m \in Ids : Rewrite(c, k, op, m)
      PROVE  orphaned'
  BY <1>1 DEF Send, DeleteConv, Rewrite
<1>2. ASSUME NEW c \in Clients, NEW m \in Ids, AskDelete(c, m) PROVE orphaned'
  BY <1>2 DEF AskDelete
<1>3. ASSUME NEW r \in reqs, RequestStep(r) PROVE orphaned'
  BY <1>3 DEF RequestStep, CheckIdle, Read, AddPrompt, AddReply, Launch, Show, Delete
<1>4. ASSUME NEW t \in turns, ThreadStep(t) PROVE orphaned'
  BY <1>4 DEF ThreadStep, Begin, Write, Exit
<1>5. CASE UNCHANGED vars
  BY <1>5 DEF vars
<1>6. QED
  BY <1>1, <1>2, <1>3, <1>4, <1>5 DEF Next

\* The invariant, but for what follows the deletion of a chat under its reply.
Owned == orphaned \/ OwnInv

\* With one tab, and until a chat is deleted under a running reply, a thread
\* writes the reply it was started for, though SQLite hands keys out again: a turn
\* is only deleted from a chat that was found idle, and nothing can start in
\* between. A restart ends the exception: it ends the threads.
THEOREM ThreadsOwnTheirReplies ==
  ASSUME OneTab
  PROVE  Spec => []ThreadOwnsItsReply
<1>1. Init => Owned
  BY DEF Init, Owned, OwnInv, OneRequest, ThreadsOwn, LaunchesOwn, DeletesIdle
<1>2. TypeOK /\ Owned /\ [Next]_vars => Owned'
  <2>1. SUFFICES ASSUME TypeOK, Owned, [Next]_vars, ~ orphaned' PROVE OwnInv'
    BY DEF Owned
  <2>2. CASE orphaned
    <3>1. Restart
      BY <2>1, <2>2, OrphansStay
    <3>2. QED
      BY <3>1 DEF Restart, OwnInv, OneRequest, ThreadsOwn, LaunchesOwn, DeletesIdle
  <2>3. CASE OwnInv
    BY <2>1, <2>3, OwnStep
  <2>4. QED
    BY <2>1, <2>2, <2>3 DEF Owned
<1>3. Owned => ThreadOwnsItsReply
  BY DEF Owned, OwnInv, ThreadsOwn, ThreadOwnsItsReply, Streams
<1>4. QED
  BY <1>1, <1>2, <1>3, TypeCorrect, PTL DEF Spec

-----------------------------------------------------------------------------
(* Recursion: the walks up and down a tree *)

\* A set of naturals has a least member.
LEMMA Least ==
  ASSUME NEW T, T \subseteq Nat, T # {}
  PROVE  \E x \in T : \A y \in T : x <= y
<1>1. PICK x \in T : \A y \in T : ~ (<<y, x>> \in OpToRel(<, Nat))
  BY NatLessThanWellFounded, WFMin
<1>2. \A y \in T : ~ (y < x)
  BY <1>1 DEF OpToRel
<1>3. QED
  BY <1>2

\* f starts at a and goes on from there as g says, n times.
Follows(f, a, g, n) == f[0] = a /\ \A i \in 1 .. n : f[i] = g[<<i, f[i - 1]>>]

\* A function that steps from 0 to n exists: the longest one is as long.
LEMMA Steps ==
  ASSUME NEW D, NEW a \in D, NEW g \in [Nat \X D -> D], NEW n \in Nat
  PROVE  \E f \in [0 .. n -> D] : Follows(f, a, g, n)
<1> DEFINE Fits(f, j) ==
             /\ f \in [0 .. j -> D]
             /\ f[0] = a
             /\ \A i \in 1 .. j : f[i] = g[<<i, f[i - 1]>>]
           bad == {j \in Nat : ~ \E f : Fits(f, j)}
<1>1. \A j \in Nat : \E f : Fits(f, j)
  <2>1. SUFFICES ASSUME bad # {} PROVE FALSE
    OBVIOUS
  <2>2. PICK j \in bad : \A i \in bad : j <= i
    BY <2>1, Least
  <2>3. CASE j = 0
    <3>1. Fits([i \in 0 .. 0 |-> a], 0)
      OBVIOUS
    <3>2. QED
      BY <2>2, <2>3, <3>1
  <2>4. CASE j # 0
    <3>1. j - 1 \in Nat /\ j - 1 \notin bad /\ j \in Nat
      BY <2>2, <2>4
    <3>2. PICK f : Fits(f, j - 1)
      BY <3>1
    <3> DEFINE h == [i \in 0 .. j |-> IF i = j THEN g[<<j, f[j - 1]>>] ELSE f[i]]
    <3>3. f[j - 1] \in D
      BY <3>1, <3>2
    <3>4. g[<<j, f[j - 1]>>] \in D
      BY <3>1, <3>3
    <3>5. h \in [0 .. j -> D]
      BY <3>1, <3>2, <3>4
    <3>6. h[0] = a
      BY <2>4, <3>1, <3>2
    <3>7. \A i \in 1 .. j : h[i] = g[<<i, h[i - 1]>>]
      <4>1. TAKE i \in 1 .. j
      <4>2. h[i - 1] = f[i - 1]
        BY <3>1
      <4>3. CASE i = j
        BY <3>1, <4>2, <4>3, SMTT(20)
      <4>4. CASE i # j
        BY <3>1, <3>2, <4>2, <4>4
      <4>5. QED
        BY <4>3, <4>4
    <3>8. QED
      BY <2>2, <3>5, <3>6, <3>7
  <2>5. QED
    BY <2>3, <2>4
<1>2. PICK f : Fits(f, n)
  BY <1>1
<1>3. QED
  BY <1>2 DEF Follows

\* The parents of a message, step by step.
LEMMA ChainSteps ==
  ASSUME TypeOK, NEW k, NEW m \in Ids \cup {None}
  PROVE  /\ Chain(k, m)[0] = m
         /\ \A i \in 1 .. MaxMessages :
              Chain(k, m)[i] = IF Chain(k, m)[i - 1] \in In(k)
                               THEN msgs[Chain(k, m)[i - 1]].parent ELSE None
<1> DEFINE D == Ids \cup {None}
           F(f) == [i \in 0 .. MaxMessages |->
                      IF i = 0 THEN m
                      ELSE LET n == f[i - 1] IN IF n \in In(k) THEN msgs[n].parent ELSE None]
           g == [q \in Nat \X D |-> IF q[2] \in In(k) THEN msgs[q[2]].parent ELSE None]
<1>1. m \in D /\ g \in [Nat \X D -> D] /\ MaxMessages \in Nat
  BY BoundsAssumption DEF TypeOK, In, Row
<1>2. \A q \in Nat \X D : g[q] = IF q[2] \in In(k) THEN msgs[q[2]].parent ELSE None
  OBVIOUS
<1> HIDE DEF g, D
<1>3. PICK f \in [0 .. MaxMessages -> D] : Follows(f, m, g, MaxMessages)
  BY <1>1, Steps
<1>4. \A i \in 1 .. MaxMessages :
        g[<<i, f[i - 1]>>] = IF f[i - 1] \in In(k) THEN msgs[f[i - 1]].parent ELSE None
  <2>1. TAKE i \in 1 .. MaxMessages
  <2>2. <<i, f[i - 1]>> \in Nat \X D
    BY <1>1, <1>3
  <2>3. QED
    BY <1>2, <2>2
<1>5. f = F(f)
  <2>1. f = [i \in 0 .. MaxMessages |-> f[i]]
    BY <1>3
  <2>2. \A i \in 0 .. MaxMessages :
          f[i] = IF i = 0 THEN m
                 ELSE LET n == f[i - 1] IN IF n \in In(k) THEN msgs[n].parent ELSE None
    <3>1. f[0] = m /\ \A i \in 1 .. MaxMessages : f[i] = g[<<i, f[i - 1]>>]
      BY <1>3 DEF Follows
    <3>2. \A i \in 0 .. MaxMessages : i = 0 \/ i \in 1 .. MaxMessages
      BY <1>1
    <3>3. QED
      BY <3>1, <3>2, <1>4
  <2>3. QED
    BY <2>1, <2>2
<1>6. Chain(k, m) = CHOOSE x : x = F(x)
  BY DEF Chain
<1>7. Chain(k, m) = F(Chain(k, m))
  BY <1>5, <1>6
<1>8. Chain(k, m)[0] = m
  BY <1>1, <1>7
<1>9. \A i \in 1 .. MaxMessages :
        Chain(k, m)[i] = IF Chain(k, m)[i - 1] \in In(k)
                         THEN msgs[Chain(k, m)[i - 1]].parent ELSE None
  BY <1>1, <1>7
<1>10. QED
  BY <1>8, <1>9

\* The generations that grow from a set of messages.
Generations(down, k, S, kept) ==
  /\ down[0] = S
  /\ \A i \in 1 .. MaxMessages :
       down[i] = down[i - 1] \cup {c \in In(k) \ kept : msgs[c].parent \in down[i - 1]}

\* What grows from a set of messages is the last of its generations.
LEMMA GrownSteps ==
  ASSUME TypeOK, NEW k, NEW S \in SUBSET Ids, NEW kept
  PROVE  \E down : Generations(down, k, S, kept) /\ Grown(k, S, kept) = down[MaxMessages]
<1> DEFINE D == SUBSET Ids
           More(T) == {c \in In(k) \ kept : msgs[c].parent \in T}
           F(f) == [i \in 0 .. MaxMessages |->
                      IF i = 0 THEN S
                      ELSE LET T == f[i - 1] IN T \cup {c \in In(k) \ kept : msgs[c].parent \in T}]
           g == [q \in Nat \X D |-> q[2] \cup More(q[2])]
<1>1. S \in D /\ MaxMessages \in Nat
  BY BoundsAssumption
<1>2. g \in [Nat \X D -> D]
  <2>1. \A q \in Nat \X D : q[2] \in SUBSET Ids
    OBVIOUS
  <2>2. \A T : More(T) \subseteq Ids
    BY DEF TypeOK, In
  <2> HIDE DEF More
  <2>3. QED
    BY <2>1, <2>2
<1>3. \A q \in Nat \X D : g[q] = q[2] \cup More(q[2])
  OBVIOUS
<1> HIDE DEF g, D
<1>4. PICK f \in [0 .. MaxMessages -> D] : Follows(f, S, g, MaxMessages)
  BY <1>1, <1>2, Steps
<1>5. \A i \in 1 .. MaxMessages : g[<<i, f[i - 1]>>] = f[i - 1] \cup More(f[i - 1])
  <2>1. TAKE i \in 1 .. MaxMessages
  <2>2. <<i, f[i - 1]>> \in Nat \X D
    BY <1>1, <1>4
  <2>3. QED
    BY <1>3, <2>2
<1>6. f = F(f)
  <2>1. f = [i \in 0 .. MaxMessages |-> f[i]]
    BY <1>4
  <2>2. \A i \in 0 .. MaxMessages :
          f[i] = IF i = 0 THEN S
                 ELSE LET T == f[i - 1] IN T \cup {c \in In(k) \ kept : msgs[c].parent \in T}
    <3>1. f[0] = S /\ \A i \in 1 .. MaxMessages : f[i] = g[<<i, f[i - 1]>>]
      BY <1>4 DEF Follows
    <3>2. \A i \in 0 .. MaxMessages : i = 0 \/ i \in 1 .. MaxMessages
      BY <1>1
    <3>3. QED
      BY <3>1, <3>2, <1>5
  <2>3. QED
    BY <2>1, <2>2
<1>7. PICK down : down = F(down) /\ Grown(k, S, kept) = down[MaxMessages]
  <2> DEFINE d == CHOOSE x : x = F(x)
  <2>1. Grown(k, S, kept) = d[MaxMessages]
    BY DEF Grown
  <2>2. d = F(d)
    BY <1>6
  <2>3. QED
    BY <2>1, <2>2
<1>8. down[0] = S
  BY <1>1, <1>7
<1>9. \A i \in 1 .. MaxMessages :
        down[i] = down[i - 1] \cup {c \in In(k) \ kept : msgs[c].parent \in down[i - 1]}
  BY <1>1, <1>7
<1>10. QED
  BY <1>7, <1>8, <1>9 DEF Generations

\* The single pass for what hangs below a message.
Passes(pass, k, m) ==
  /\ pass[0] = {m}
  /\ \A i \in 1 .. MaxMessages :
       pass[i] = IF i \in In(k) /\ msgs[i].parent \in pass[i - 1]
                 THEN pass[i - 1] \cup {i} ELSE pass[i - 1]

\* What hangs below a message is the end of such a pass.
LEMMA BelowSteps ==
  ASSUME TypeOK, NEW k, NEW m \in Ids
  PROVE  \E pass : Passes(pass, k, m) /\ Below(k, m) = pass[MaxMessages]
<1> DEFINE D == SUBSET Ids
           F(f) == [i \in 0 .. MaxMessages |->
                      IF i = 0 THEN {m}
                      ELSE LET T == f[i - 1]
                           IN  IF i \in In(k) /\ msgs[i].parent \in T THEN T \cup {i} ELSE T]
           g == [q \in Nat \X D |-> IF q[1] \in In(k) /\ msgs[q[1]].parent \in q[2]
                                    THEN q[2] \cup {q[1]} ELSE q[2]]
<1>1. {m} \in D /\ MaxMessages \in Nat
  BY BoundsAssumption
<1>2. g \in [Nat \X D -> D]
  BY DEF TypeOK, In
<1>3. \A i \in Nat, T \in D : g[<<i, T>>] = IF i \in In(k) /\ msgs[i].parent \in T
                                              THEN T \cup {i} ELSE T
  OBVIOUS
<1> HIDE DEF g, D
<1>4. PICK f \in [0 .. MaxMessages -> D] : Follows(f, {m}, g, MaxMessages)
  BY <1>1, <1>2, Steps
<1>5. \A i \in 1 .. MaxMessages :
        g[<<i, f[i - 1]>>] = IF i \in In(k) /\ msgs[i].parent \in f[i - 1]
                             THEN f[i - 1] \cup {i} ELSE f[i - 1]
  <2>1. TAKE i \in 1 .. MaxMessages
  <2>2. i \in Nat /\ f[i - 1] \in D
    BY <1>1, <1>4
  <2>3. QED
    BY <1>3, <2>2
<1>6. f = F(f)
  <2>1. f = [i \in 0 .. MaxMessages |-> f[i]]
    BY <1>4
  <2>2. \A i \in 0 .. MaxMessages :
          f[i] = IF i = 0 THEN {m}
                 ELSE LET T == f[i - 1]
                      IN  IF i \in In(k) /\ msgs[i].parent \in T THEN T \cup {i} ELSE T
    <3>1. f[0] = {m} /\ \A i \in 1 .. MaxMessages : f[i] = g[<<i, f[i - 1]>>]
      BY <1>4 DEF Follows
    <3>2. \A i \in 0 .. MaxMessages : i = 0 \/ i \in 1 .. MaxMessages
      BY <1>1
    <3>3. QED
      BY <3>1, <3>2, <1>5
  <2>3. QED
    BY <2>1, <2>2
<1>7. PICK pass : pass = F(pass) /\ Below(k, m) = pass[MaxMessages]
  <2> DEFINE d == CHOOSE x : x = F(x)
  <2>1. Below(k, m) = d[MaxMessages]
    BY DEF Below
  <2>2. d = F(d)
    BY <1>6
  <2>3. QED
    BY <2>1, <2>2
<1>8. pass[0] = {m}
  BY <1>1, <1>7
<1>9. \A i \in 1 .. MaxMessages :
        pass[i] = IF i \in In(k) /\ msgs[i].parent \in pass[i - 1]
                  THEN pass[i - 1] \cup {i} ELSE pass[i - 1]
  <2>1. TAKE i \in 1 .. MaxMessages
  <2>2. i \in 0 .. MaxMessages /\ i # 0
    BY <1>1
  <2>3. F(pass)[i] = IF i \in In(k) /\ msgs[i].parent \in pass[i - 1]
                     THEN pass[i - 1] \cup {i} ELSE pass[i - 1]
    BY <2>2
  <2>4. QED
    BY <1>7, <2>3
<1>10. QED
  BY <1>7, <1>8, <1>9 DEF Passes

\* A message of the branch that is not its end has the next one above it.
LEMMA BranchChild ==
  ASSUME TypeOK, NEW k, NEW m \in Ids \cup {None}, NEW x \in Branch(k, m), x # m
  PROVE  \E y \in Branch(k, m) : msgs[y].parent = x
<1>1. MaxMessages \in Nat
  BY BoundsAssumption
<1>2. PICK i \in 0 .. MaxMessages : x = Chain(k, m)[i]
  BY DEF Branch
<1>3. i # 0 /\ i \in 1 .. MaxMessages /\ i - 1 \in 0 .. MaxMessages
  BY <1>1, <1>2, ChainSteps
<1>4. x \in In(k) /\ x # None
  BY <1>1 DEF Branch, In, TypeOK, Ids, None
<1>5. x = IF Chain(k, m)[i - 1] \in In(k) THEN msgs[Chain(k, m)[i - 1]].parent ELSE None
  BY <1>2, <1>3, ChainSteps
<1>6. Chain(k, m)[i - 1] \in In(k) /\ x = msgs[Chain(k, m)[i - 1]].parent
  BY <1>4, <1>5
<1>7. Chain(k, m)[i - 1] \in Branch(k, m)
  BY <1>3, <1>6 DEF Branch
<1>8. QED
  BY <1>6, <1>7

\* Sets that only grow from one step to the next only grow.
Grows(f, n) == \A i \in 1 .. n : f[i - 1] \subseteq f[i]

LEMMA Monotone ==
  ASSUME NEW n \in Nat, NEW f, Grows(f, n), NEW j \in 0 .. n, NEW i \in 0 .. j
  PROVE  f[i] \subseteq f[j]
<1> DEFINE bad == {l \in i .. n : ~ (f[i] \subseteq f[l])}
<1>1. SUFFICES ASSUME j \in bad PROVE FALSE
  OBVIOUS
<1>2. bad \subseteq Nat
  OBVIOUS
<1>3. PICK l \in bad : \A h \in bad : l <= h
  BY <1>1, <1>2, Least
<1>4. l # i /\ l \in 1 .. n /\ l - 1 \in i .. n
  BY <1>3
<1>5. l - 1 \notin bad
  BY <1>2, <1>3, <1>4
<1>6. f[i] \subseteq f[l - 1] /\ f[l - 1] \subseteq f[l]
  BY <1>4, <1>5 DEF Grows
<1>7. QED
  BY <1>3, <1>6

\* Everything that grows from S, and nothing else, is found.
LEMMA GrownIs ==
  ASSUME TypeOK, ParentOlder, NEW k, NEW S, S \subseteq In(k), NEW kept
  PROVE  /\ S \subseteq Grown(k, S, kept)
         /\ Grown(k, S, kept) \subseteq In(k)
         /\ \A x \in Grown(k, S, kept) :
              x \in S \/ (x \notin kept /\ msgs[x].parent \in Grown(k, S, kept))
         /\ \A c \in In(k) \ kept :
              msgs[c].parent \in Grown(k, S, kept) => c \in Grown(k, S, kept)
<1>1. MaxMessages \in Nat /\ In(k) \subseteq 1 .. MaxMessages /\ S \in SUBSET Ids
  BY BoundsAssumption DEF In, TypeOK, Ids
<1>2. PICK down : Generations(down, k, S, kept) /\ Grown(k, S, kept) = down[MaxMessages]
  BY <1>1, GrownSteps
<1>g. /\ down[0] = S
      /\ \A i \in 1 .. MaxMessages :
           down[i] = down[i - 1] \cup {c \in In(k) \ kept : msgs[c].parent \in down[i - 1]}
  BY <1>2 DEF Generations
<1>3. \A j \in 0 .. MaxMessages : \A i \in 0 .. j : down[i] \subseteq down[j]
  <2>1. Grows(down, MaxMessages)
    BY <1>g DEF Grows
  <2>2. QED
    BY <1>1, <2>1, Monotone
<1>4. \A j \in 0 .. MaxMessages : down[j] \subseteq In(k)
  <2> DEFINE bad == {j \in 0 .. MaxMessages : ~ (down[j] \subseteq In(k))}
  <2>1. SUFFICES ASSUME bad # {} PROVE FALSE
    OBVIOUS
  <2>n. bad \subseteq Nat
    OBVIOUS
  <2>2. PICK j \in bad : \A i \in bad : j <= i
    BY <2>1, <2>n, Least
  <2>3. j # 0 /\ j \in 1 .. MaxMessages /\ j - 1 \in 0 .. MaxMessages
    BY <1>1, <1>g, <2>2
  <2>4. j - 1 \notin bad
    BY <2>2, <2>3
  <2>5. QED
    BY <1>g, <2>2, <2>3, <2>4
<1>5. S \subseteq down[MaxMessages]
  BY <1>1, <1>g, <1>3
<1>6. \A x \in down[MaxMessages] :
        x \in S \/ (x \notin kept /\ msgs[x].parent \in down[MaxMessages])
  <2>1. TAKE x \in down[MaxMessages]
  <2> DEFINE at == {j \in 0 .. MaxMessages : x \in down[j]}
  <2>2. MaxMessages \in at
    BY <1>1
  <2>n. at \subseteq Nat /\ at # {}
    BY <2>2
  <2>3. PICK j \in at : \A i \in at : j <= i
    BY <2>n, Least
  <2>4. CASE j = 0
    BY <1>g, <2>3, <2>4
  <2>5. CASE j # 0
    <3>1. j \in 1 .. MaxMessages /\ j - 1 \in 0 .. MaxMessages
      BY <1>1, <2>3, <2>5
    <3>2. j - 1 \notin at
      BY <2>3, <3>1
    <3>3. x \in {c \in In(k) \ kept : msgs[c].parent \in down[j - 1]}
      BY <1>g, <2>3, <3>1, <3>2
    <3>4. down[j - 1] \subseteq down[MaxMessages]
      BY <1>1, <1>3, <3>1
    <3>5. QED
      BY <3>3, <3>4
  <2>6. QED
    BY <2>4, <2>5
<1>7. \A x \in down[MaxMessages] : x \in 1 .. MaxMessages /\ x \in down[x]
  <2> DEFINE bad == {x \in down[MaxMessages] : x \notin down[x]}
  <2>1. down[MaxMessages] \subseteq 1 .. MaxMessages
    BY <1>1, <1>4
  <2>2. SUFFICES ASSUME bad # {} PROVE FALSE
    BY <2>1
  <2>3. PICK x \in bad : \A y \in bad : x <= y
    <3>1. bad \subseteq Nat
      BY <2>1
    <3>2. QED
      BY <2>2, <3>1, Least
  <2>4. x \in 1 .. MaxMessages /\ x \in down[MaxMessages] /\ x \notin down[x]
    BY <2>1, <2>3
  <2>5. x \notin S
    BY <1>1, <1>g, <1>3, <2>4
  <2>6. x \notin kept /\ msgs[x].parent \in down[MaxMessages] /\ x \in In(k)
    BY <1>1, <1>4, <1>6, <2>4, <2>5
  <2> DEFINE p == msgs[x].parent
  <2>7. p \in down[MaxMessages] /\ p \in 1 .. MaxMessages /\ p < x
    BY <2>1, <2>6 DEF ParentOlder, In
  <2>8. p \in down[p]
    BY <2>3, <2>4, <2>7
  <2> HIDE DEF p
  <2>9. x - 1 \in 0 .. MaxMessages /\ p \in 0 .. x - 1
    BY <1>1, <2>4, <2>7
  <2>10. p \in down[x - 1]
    BY <1>3, <2>8, <2>9
  <2>11. QED
    BY <1>g, <2>4, <2>6, <2>10 DEF p
<1>8. \A c \in In(k) \ kept : msgs[c].parent \in down[MaxMessages] => c \in down[MaxMessages]
  <2>1. SUFFICES ASSUME NEW c \in In(k) \ kept, msgs[c].parent \in down[MaxMessages]
                 PROVE  c \in down[MaxMessages]
    OBVIOUS
  <2> DEFINE p == msgs[c].parent
  <2>2. c \in 1 .. MaxMessages /\ p \in 1 .. MaxMessages /\ p \in down[p] /\ p < c
    BY <1>1, <1>7, <2>1 DEF ParentOlder, In
  <2> HIDE DEF p
  <2>3. c - 1 \in 0 .. MaxMessages /\ p \in 0 .. c - 1 /\ MaxMessages \in 0 .. MaxMessages
    BY <1>1, <2>2
  <2>4. p \in down[c - 1]
    BY <1>3, <2>2, <2>3
  <2>5. c \in down[c]
    BY <1>g, <2>1, <2>2, <2>4 DEF p
  <2>6. c \in 0 .. MaxMessages
    BY <1>1, <2>2
  <2>7. QED
    BY <1>3, <2>3, <2>5, <2>6
<1>9. down[MaxMessages] \subseteq In(k)
  BY <1>1, <1>4
<1>10. QED
  BY <1>2, <1>5, <1>6, <1>8, <1>9

\* What hangs below a message is found in one pass, since children are newer.
LEMMA BelowIs ==
  ASSUME TypeOK, ParentOlder, NEW k, NEW m \in In(k)
  PROVE  /\ Below(k, m) \subseteq In(k)
         /\ \A x \in Below(k, m) : x = m \/ msgs[x].parent \in Below(k, m)
         /\ \A c \in In(k) : msgs[c].parent \in Below(k, m) => c \in Below(k, m)
<1>1. MaxMessages \in Nat /\ In(k) \subseteq 1 .. MaxMessages /\ m \in Ids
  BY BoundsAssumption DEF In, TypeOK, Ids
<1>2. PICK pass : Passes(pass, k, m) /\ Below(k, m) = pass[MaxMessages]
  BY <1>1, BelowSteps
<1>g. /\ pass[0] = {m}
      /\ \A i \in 1 .. MaxMessages :
           pass[i] = IF i \in In(k) /\ msgs[i].parent \in pass[i - 1]
                     THEN pass[i - 1] \cup {i} ELSE pass[i - 1]
  BY <1>2 DEF Passes
<1>3. \A j \in 0 .. MaxMessages : \A i \in 0 .. j : pass[i] \subseteq pass[j]
  <2>1. Grows(pass, MaxMessages)
    BY <1>g DEF Grows
  <2>2. QED
    BY <1>1, <2>1, Monotone
<1>4. \A j \in 0 .. MaxMessages : pass[j] \subseteq In(k)
  <2> DEFINE bad == {j \in 0 .. MaxMessages : ~ (pass[j] \subseteq In(k))}
  <2>1. SUFFICES ASSUME bad # {} PROVE FALSE
    OBVIOUS
  <2>n. bad \subseteq Nat
    OBVIOUS
  <2>2. PICK j \in bad : \A i \in bad : j <= i
    BY <2>1, <2>n, Least
  <2>3. j # 0 /\ j \in 1 .. MaxMessages /\ j - 1 \in 0 .. MaxMessages
    BY <1>1, <1>g, <2>2
  <2>4. j - 1 \notin bad
    BY <2>2, <2>3
  <2>5. QED
    BY <1>g, <2>2, <2>3, <2>4
<1>5. \A x \in pass[MaxMessages] :
        /\ x \in 1 .. MaxMessages /\ x \in pass[x]
        /\ x = m \/ msgs[x].parent \in pass[MaxMessages]
  <2>1. TAKE x \in pass[MaxMessages]
  <2> DEFINE at == {j \in 0 .. MaxMessages : x \in pass[j]}
  <2>2. MaxMessages \in at /\ x \in 1 .. MaxMessages
    BY <1>1, <1>4
  <2>n. at \subseteq Nat /\ at # {}
    BY <2>2
  <2>3. PICK j \in at : \A i \in at : j <= i
    BY <2>n, Least
  <2>4. CASE j = 0
    <3>1. x \in pass[0] /\ 0 \in 0 .. x /\ x \in 0 .. MaxMessages
      BY <1>1, <2>2, <2>3, <2>4
    <3>2. QED
      BY <1>g, <1>3, <2>2, <2>3, <2>4, <3>1
  <2>5. CASE j # 0
    <3>1. j \in 1 .. MaxMessages /\ j - 1 \in 0 .. MaxMessages
      BY <1>1, <2>3, <2>5
    <3>2. j - 1 \notin at
      BY <2>3, <3>1
    <3>3. x = j /\ msgs[x].parent \in pass[j - 1]
      BY <1>g, <2>3, <3>1, <3>2
    <3>4. pass[j - 1] \subseteq pass[MaxMessages]
      BY <1>1, <1>3, <3>1
    <3>5. QED
      BY <2>2, <2>3, <3>3, <3>4
  <2>6. QED
    BY <2>4, <2>5
<1>6. \A c \in In(k) : msgs[c].parent \in pass[MaxMessages] => c \in pass[MaxMessages]
  <2>1. SUFFICES ASSUME NEW c \in In(k), msgs[c].parent \in pass[MaxMessages]
                 PROVE  c \in pass[MaxMessages]
    OBVIOUS
  <2> DEFINE p == msgs[c].parent
  <2>2. c \in 1 .. MaxMessages /\ p \in 1 .. MaxMessages /\ p \in pass[p] /\ p < c
    BY <1>1, <1>5, <2>1 DEF ParentOlder, In
  <2> HIDE DEF p
  <2>3. c - 1 \in 0 .. MaxMessages /\ p \in 0 .. c - 1 /\ MaxMessages \in 0 .. MaxMessages
    BY <1>1, <2>2
  <2>4. p \in pass[c - 1]
    BY <1>3, <2>2, <2>3
  <2>5. c \in pass[c]
    BY <1>g, <2>1, <2>2, <2>4 DEF p
  <2>6. c \in 0 .. MaxMessages
    BY <1>1, <2>2
  <2>7. QED
    BY <1>3, <2>3, <2>5, <2>6
<1>7. pass[MaxMessages] \subseteq In(k)
  BY <1>1, <1>4
<1>8. QED
  BY <1>2, <1>5, <1>6, <1>7

\* The newest message below one ends a branch.
LEMMA NewestEnds ==
  ASSUME TypeOK, ParentOlder, NEW k, NEW m \in In(k), NEW n, Newest(Below(k, m), n)
  PROVE  n \in In(k) /\ Children(k, n) = {}
<1>1. n \in In(k) /\ n \in Below(k, m)
  BY BelowIs DEF Newest
<1>2. ASSUME NEW c \in Children(k, n) PROVE FALSE
  <2>1. c \in In(k) /\ msgs[c].parent = n
    BY <1>2 DEF Children
  <2>2. c \in Below(k, m)
    BY <1>1, <2>1, BelowIs
  <2>3. c <= n /\ n < c /\ c \in Nat /\ n \in Nat
    BY <1>1, <2>1, <2>2, BoundsAssumption DEF Newest, ParentOlder, In, TypeOK, Ids
  <2>4. QED
    BY <2>3
<1>3. QED
  BY <1>1, <1>2

\* Each step up the chain of parents is to an older message.
LEMMA ChainFalls ==
  ASSUME TypeOK, ParentOlder, NEW k, NEW m \in Ids \cup {None}, NEW i \in 0 .. MaxMessages,
         Chain(k, m)[i] \in In(k)
  PROVE  Chain(k, m)[i] + i <= MaxMessages
<1> DEFINE up == Chain(k, m)
           bad == {j \in 0 .. MaxMessages : up[j] \in In(k) /\ ~ (up[j] + j <= MaxMessages)}
<1>1. MaxMessages \in Nat /\ In(k) \subseteq 1 .. MaxMessages /\ None \notin In(k)
  BY BoundsAssumption DEF In, TypeOK, Ids, None
<1>2. /\ up[0] = m
      /\ \A j \in 1 .. MaxMessages : up[j] = IF up[j - 1] \in In(k) THEN msgs[up[j - 1]].parent ELSE None
  BY ChainSteps
<1> HIDE DEF up
<1>3. SUFFICES ASSUME i \in bad PROVE FALSE
  BY DEF up
<1>4. bad \subseteq Nat
  OBVIOUS
<1>5. PICK j \in bad : \A l \in bad : j <= l
  BY <1>3, <1>4, Least
<1>6. j # 0
  BY <1>1, <1>5
<1>7. j \in 1 .. MaxMessages /\ j - 1 \in 0 .. MaxMessages /\ j - 1 \notin bad
  <2>1. j \in 0 .. MaxMessages
    BY <1>5
  <2>2. j \in 1 .. MaxMessages /\ j - 1 \in 0 .. MaxMessages /\ ~ (j <= j - 1)
    BY <1>1, <1>6, <2>1
  <2>3. QED
    BY <1>5, <2>2
<1>8. up[j] \in In(k) /\ ~ (up[j] + j <= MaxMessages)
  BY <1>5
<1>9. up[j - 1] \in In(k) /\ up[j] = msgs[up[j - 1]].parent
  BY <1>1, <1>2, <1>7, <1>8
<1>10. up[j - 1] + (j - 1) <= MaxMessages /\ up[j] < up[j - 1]
  BY <1>7, <1>9 DEF ParentOlder, In
<1>11. up[j] \in Nat /\ up[j - 1] \in Nat /\ j \in Nat
  BY <1>1, <1>7, <1>8, <1>9
<1>12. QED
  BY <1>1, <1>8, <1>10, <1>11

\* What the messages of a branch hang on is on the branch.
LEMMA BranchClosed ==
  ASSUME TypeOK, ParentOlder, NEW k, NEW m \in Ids \cup {None}, NEW y \in Branch(k, m),
         msgs[y].parent \in In(k)
  PROVE  msgs[y].parent \in Branch(k, m)
<1>1. MaxMessages \in Nat /\ In(k) \subseteq 1 .. MaxMessages
  BY BoundsAssumption DEF In, TypeOK, Ids
<1>2. PICK i \in 0 .. MaxMessages : y = Chain(k, m)[i]
  BY DEF Branch
<1>3. y \in In(k)
  BY DEF Branch
<1>4. i + 1 \in 1 .. MaxMessages
  <2>1. y + i <= MaxMessages /\ y \in 1 .. MaxMessages
    BY <1>1, <1>2, <1>3, ChainFalls
  <2>2. QED
    BY <1>1, <1>2, <2>1
<1>5. Chain(k, m)[i + 1] = IF Chain(k, m)[(i + 1) - 1] \in In(k)
                           THEN msgs[Chain(k, m)[(i + 1) - 1]].parent ELSE None
  BY <1>4, ChainSteps
<1>6. (i + 1) - 1 = i /\ i + 1 \in 0 .. MaxMessages
  BY <1>1, <1>2, <1>4
<1>7. Chain(k, m)[i + 1] = msgs[y].parent
  BY <1>2, <1>3, <1>5, <1>6
<1>8. QED
  BY <1>6, <1>7 DEF Branch

\* The branch from m up to the first message of the chat.
BranchIs(k, m, B) ==
  /\ B \subseteq In(k)
  /\ m \in In(k) => m \in B
  /\ \A x \in B : msgs[x].parent \in In(k) => msgs[x].parent \in B
  /\ \A x \in B : x # m => \E y \in B : msgs[y].parent = x

LEMMA BranchHolds ==
  ASSUME TypeOK, ParentOlder, NEW k, NEW m \in Ids \cup {None}
  PROVE  BranchIs(k, m, Branch(k, m))
<1>1. Branch(k, m) \subseteq In(k)
  BY DEF Branch
<1>2. m \in In(k) => m \in Branch(k, m)
  <2>1. 0 \in 0 .. MaxMessages /\ Chain(k, m)[0] = m
    BY BoundsAssumption, ChainSteps
  <2>2. QED
    BY <2>1 DEF Branch
<1>3. QED
  BY <1>1, <1>2, BranchClosed, BranchChild DEF BranchIs

\* A message is on the branch of all that hangs below it.
LEMMA BelowBranch ==
  ASSUME TypeOK, ParentOlder, NEW k, NEW m \in In(k), NEW n \in Below(k, m)
  PROVE  m \in Branch(k, n)
<1> DEFINE Z == Branch(k, n) \cap Below(k, m)
<1>1. In(k) \subseteq Nat /\ n \in In(k) /\ n \in Ids \cup {None}
  BY BelowIs, BoundsAssumption DEF In, TypeOK, Ids
<1>2. n \in Z
  BY <1>1, BranchHolds DEF BranchIs
<1>3. Z \subseteq Nat
  BY <1>1, BelowIs
<1>4. PICK z \in Z : \A y \in Z : z <= y
  BY <1>2, <1>3, Least
<1>5. CASE z = m
  BY <1>4, <1>5
<1>6. CASE z # m
  <2>1. msgs[z].parent \in Below(k, m) /\ msgs[z].parent \in In(k) /\ z \in In(k)
    BY <1>4, <1>6, BelowIs
  <2>2. msgs[z].parent \in Z
    BY <1>1, <1>4, <2>1, BranchClosed
  <2>3. msgs[z].parent < z /\ z <= msgs[z].parent /\ z \in Nat /\ msgs[z].parent \in Nat
    BY <1>1, <1>4, <2>1, <2>2 DEF ParentOlder, In
  <2>4. QED
    BY <2>3
<1>7. QED
  BY <1>5, <1>6

-----------------------------------------------------------------------------
(* The tree that one tab grows *)

\* One tab, and no restart that loses a turn between its prompt and its reply.
Undisturbed == OneTab /\ MaxRestarts = 0

\* No chat was deleted under its messages.
Housed == \A m \in DOMAIN msgs : msgs[m].conv \in convs

\* A chat that is not empty has recorded the end of a branch.
LeafOk(k) ==
  \/ leaf[k] = None /\ In(k) = {}
  \/ leaf[k] \in In(k) /\ Children(k, leaf[k]) = {}

LeafHolds == \A k \in convs : LeafOk(k)

\* A prompt has an answer, or its request is about to add it.
Answered ==
  \A m \in DOMAIN msgs : msgs[m].role = "user" =>
    \/ Children(msgs[m].conv, m) # {}
    \/ \E r \in reqs : r.at = "reply" /\ r.parent = m

\* What a handler remembers of the tree is still so when it acts on it.
Remembers(r) ==
  /\ r.conv \in convs
  /\ r.at = "read" => r.target \in In(r.conv)
  /\ r.at = "read" /\ r.op = "retry" => msgs[r.target].role = "assistant"
  /\ r.at = "read" /\ r.op = "edit" => msgs[r.target].role = "user"
  /\ r.at = "user" /\ r.op = "edit" /\ r.parent # None
       => r.parent \in In(r.conv) /\ msgs[r.parent].role = "assistant"
  /\ r.at = "reply" => r.parent \in In(r.conv) /\ msgs[r.parent].role = "user"
  /\ r.at = "show" => r.parent \in In(r.conv) /\ Children(r.conv, r.parent) = {}
  /\ r.at \in {"check", "delete"} => r.target \in In(r.conv) /\ msgs[r.target].role = "user"

\* The invariant of the trees.
TreeInv ==
  /\ OneRequest
  /\ ParentOlder
  /\ ParentPresent
  /\ Alternates
  /\ Housed
  /\ LeafHolds
  /\ Answered
  /\ \A r \in reqs : Remembers(r)

-----------------------------------------------------------------------------
(* Deleting a turn *)

\* A set of naturals with a bound has a greatest member.
LEMMA Greatest ==
  ASSUME NEW n \in Nat, NEW T, T \subseteq 0 .. n, T # {}
  PROVE  \E x \in T : \A y \in T : y <= x
<1> DEFINE above == {i \in 0 .. n : \A y \in T : y <= i}
<1>1. n \in above /\ above \subseteq Nat
  OBVIOUS
<1>2. PICK x \in above : \A i \in above : x <= i
  <2>1. above # {}
    BY <1>1
  <2>2. QED
    BY <1>1, <2>1, Least
<1>3. x \in T
  <2>1. SUFFICES ASSUME x \notin T PROVE FALSE
    OBVIOUS
  <2>n. x \in 0 .. n /\ \A y \in T : y <= x /\ y \in 0 .. n /\ y # x
    BY <1>2, <2>1
  <2>2. \A y \in T : y <= x - 1 /\ y \in Nat
    <3>1. TAKE y \in T
    <3>2. y \in Int /\ x \in Int /\ y \in Nat /\ y <= x /\ y # x
      BY <2>n
    <3>3. QED
      BY <3>2
  <2>3. x - 1 \in 0 .. n
    <3>1. PICK y \in T : TRUE
      OBVIOUS
    <3>2. QED
      BY <2>n, <2>2, <3>1
  <2>4. QED
    BY <1>2, <2>2, <2>3
<1>4. QED
  BY <1>2, <1>3

\* The turn's versions go, with what grows from them outside of what is kept.
LEMMA DoomedIs ==
  ASSUME TypeOK, ParentOlder, NEW k, NEW p
  PROVE  /\ Versions(k, p) \subseteq Doomed(k, p)
         /\ Doomed(k, p) \subseteq In(k)
         /\ \A x \in Doomed(k, p) :
              x \in Versions(k, p) \/ (x \notin KeptNext(k, p) /\ msgs[x].parent \in Doomed(k, p))
         /\ \A c \in In(k) \ KeptNext(k, p) :
              msgs[c].parent \in Doomed(k, p) => c \in Doomed(k, p)
<1>1. Versions(k, p) \subseteq In(k)
  BY DEF Versions, Children
<1> DEFINE V == Versions(k, p)
           kept == KeptNext(k, p)
           G == Grown(k, V, kept)
<1>2. /\ V \subseteq G
      /\ G \subseteq In(k)
      /\ \A x \in G : x \in V \/ (x \notin kept /\ msgs[x].parent \in G)
      /\ \A c \in In(k) \ kept : msgs[c].parent \in G => c \in G
  BY <1>1, GrownIs
<1>3. Doomed(k, p) = G
  BY <1>2 DEF Doomed
<1> HIDE DEF V, kept, G
<1>4. QED
  BY <1>2, <1>3 DEF V, kept

\* What is kept followed a reply of the turn on the shown branch.
LEMMA KeptIs ==
  ASSUME NEW k, NEW p, NEW n \in KeptNext(k, p)
  PROVE  /\ n \in In(k)
         /\ msgs[n].parent \in In(k) \cap Branch(k, LeafOf(k))
         /\ msgs[msgs[n].parent].parent \in Versions(k, p)
BY DEF KeptNext, Replies, Children

\* What goes is newer than what the turn hangs on.
LEMMA DoomedNewer ==
  ASSUME TypeOK, ParentOlder, NEW k, NEW p \in In(k), NEW x \in Doomed(k, p)
  PROVE  msgs[p].parent < x
<1> DEFINE up == msgs[p].parent
           bad == {y \in Doomed(k, p) : ~ (up < y)}
<1>1. Doomed(k, p) \subseteq Nat /\ up \in Nat /\ \A y \in In(k) : msgs[y].parent \in Nat
  BY DoomedIs, BoundsAssumption DEF In, TypeOK, Ids, None, Row
<1>2. SUFFICES ASSUME x \in bad PROVE FALSE
  OBVIOUS
<1>3. PICK y \in bad : \A z \in bad : y <= z
  <2>1. bad \subseteq Nat /\ bad # {}
    BY <1>1, <1>2
  <2>2. QED
    BY <2>1, Least
<1>4. y \in Doomed(k, p) /\ y \in In(k) /\ msgs[y].parent < y /\ ~ (up < y)
  BY <1>3, DoomedIs DEF ParentOlder, In
<1>5. CASE y \in Versions(k, p)
  BY <1>4, <1>5 DEF Versions, Children
<1>6. CASE msgs[y].parent \in Doomed(k, p)
  <2>1. msgs[y].parent \notin bad
    BY <1>1, <1>3, <1>4, <1>6
  <2>2. QED
    BY <1>1, <1>4, <1>6, <2>1
<1>7. QED
  BY <1>4, <1>5, <1>6, DoomedIs

\* What followed the shown reply stays, newer than the turn.
LEMMA KeptStays ==
  ASSUME TypeOK, ParentOlder, NEW k, NEW p \in In(k), NEW n \in KeptNext(k, p)
  PROVE  /\ n \notin Doomed(k, p)
         /\ msgs[p].parent < msgs[n].parent
         /\ msgs[p].parent < n
<1> DEFINE up == msgs[p].parent
           r == msgs[n].parent
           v == msgs[r].parent
<1>1. n \in In(k) /\ r \in In(k) /\ v \in Versions(k, p)
  BY KeptIs
<1>2. v \in In(k) /\ msgs[v].parent = up
  BY <1>1 DEF Versions, Children
<1>3. r < n /\ v < r /\ up < v
  BY <1>1, <1>2 DEF ParentOlder, In
<1>4. up \in Nat /\ v \in Nat /\ r \in Nat /\ n \in Nat
  BY <1>1, <1>2, BoundsAssumption DEF In, TypeOK, Ids, None, Row
<1>5. up < r /\ up < n
  BY <1>3, <1>4
<1>6. n \notin Versions(k, p)
  BY <1>4, <1>5 DEF Versions, Children
<1>7. n \notin Doomed(k, p)
  BY <1>6, DoomedIs
<1>8. QED
  BY <1>5, <1>7

\* A chat that is not empty shows the leaf it has recorded.
LEMMA ShownIs ==
  ASSUME TypeOK, LeafHolds, NEW k \in convs
  PROVE  /\ \A m : ShownLeaf(k, m) <=> m = leaf[k]
         /\ LeafOf(k) = leaf[k]
         /\ leaf[k] \in Ids \cup {None}
<1>1. leaf[k] \in Ids \cup {None}
  BY DEF TypeOK
<1>2. None \notin DOMAIN msgs /\ \A m \in In(k) : m \in DOMAIN msgs
  BY BoundsAssumption DEF TypeOK, Ids, None, In
<1>3. \A m : ShownLeaf(k, m) <=> m = leaf[k]
  BY <1>1, <1>2 DEF ShownLeaf, LeafHolds, LeafOk, Newest
<1>4. QED
  BY <1>1, <1>3 DEF LeafOf

\* If the shown leaf goes, nothing followed the turn's shown reply.
LEMMA LeafGoes ==
  ASSUME TypeOK, ParentOlder, LeafHolds, NEW k \in convs, NEW p \in In(k),
         leaf[k] \in Doomed(k, p)
  PROVE  KeptNext(k, p) = {}
<1> DEFINE up == msgs[p].parent
           B == Branch(k, leaf[k])
           X == {x \in B : x \notin Doomed(k, p) /\ up < x}
<1>1. LeafOf(k) = leaf[k] /\ leaf[k] \in Ids \cup {None}
  BY ShownIs
<1>2. leaf[k] \in In(k) /\ Children(k, leaf[k]) = {}
  BY DoomedIs, BoundsAssumption DEF LeafHolds, LeafOk, In, TypeOK, Ids, None
<1>3. MaxMessages \in Nat /\ up \in Nat /\ In(k) \subseteq 0 .. MaxMessages /\ B \subseteq In(k)
  BY BoundsAssumption DEF In, TypeOK, Ids, None, Row, Branch
<1>4. SUFFICES ASSUME NEW n \in KeptNext(k, p) PROVE FALSE
  OBVIOUS
<1> DEFINE r == msgs[n].parent
<1>5. n \in In(k) /\ r \in In(k) /\ r \in B
  BY <1>1, KeptIs
<1>6. r # leaf[k]
  BY <1>2, <1>5 DEF Children
<1>7. PICK y \in B : msgs[y].parent = r
  BY <1>1, <1>5, <1>6, BranchChild
<1>8. y \in KeptNext(k, p)
  <2>1. y \in Children(k, r)
    BY <1>3, <1>7 DEF Children
  <2>2. r \in Replies(k, p) \cap Branch(k, LeafOf(k))
    BY <1>1, <1>5, KeptIs DEF Replies, Children
  <2>3. QED
    BY <2>1, <2>2 DEF KeptNext
<1>9. y \in X
  BY <1>7, <1>8, KeptStays
<1>10. PICK x \in X : \A z \in X : z <= x
  <2>1. X \subseteq 0 .. MaxMessages /\ X # {}
    BY <1>3, <1>9
  <2>2. QED
    BY <1>3, <2>1, Greatest
<1>11. x \in B /\ x \notin Doomed(k, p) /\ up < x /\ x # leaf[k]
  BY <1>10
<1>12. PICK z \in B : msgs[z].parent = x
  BY <1>1, <1>11, BranchChild
<1>13. z \in In(k) /\ x < z /\ x \in Nat /\ z \in Nat
  BY <1>3, <1>11, <1>12 DEF ParentOlder, In
<1>14. z \in Doomed(k, p)
  <2>1. z \notin X /\ up < z
    BY <1>3, <1>10, <1>11, <1>13
  <2>2. QED
    BY <1>12, <2>1
<1>15. z \in Versions(k, p)
  BY <1>11, <1>12, <1>14, DoomedIs
<1>16. up = x
  BY <1>12, <1>15 DEF Versions, Children
<1>17. QED
  BY <1>3, <1>11, <1>16

\* What removing a turn leaves of the table.
LEMMA PrunedRows ==
  ASSUME TypeOK, NEW k, NEW p \in In(k), Prune(k, p)
  PROVE  /\ DOMAIN msgs' = DOMAIN msgs \ Doomed(k, p)
         /\ \A m \in DOMAIN msgs' :
              /\ msgs'[m].conv = msgs[m].conv
              /\ msgs'[m].role = msgs[m].role
              /\ msgs'[m].parent = IF m \in KeptNext(k, p) THEN msgs[p].parent ELSE msgs[m].parent
         /\ \A j : In(j)' = In(j) \ Doomed(k, p)
         /\ leaf' = IF k \in convs /\ leaf[k] \in Doomed(k, p)
                    THEN [leaf EXCEPT ![k] = msgs[p].parent] ELSE leaf
<1> DEFINE up == msgs[p].parent
           gone == Doomed(k, p)
           kept == KeptNext(k, p)
<1>1. /\ msgs' = [m \in DOMAIN msgs \ gone |->
                    IF m \in kept THEN [msgs[m] EXCEPT !.parent = up] ELSE msgs[m]]
      /\ leaf' = IF k \in convs /\ leaf[k] \in gone THEN [leaf EXCEPT ![k] = up] ELSE leaf
  BY DEF Prune
<1> HIDE DEF gone, kept, up
<1>2. /\ DOMAIN msgs' = DOMAIN msgs \ gone
      /\ \A m \in DOMAIN msgs' : msgs'[m] = IF m \in kept THEN [msgs[m] EXCEPT !.parent = up] ELSE msgs[m]
  BY <1>1
<1>3. \A m \in DOMAIN msgs' :
        /\ msgs'[m].conv = msgs[m].conv
        /\ msgs'[m].role = msgs[m].role
        /\ msgs'[m].parent = IF m \in kept THEN up ELSE msgs[m].parent
  BY <1>2 DEF TypeOK, Row
<1>4. \A j : In(j)' = In(j) \ gone
  BY <1>2, <1>3 DEF In
<1>5. QED
  BY <1>1, <1>2, <1>3, <1>4 DEF gone, kept, up

\* The turn that is removed: a prompt of an existing chat.
TurnOf(k, p) == k \in convs /\ p \in In(k) /\ msgs[p].role = "user"

\* What a message hangs on survives with it.
LEMMA PrunedParents ==
  ASSUME TypeOK, ParentOlder, ParentPresent, NEW k, NEW p, TurnOf(k, p), Prune(k, p)
  PROVE  ParentOlder' /\ ParentPresent'
<1> DEFINE up == msgs[p].parent
           gone == Doomed(k, p)
           kept == KeptNext(k, p)
<1>1. p \in In(k)
  BY DEF TurnOf
<1>2. /\ DOMAIN msgs' = DOMAIN msgs \ gone
      /\ \A m \in DOMAIN msgs' :
           /\ msgs'[m].conv = msgs[m].conv
           /\ msgs'[m].parent = IF m \in kept THEN up ELSE msgs[m].parent
      /\ \A j : In(j)' = In(j) \ gone
  BY <1>1, PrunedRows, ZenonT(40)
<1>3. \A m \in kept : m \in In(k) /\ up < m
  BY <1>1, KeptIs, KeptStays
<1>4. up \notin gone
  <2>1. SUFFICES ASSUME up \in gone PROVE FALSE
    OBVIOUS
  <2>2. up < up /\ up \in Nat
    BY <1>1, <2>1, DoomedNewer, BoundsAssumption DEF In, TypeOK, Row, Ids, None
  <2>3. QED
    BY <2>2
<1>5. up = None \/ up \in In(k)
  BY <1>1 DEF ParentPresent, In
<1>6. \A c \in In(k) \ kept : msgs[c].parent \in gone => c \in gone
  BY DoomedIs
<1>7. gone \subseteq In(k)
  BY DoomedIs
<1> HIDE DEF up, gone, kept
<1>8. ParentOlder'
  BY <1>2, <1>3 DEF ParentOlder
<1>9. ParentPresent'
  <2>1. SUFFICES ASSUME NEW m \in DOMAIN msgs', msgs'[m].parent # None
                 PROVE  /\ msgs'[m].parent \in DOMAIN msgs'
                        /\ msgs'[msgs'[m].parent].conv = msgs'[m].conv
    BY DEF ParentPresent, In
  <2>2. CASE m \in kept
    <3>1. m \in In(k) /\ msgs'[m].parent = up /\ up \in In(k) /\ up \notin gone
      BY <1>2, <1>3, <1>4, <1>5, <2>1, <2>2
    <3>2. QED
      BY <1>2, <2>1, <3>1 DEF In
  <2>3. CASE m \notin kept
    <3>1. m \in DOMAIN msgs \ gone /\ msgs'[m].parent = msgs[m].parent /\ msgs'[m].conv = msgs[m].conv
      BY <1>2, <2>1, <2>3
    <3>2. msgs[m].parent \in In(msgs[m].conv)
      BY <2>1, <3>1 DEF ParentPresent
    <3>3. msgs[m].parent \notin gone
      <4>1. SUFFICES ASSUME msgs[m].parent \in gone PROVE FALSE
        OBVIOUS
      <4>2. m \in In(k)
        BY <1>7, <3>1, <3>2, <4>1 DEF In
      <4>3. QED
        BY <1>6, <2>3, <3>1, <4>1, <4>2
    <3>4. QED
      BY <1>2, <3>1, <3>2, <3>3 DEF In
  <2>4. QED
    BY <2>2, <2>3
<1>10. QED
  BY <1>8, <1>9

\* What is kept are prompts, and hangs on replies.
LEMMA KeptArePrompts ==
  ASSUME TypeOK, ParentPresent, Alternates, NEW k, NEW p, NEW n \in KeptNext(k, p)
  PROVE  msgs[n].role = "user" /\ msgs[msgs[n].parent].role = "assistant"
<1> DEFINE r == msgs[n].parent
           v == msgs[r].parent
<1>1. n \in In(k) /\ r \in In(k) /\ v \in Versions(k, p)
  BY KeptIs
<1>2. v \in In(k) /\ msgs[v].role = "user"
  BY <1>1 DEF Versions, Children
<1>3. None \notin DOMAIN msgs /\ \A m \in DOMAIN msgs : msgs[m].role \in {"user", "assistant"}
  BY BoundsAssumption DEF TypeOK, Ids, None, Row
<1>4. r # None /\ v # None /\ n \in DOMAIN msgs /\ r \in DOMAIN msgs /\ v \in DOMAIN msgs
  BY <1>1, <1>2, <1>3 DEF In
<1>5. msgs[v].role # msgs[r].role /\ msgs[r].role # msgs[n].role
  BY <1>4 DEF Alternates
<1>6. QED
  BY <1>2, <1>3, <1>4, <1>5

\* Prompts and replies go on alternating.
LEMMA PrunedAlternates ==
  ASSUME TypeOK, ParentOlder, ParentPresent, Alternates, NEW k, NEW p, TurnOf(k, p), Prune(k, p)
  PROVE  Alternates'
<1> DEFINE up == msgs[p].parent
           gone == Doomed(k, p)
           kept == KeptNext(k, p)
<1>1. p \in In(k) /\ p \in DOMAIN msgs /\ msgs[p].role = "user"
  BY DEF TurnOf, In
<1>2. /\ DOMAIN msgs' = DOMAIN msgs \ gone
      /\ \A m \in DOMAIN msgs' :
           /\ msgs'[m].role = msgs[m].role
           /\ msgs'[m].parent = IF m \in kept THEN up ELSE msgs[m].parent
  BY <1>1, PrunedRows, ZenonT(40)
<1>3. \A m \in kept : msgs[m].role = "user"
  BY KeptArePrompts
<1>4. up \in DOMAIN msgs => msgs[up].role # "user"
  <2>1. None \notin DOMAIN msgs
    BY BoundsAssumption DEF TypeOK, Ids, None
  <2>2. QED
    BY <1>1, <2>1 DEF Alternates
<1> HIDE DEF up, gone, kept
<1>5. SUFFICES ASSUME NEW m \in DOMAIN msgs'
               PROVE  IF msgs'[m].parent = None THEN msgs'[m].role = "user"
                      ELSE msgs'[m].parent \in DOMAIN msgs' => msgs'[msgs'[m].parent].role # msgs'[m].role
  BY DEF Alternates
<1>6. CASE m \in kept
  BY <1>2, <1>3, <1>4, <1>5, <1>6
<1>7. CASE m \notin kept
  BY <1>2, <1>5, <1>7 DEF Alternates
<1>8. QED
  BY <1>6, <1>7

\* The shown branch still ends where nothing follows.
LEMMA PrunedLeaf ==
  ASSUME TypeOK, ParentOlder, ParentPresent, Alternates, LeafHolds, Housed,
         NEW k, NEW p, TurnOf(k, p), Prune(k, p), UNCHANGED convs
  PROVE  LeafHolds'
<1> DEFINE up == msgs[p].parent
           gone == Doomed(k, p)
           kept == KeptNext(k, p)
<1>1. k \in Convs /\ k \in convs /\ p \in In(k) /\ p \in DOMAIN msgs /\ msgs[p].role = "user"
  BY DEF TurnOf, In, TypeOK
<1>2. /\ DOMAIN msgs' = DOMAIN msgs \ gone
      /\ \A m \in DOMAIN msgs' :
           /\ msgs'[m].conv = msgs[m].conv
           /\ msgs'[m].role = msgs[m].role
           /\ msgs'[m].parent = IF m \in kept THEN up ELSE msgs[m].parent
      /\ \A j : In(j)' = In(j) \ gone
      /\ leaf' = IF k \in convs /\ leaf[k] \in gone THEN [leaf EXCEPT ![k] = up] ELSE leaf
  BY <1>1, PrunedRows
<1>3. /\ gone \subseteq In(k) /\ kept \subseteq In(k)
      /\ \A c \in In(k) \ kept : msgs[c].parent \in gone => c \in gone
      /\ \A c \in Children(k, up) : msgs[c].role = "user" => c \in gone
      /\ up \notin gone
  <2>1. up \notin gone
    <3>1. SUFFICES ASSUME up \in gone PROVE FALSE
      OBVIOUS
    <3>2. up < up /\ up \in Nat
      BY <1>1, <3>1, DoomedNewer, BoundsAssumption DEF In, TypeOK, Row, Ids, None
    <3>3. QED
      BY <3>2
  <2>2. kept \subseteq In(k)
    BY KeptIs
  <2>3. \A c \in Children(k, up) : msgs[c].role = "user" => c \in gone
    BY DoomedIs DEF Versions
  <2>4. QED
    BY <2>1, <2>2, <2>3, DoomedIs
<1>4. up = None \/ up \in In(k)
  BY <1>1 DEF ParentPresent, In
<1>5. \A c \in Children(k, up) : c \in gone
  <2>1. TAKE c \in Children(k, up)
  <2>2. c \in DOMAIN msgs /\ msgs[c].parent = up /\ msgs[c].role \in {"user", "assistant"}
    BY DEF Children, In, TypeOK, Row
  <2>3. None \notin DOMAIN msgs
    BY BoundsAssumption DEF TypeOK, Ids, None
  <2>4. up # None => msgs[up].role # "user" /\ msgs[up].role \in {"user", "assistant"} /\ up \in DOMAIN msgs
    BY <1>1, <1>4 DEF Alternates, In, TypeOK, Row
  <2>5. msgs[c].role = "user"
    BY <2>2, <2>4 DEF Alternates
  <2>6. QED
    BY <1>3, <2>5
<1>6. \A j : j # k => In(j)' = In(j) /\ \A m \in In(j) : msgs'[m].parent = msgs[m].parent
  BY <1>2, <1>3 DEF In
<1>7. ASSUME NEW j \in convs, j # k
      PROVE  LeafOk(j)'
  <2>1. leaf'[j] = leaf[j]
    BY <1>2, <1>7 DEF TypeOK
  <2>2. Children(j, leaf[j])' = Children(j, leaf[j])
    BY <1>6, <1>7, <2>1 DEF Children
  <2>3. QED
    BY <1>6, <1>7, <2>1, <2>2 DEF LeafHolds, LeafOk
<1>8. LeafOk(k)'
  <2>1. CASE leaf[k] \in gone
    <3>1. kept = {}
      BY <1>1, <2>1, LeafGoes
    <3>2. leaf'[k] = up
      BY <1>1, <1>2, <2>1 DEF TypeOK
    <3>3. \A m \in In(k)' : m \in In(k) /\ m \notin gone /\ msgs'[m].parent = msgs[m].parent
      BY <1>2, <3>1 DEF In
    <3>4. CASE up = None
      <4>1. In(k)' = {}
        <5>1. SUFFICES ASSUME In(k)' # {} PROVE FALSE
          OBVIOUS
        <5>2. In(k)' \subseteq Nat
          BY <3>3, BoundsAssumption DEF In, TypeOK, Ids
        <5>3. PICK m \in In(k)' : \A n \in In(k)' : m <= n
          BY <5>1, <5>2, Least
        <5>4. m \in In(k) /\ m \notin gone /\ m \in DOMAIN msgs /\ msgs[m].conv = k
          BY <3>3, <5>3 DEF In
        <5>5. msgs[m].parent # None
          BY <1>5, <3>4, <5>4 DEF Children
        <5>6. msgs[m].parent \in In(k) /\ msgs[m].parent < m
          BY <5>4, <5>5 DEF ParentPresent, ParentOlder
        <5>7. msgs[m].parent \in gone
          <6>1. SUFFICES ASSUME msgs[m].parent \notin gone PROVE FALSE
            OBVIOUS
          <6>2. msgs[m].parent \in In(k)'
            BY <1>2, <5>6, <6>1
          <6>3. m <= msgs[m].parent /\ m \in Nat /\ msgs[m].parent \in Nat
            BY <5>2, <5>3, <6>2
          <6>4. QED
            BY <5>6, <6>3
        <5>8. QED
          BY <1>3, <3>1, <5>4, <5>7
      <4>2. QED
        BY <3>2, <3>4, <4>1 DEF LeafOk
    <3>5. CASE up \in In(k)
      <4>1. up \in In(k)'
        BY <1>2, <1>3, <3>5
      <4>2. \A m \in In(k)' : msgs'[m].parent # up
        BY <1>5, <3>3 DEF Children
      <4>3. Children(k, leaf[k])' = {}
        BY <3>2, <4>2 DEF Children
      <4>4. QED
        BY <3>2, <4>1, <4>3 DEF LeafOk
    <3>6. QED
      BY <1>4, <3>4, <3>5
  <2>2. CASE leaf[k] \notin gone
    <3>1. leaf'[k] = leaf[k] /\ leaf[k] \in In(k) /\ Children(k, leaf[k]) = {}
      BY <1>1, <1>2, <2>2 DEF LeafHolds, LeafOk
    <3>2. leaf[k] # up
      BY <1>1, <3>1 DEF Children
    <3>3. leaf[k] \in In(k)'
      BY <1>2, <2>2, <3>1
    <3>4. \A m \in In(k)' : m \in In(k) /\ msgs'[m].parent \in {up, msgs[m].parent}
      BY <1>2 DEF In
    <3>5. \A m \in In(k)' : msgs'[m].parent # leaf[k]
      BY <3>1, <3>2, <3>4 DEF Children
    <3>6. Children(k, leaf[k])' = {}
      BY <3>1, <3>5 DEF Children
    <3>7. QED
      BY <3>1, <3>3, <3>6 DEF LeafOk
  <2>3. QED
    BY <2>1, <2>2
<1>9. \A j \in convs' : j = k \/ (j \in convs /\ j # k)
  OBVIOUS
<1>10. QED
  BY <1>7, <1>8, <1>9 DEF LeafHolds

\* Every prompt that stays keeps an answer.
LEMMA PrunedAnswers ==
  ASSUME TypeOK, ParentOlder, ParentPresent, Alternates, NEW k, NEW p, TurnOf(k, p), Prune(k, p),
         NEW m \in DOMAIN msgs', msgs'[m].role = "user", Children(msgs[m].conv, m) # {}
  PROVE  Children(msgs[m].conv, m)' # {}
<1> DEFINE up == msgs[p].parent
           gone == Doomed(k, p)
           kept == KeptNext(k, p)
<1>1. p \in In(k) /\ p \in DOMAIN msgs /\ msgs[p].role = "user"
  BY DEF TurnOf, In
<1>2. /\ DOMAIN msgs' = DOMAIN msgs \ gone
      /\ \A n \in DOMAIN msgs' :
           /\ msgs'[n].conv = msgs[n].conv
           /\ msgs'[n].role = msgs[n].role
           /\ msgs'[n].parent = IF n \in kept THEN up ELSE msgs[n].parent
      /\ \A j : In(j)' = In(j) \ gone
  BY <1>1, PrunedRows
<1>3. m \in DOMAIN msgs /\ m \notin gone /\ msgs[m].role = "user" /\ msgs'[m].conv = msgs[m].conv
  BY <1>2
<1>4. PICK c \in In(msgs[m].conv) : msgs[c].parent = m
  BY DEF Children
<1>5. c \notin kept
  BY <1>3, <1>4, KeptArePrompts
<1>6. c \notin gone
  <2>1. SUFFICES ASSUME c \in gone PROVE FALSE
    OBVIOUS
  <2>2. CASE c \in Versions(k, p)
    <3>1. m = up
      BY <1>4, <2>2 DEF Versions, Children
    <3>2. None \notin DOMAIN msgs
      BY BoundsAssumption DEF TypeOK, Ids, None
    <3>3. QED
      BY <1>1, <1>3, <3>1, <3>2 DEF Alternates
  <2>3. CASE msgs[c].parent \in gone
    BY <1>3, <1>4, <2>3
  <2>4. QED
    BY <2>1, <2>2, <2>3, DoomedIs
<1>7. c \in DOMAIN msgs' /\ msgs'[c].conv = msgs'[m].conv /\ msgs'[c].parent = m
  BY <1>2, <1>3, <1>4, <1>5, <1>6 DEF In
<1>8. QED
  BY <1>7 DEF Children, In

-----------------------------------------------------------------------------
(* Every step keeps the trees *)

\* The tables are trees of alternating messages, each with a branch recorded.
Shape == ParentOlder /\ ParentPresent /\ Alternates /\ Housed /\ LeafHolds

\* A step that leaves the tree's rows and leaves alone.
SameTree ==
  /\ DOMAIN msgs' = DOMAIN msgs
  /\ \A m \in DOMAIN msgs : /\ msgs'[m].conv = msgs[m].conv
                            /\ msgs'[m].parent = msgs[m].parent
                            /\ msgs'[m].role = msgs[m].role
  /\ UNCHANGED <<leaf, convs>>

LEMMA SameTreeSame ==
  ASSUME SameTree
  PROVE  /\ \A k : In(k)' = In(k)
         /\ \A k, m : Children(k, m)' = Children(k, m)
<1>1. \A k : In(k)' = In(k)
  BY DEF SameTree, In
<1>2. \A k, m : Children(k, m)' = Children(k, m)
  BY <1>1 DEF SameTree, Children, In
<1>3. QED
  BY <1>1, <1>2

LEMMA SameTreeShape ==
  ASSUME TypeOK, Shape, SameTree
  PROVE  Shape'
<1>1. /\ \A k : In(k)' = In(k)
      /\ \A k, m : Children(k, m)' = Children(k, m)
  BY SameTreeSame
<1>2. ParentOlder' /\ Housed'
  BY DEF SameTree, Shape, ParentOlder, Housed
<1>3. ParentPresent'
  BY DEF SameTree, Shape, ParentPresent, In
<1>4. Alternates'
  BY DEF SameTree, Shape, Alternates
<1>5. LeafHolds'
  <2>1. SUFFICES ASSUME NEW k \in convs PROVE LeafOk(k)'
    BY DEF SameTree, LeafHolds
  <2>2. LeafOk(k) /\ leaf' = leaf
    BY DEF SameTree, Shape, LeafHolds
  <2>3. QED
    BY <1>1, <2>2 DEF LeafOk
<1>6. QED
  BY <1>2, <1>3, <1>4, <1>5 DEF Shape

\* Where a message of this role may hang.
MayHang(k, role, p) ==
  IF p = None THEN role = "user" ELSE p \in In(k) /\ msgs[p].role # role

\* A message that hangs on a message of its chat, of the other role, keeps the trees.
LEMMA AddedTree ==
  ASSUME TypeOK, Shape, NEW k \in convs, NEW m \in Ids, NEW role \in {"user", "assistant"},
         NEW p \in Ids \cup {None}, NEW status, AddMessage(k, m, role, p, status), UNCHANGED convs,
         MayHang(k, role, p)
  PROVE  /\ Shape'
         /\ m \in In(k)' /\ msgs'[m].role = role /\ msgs'[m].parent = p /\ msgs'[m].conv = k
         /\ m \notin DOMAIN msgs /\ DOMAIN msgs' = DOMAIN msgs \cup {m}
         /\ \A n \in DOMAIN msgs : msgs'[n] = msgs[n]
<1>1. m \notin DOMAIN msgs /\ DOMAIN msgs' = DOMAIN msgs \cup {m} /\ k \in Convs
  BY NewRow DEF TypeOK
<1>2. \A n \in DOMAIN msgs : msgs'[n] = msgs[n]
  BY NewRow
<1>3. msgs'[m].role = role /\ msgs'[m].parent = p /\ msgs'[m].conv = k
  BY DEF AddMessage
<1>4. \A j : In(j)' = IF j = k THEN In(k) \cup {m} ELSE In(j)
  BY <1>1, <1>2, <1>3 DEF In
<1>5. leaf' = [leaf EXCEPT ![k] = m]
  BY DEF AddMessage
<1>6. \A n \in DOMAIN msgs : n < m
  BY DEF AddMessage, NextId
<1>7. m # None /\ m \in Nat /\ None \notin DOMAIN msgs
  BY BoundsAssumption DEF Ids, None, TypeOK
<1>h. IF p = None THEN role = "user" ELSE p \in In(k) /\ msgs[p].role # role
  BY DEF MayHang
<1>8. p < m /\ p # m
  BY <1>h, <1>1, <1>6, <1>7 DEF In, None, Ids
<1>9. \A n \in DOMAIN msgs : msgs[n].parent # m
  BY <1>1, <1>7 DEF Shape, ParentPresent, In
<1>10. ParentOlder'
  BY <1>1, <1>2, <1>3, <1>8 DEF Shape, ParentOlder
<1>11. ParentPresent'
  BY <1>h, <1>1, <1>2, <1>3 DEF Shape, ParentPresent, In
<1>12. Alternates'
  BY <1>h, <1>1, <1>2, <1>3, <1>9 DEF Shape, Alternates, In
<1>13. Housed'
  BY <1>1, <1>2, <1>3 DEF Shape, Housed
<1>14. \A j : Children(j, m)' = {}
  <2>1. \A n \in DOMAIN msgs' : msgs'[n].parent # m
    BY <1>1, <1>2, <1>3, <1>8, <1>9
  <2>2. QED
    BY <2>1 DEF Children, In
<1>15. LeafHolds'
  <2>1. SUFFICES ASSUME NEW j \in convs PROVE LeafOk(j)'
    BY DEF LeafHolds
  <2>2. CASE j = k
    <3>1. leaf'[k] = m
      BY <1>1, <1>5 DEF TypeOK
    <3>2. Children(k, leaf[k])' = {}
      BY <1>14, <3>1 DEF Children
    <3>3. QED
      BY <1>4, <2>2, <3>1, <3>2 DEF LeafOk
  <2>3. CASE j # k
    <3>1. leaf'[j] = leaf[j] /\ LeafOk(j) /\ In(j)' = In(j)
      BY <1>4, <1>5, <2>3 DEF TypeOK, Shape, LeafHolds
    <3>2. Children(j, leaf[j])' = Children(j, leaf[j])
      BY <1>2, <3>1 DEF Children, In
    <3>3. QED
      BY <3>1, <3>2 DEF LeafOk
  <2>4. QED
    BY <2>2, <2>3
<1>16. QED
  BY <1>1, <1>2, <1>3, <1>4, <1>10, <1>11, <1>12, <1>13, <1>15 DEF Shape

\* A chat that goes takes its whole tree along.
LEMMA DeletedTree ==
  ASSUME TypeOK, Shape, Answered, reqs = {}, NEW c \in Clients, NEW k \in Convs, DeleteConv(c, k)
  PROVE  Shape' /\ Answered'
<1>1. /\ DOMAIN msgs' = DOMAIN msgs \ In(k)
      /\ \A m \in DOMAIN msgs' : msgs'[m] = msgs[m] /\ msgs[m].conv # k
      /\ convs' = convs \ {k}
      /\ leaf' = [leaf EXCEPT ![k] = None]
      /\ reqs' = {}
  BY DEF DeleteConv, In
<1>2. \A m \in DOMAIN msgs : msgs[m].conv # k => m \in DOMAIN msgs'
  BY <1>1 DEF In
<1>3. \A j : j # k => In(j)' = In(j)
  BY <1>1, <1>2 DEF In
<1>4. ParentOlder' /\ Housed'
  BY <1>1 DEF Shape, ParentOlder, Housed
<1>5. ParentPresent'
  BY <1>1, <1>2 DEF Shape, ParentPresent, In
<1>6. Alternates'
  BY <1>1 DEF Shape, Alternates
<1>7. \A j, m : j # k => Children(j, m)' = Children(j, m)
  BY <1>1, <1>3 DEF Children, In
<1>8. LeafHolds'
  <2>1. SUFFICES ASSUME NEW j \in convs, j # k PROVE LeafOk(j)'
    BY <1>1 DEF LeafHolds
  <2>2. leaf'[j] = leaf[j] /\ LeafOk(j) /\ In(j)' = In(j)
    BY <1>1, <1>3, <2>1 DEF TypeOK, Shape, LeafHolds
  <2>3. Children(j, leaf[j])' = Children(j, leaf[j])
    BY <1>1, <2>1, <2>2 DEF Children, In
  <2>4. QED
    BY <2>2, <2>3 DEF LeafOk
<1>9. Answered'
  <2>1. SUFFICES ASSUME NEW m \in DOMAIN msgs', msgs'[m].role = "user"
                 PROVE  Children(msgs[m].conv, m)' # {}
    BY DEF Answered
  <2>2. msgs'[m] = msgs[m] /\ msgs[m].conv # k /\ m \in DOMAIN msgs
    BY <1>1, <2>1
  <2>3. PICK n \in In(msgs[m].conv) : msgs[n].parent = m
    BY <2>1, <2>2 DEF Answered, Children
  <2>4. n \in DOMAIN msgs' /\ msgs'[n].conv = msgs'[m].conv /\ msgs'[n].parent = m
    BY <1>1, <1>2, <2>2, <2>3 DEF In
  <2>5. QED
    BY <2>4 DEF Children, In
<1>10. QED
  BY <1>4, <1>5, <1>6, <1>8, <1>9 DEF Shape

\* While the request is not about to add a reply, every prompt has its answer.
LEMMA AllAnswered ==
  ASSUME OneRequest, Answered, NEW r \in reqs, r.at # "reply",
         NEW m \in DOMAIN msgs, msgs[m].role = "user"
  PROVE  Children(msgs[m].conv, m) # {}
BY DEF OneRequest, Answered

\* So a new prompt hangs on a reply, or begins the chat.
LEMMA LeafIsReply ==
  ASSUME TypeOK, Shape, OneRequest, Answered, NEW r \in reqs, r.at # "reply", r.conv \in convs,
         leaf[r.conv] # None
  PROVE  leaf[r.conv] \in In(r.conv) /\ msgs[leaf[r.conv]].role = "assistant"
<1>1. leaf[r.conv] \in In(r.conv) /\ Children(r.conv, leaf[r.conv]) = {}
  BY DEF Shape, LeafHolds, LeafOk
<1>2. msgs[leaf[r.conv]].role # "user"
  BY <1>1, AllAnswered DEF In
<1>3. QED
  BY <1>1, <1>2 DEF TypeOK, In, Row

\* What was answered stays so while the trees are left alone.
LEMMA SameTreeAnswers ==
  ASSUME SameTree, NEW m \in DOMAIN msgs, Children(msgs[m].conv, m) # {}
  PROVE  Children(msgs[m].conv, m)' # {}
<1>1. PICK n \in In(msgs[m].conv) : msgs[n].parent = m
  BY DEF Children
<1>2. n \in DOMAIN msgs' /\ msgs'[n].conv = msgs'[m].conv /\ msgs'[n].parent = m
  BY <1>1 DEF SameTree, In
<1>3. QED
  BY <1>2 DEF Children, In

\* A step that leaves the trees alone and leaves no request at all.
LEMMA EndKept ==
  ASSUME TypeOK, TreeInv, NEW r \in reqs, r.at # "reply", SameTree, reqs' = {}
  PROVE  TreeInv'
<1>1. Shape'
  BY SameTreeShape DEF TreeInv, Shape
<1>2. Answered'
  <2>1. SUFFICES ASSUME NEW m \in DOMAIN msgs', msgs'[m].role = "user"
                 PROVE  Children(msgs[m].conv, m)' # {}
    BY DEF Answered
  <2>2. m \in DOMAIN msgs /\ msgs[m].role = "user"
    BY <2>1 DEF SameTree
  <2>3. Children(msgs[m].conv, m) # {}
    BY <2>2, AllAnswered DEF TreeInv
  <2>4. QED
    BY <2>2, <2>3, SameTreeAnswers
<1>3. QED
  BY <1>1, <1>2 DEF TreeInv, Shape, OneRequest

\* The same for a step that goes on to a call the tree is ready for.
LEMMA GoesKept ==
  ASSUME TypeOK, TreeInv, SameTree, NEW s, reqs' = {s}, Remembers(s),
         \A m \in DOMAIN msgs : msgs[m].role = "user" => Children(msgs[m].conv, m) # {}
  PROVE  TreeInv'
<1>1. Shape'
  BY SameTreeShape DEF TreeInv, Shape
<1>2. Answered'
  <2>1. SUFFICES ASSUME NEW m \in DOMAIN msgs', msgs'[m].role = "user"
                 PROVE  Children(msgs[m].conv, m)' # {}
    BY DEF Answered
  <2>2. m \in DOMAIN msgs /\ msgs[m].role = "user"
    BY <2>1 DEF SameTree
  <2>3. Children(msgs[m].conv, m) # {}
    BY <2>2
  <2>4. QED
    BY <2>2, <2>3, SameTreeAnswers
<1>3. Remembers(s)'
  <2>1. /\ \A k : In(k)' = In(k)
        /\ \A k, m : Children(k, m)' = Children(k, m)
        /\ \A k : \A m \in In(k) : msgs'[m].role = msgs[m].role
    BY SameTreeSame DEF SameTree, In
  <2>2. convs' = convs
    BY DEF SameTree
  <2>3. QED
    BY <2>1, <2>2 DEF Remembers
<1>4. \A q \in reqs' : q = s
  OBVIOUS
<1>5. QED
  BY <1>1, <1>2, <1>3, <1>4 DEF TreeInv, Shape, OneRequest

\* A new request knows a message of the right role, or none.
LEMMA AcceptTree ==
  ASSUME OneTab, TypeOK, TreeInv, NEW c \in Clients, Free(c),
         NEW k \in convs, NEW op, NEW at \in {"user", "read", "check"}, NEW m, Accept(c, k, op, at, m),
         at = "user" => op # "edit",
         at \in {"read", "check"} => m \in In(k),
         at = "read" /\ op = "retry" => msgs[m].role = "assistant",
         at = "read" /\ op = "edit" => msgs[m].role = "user",
         at = "check" => msgs[m].role = "user",
         UNCHANGED <<msgs, convs, leaf>>
  PROVE  TreeInv'
<1>1. reqs = {}
  BY NobodyElse
<1>2. PICK s : s = [client |-> c, conv |-> k, op |-> op, at |-> at, target |-> m, parent |-> None, born |-> 0]
  OBVIOUS
<1>n. s.conv = k /\ s.op = op /\ s.at = at /\ s.target = m /\ reqs' = {s}
  BY <1>1, <1>2 DEF Accept
<1>3. Remembers(s)
  BY <1>n DEF Remembers
<1>4. \A n \in DOMAIN msgs : msgs[n].role = "user" => Children(msgs[n].conv, n) # {}
  BY <1>1 DEF TreeInv, Answered
<1>5. SameTree
  BY DEF SameTree
<1>6. QED
  BY <1>n, <1>3, <1>4, <1>5, GoesKept

\* Reply threads write no more of the tree than a status.
LEMMA ThreadTree ==
  ASSUME TypeOK, TreeInv, NEW t \in turns, ThreadStep(t)
  PROVE  TreeInv'
<1>1. SameTree /\ UNCHANGED reqs
  BY DEF ThreadStep, Begin, Write, Exit, SameTree, TypeOK, Row
<1>2. Shape'
  BY <1>1, SameTreeShape DEF TreeInv, Shape
<1>3. /\ \A k : In(k)' = In(k)
      /\ \A k, m : Children(k, m)' = Children(k, m)
      /\ \A k : \A m \in In(k) : msgs'[m].role = msgs[m].role
      /\ convs' = convs
  BY <1>1, SameTreeSame DEF SameTree, In
<1>4. Answered'
  <2>1. SUFFICES ASSUME NEW m \in DOMAIN msgs', msgs'[m].role = "user",
                        \A r \in reqs : ~ (r.at = "reply" /\ r.parent = m)
                 PROVE  Children(msgs[m].conv, m)' # {}
    BY <1>1 DEF Answered
  <2>2. m \in DOMAIN msgs /\ msgs[m].role = "user"
    BY <1>1, <2>1 DEF SameTree
  <2>3. Children(msgs[m].conv, m) # {}
    BY <2>1, <2>2 DEF TreeInv, Answered
  <2>4. QED
    BY <1>1, <2>2, <2>3, SameTreeAnswers
<1>5. \A r \in reqs : Remembers(r)'
  BY <1>3 DEF TreeInv, Remembers
<1>6. QED
  BY <1>1, <1>2, <1>4, <1>5 DEF TreeInv, Shape, OneRequest

\* What the handler does after it added a message.
GoesOn(s, k, m, role) ==
  /\ s.conv = k
  /\ IF role = "user" THEN s.at = "reply" /\ s.parent = m ELSE s.at = "launch"

\* Every prompt has an answer, but perhaps the one that is answered now.
AnsweredBut(p) ==
  \A n \in DOMAIN msgs : msgs[n].role = "user" => n = p \/ Children(msgs[n].conv, n) # {}

\* The message a handler adds.
LEMMA AddedInv ==
  ASSUME TypeOK, TreeInv, NEW k \in convs, NEW m \in Ids, NEW role \in {"user", "assistant"},
         NEW p \in Ids \cup {None}, NEW status, AddMessage(k, m, role, p, status), UNCHANGED convs,
         MayHang(k, role, p), AnsweredBut(p), NEW s, reqs' = {s}, GoesOn(s, k, m, role)
  PROVE  TreeInv'
<1>1. /\ Shape'
      /\ m \in In(k)' /\ msgs'[m].role = role /\ msgs'[m].parent = p /\ msgs'[m].conv = k
      /\ m \notin DOMAIN msgs /\ DOMAIN msgs' = DOMAIN msgs \cup {m}
      /\ \A n \in DOMAIN msgs : msgs'[n] = msgs[n]
  BY AddedTree DEF TreeInv, Shape
<1>2. Answered'
  <2>1. SUFFICES ASSUME NEW n \in DOMAIN msgs', msgs'[n].role = "user"
                 PROVE  \/ Children(msgs[n].conv, n)' # {}
                        \/ \E r \in reqs' : r.at = "reply" /\ r.parent = n
    BY DEF Answered
  <2>2. CASE n = m
    BY <1>1, <2>1, <2>2 DEF GoesOn
  <2>3. CASE n # m /\ n = p
    <3>1. p # None /\ n \in In(k) /\ msgs'[n] = msgs[n]
      BY <1>1, <2>1, <2>3, BoundsAssumption DEF TypeOK, Ids, None, In, MayHang
    <3>2. m \in DOMAIN msgs' /\ msgs'[m].conv = msgs'[n].conv /\ msgs'[m].parent = n
      BY <1>1, <2>3, <3>1 DEF In
    <3>3. QED
      BY <3>2 DEF Children, In
  <2>4. CASE n # m /\ n # p
    <3>1. n \in DOMAIN msgs /\ msgs'[n] = msgs[n] /\ msgs[n].role = "user"
      BY <1>1, <2>1, <2>4
    <3>2. PICK l \in In(msgs[n].conv) : msgs[l].parent = n
      BY <2>4, <3>1 DEF Children, AnsweredBut
    <3>3. l \in DOMAIN msgs' /\ msgs'[l].conv = msgs'[n].conv /\ msgs'[l].parent = n
      BY <1>1, <3>1, <3>2 DEF In
    <3>4. QED
      BY <3>3 DEF Children, In
  <2>5. QED
    BY <2>2, <2>3, <2>4
<1>3. Remembers(s)'
  BY <1>1 DEF Remembers, TypeOK, GoesOn
<1>4. \A q \in reqs' : q = s
  OBVIOUS
<1>5. QED
  BY <1>1, <1>2, <1>3, <1>4 DEF TreeInv, Shape, OneRequest

LEMMA TreeRequestStep ==
  ASSUME TypeOK, TreeInv, NEW r \in reqs, RequestStep(r)
  PROVE  TreeInv'
<1>1. r \in Request /\ reqs = {r} /\ Remembers(r) /\ Shape /\ r.conv \in convs
  BY DEF TypeOK, TreeInv, OneRequest, Shape, Remembers
<1>2. \A m \in DOMAIN msgs : r.at # "reply" /\ msgs[m].role = "user" => Children(msgs[m].conv, m) # {}
  BY AllAnswered DEF TreeInv
<1>3. CASE CheckIdle(r)
  <2>1. SameTree /\ r.at = "check"
    BY <1>3 DEF CheckIdle, SameTree
  <2>2. CASE reqs' = {}
    BY <2>1, <2>2, EndKept
  <2>3. CASE reqs' = {[r EXCEPT !.at = "delete"]}
    <3>1. PICK s : s = [r EXCEPT !.at = "delete"]
      OBVIOUS
    <3>2. s.at = "delete" /\ s.conv = r.conv /\ s.target = r.target
      BY <1>1, <3>1 DEF Request
    <3>3. Remembers(s)
      BY <1>1, <2>1, <3>2 DEF Remembers
    <3>4. QED
      BY <1>2, <2>1, <2>3, <3>1, <3>3, GoesKept
  <2>4. QED
    BY <1>1, <1>3, <2>2, <2>3 DEF CheckIdle, Goes, Ends
<1>4. CASE Read(r)
  <2>1. SameTree /\ r.at = "read"
    BY <1>4 DEF Read, SameTree
  <2>2. CASE reqs' = {}
    BY <2>1, <2>2, EndKept
  <2>3. ASSUME NEW at \in {"reply", "user", "show"}, NEW n, reqs' = {[r EXCEPT !.at = at, !.parent = n]},
               at = "user" /\ n # None => n \in In(r.conv) /\ msgs[n].role = "assistant",
               at = "reply" => n \in In(r.conv) /\ msgs[n].role = "user",
               at = "show" => n \in In(r.conv) /\ Children(r.conv, n) = {}
        PROVE  TreeInv'
    <3>1. PICK s : s = [r EXCEPT !.at = at, !.parent = n]
      OBVIOUS
    <3>2. s.at = at /\ s.conv = r.conv /\ s.parent = n
      BY <1>1, <3>1 DEF Request
    <3>3. Remembers(s)
      BY <1>1, <2>3, <3>2 DEF Remembers
    <3>4. QED
      BY <1>2, <2>1, <2>3, <3>1, <3>3, GoesKept
  <2>4. CASE r.target \in In(r.conv)
    <3> DEFINE m == r.target
               p == msgs[r.target].parent
    <3>1. m \in DOMAIN msgs /\ msgs[m].conv = r.conv /\ None \notin DOMAIN msgs
      BY <2>4, BoundsAssumption DEF In, TypeOK, Ids, None
    <3>2. p # None => p \in In(r.conv) /\ p \in DOMAIN msgs /\ msgs[p].role \in {"user", "assistant"}
      BY <1>1, <3>1 DEF Shape, ParentPresent, In, TypeOK, Row
    <3>3. IF p = None THEN msgs[m].role = "user" ELSE msgs[p].role # msgs[m].role
      BY <1>1, <3>1, <3>2 DEF Shape, Alternates
    <3>4. CASE r.op = "retry" /\ Goes(r, [r EXCEPT !.at = "reply", !.parent = p])
      <4>1. msgs[m].role = "assistant"
        BY <1>1, <2>1, <3>4 DEF Remembers
      <4>2. p \in In(r.conv) /\ msgs[p].role = "user"
        BY <3>2, <3>3, <4>1
      <4>3. reqs' = {[r EXCEPT !.at = "reply", !.parent = p]}
        BY <1>1, <3>4 DEF Goes
      <4>4. QED
        BY <2>3, <4>2, <4>3
    <3>5. CASE r.op = "edit" /\ Goes(r, [r EXCEPT !.at = "user", !.parent = p])
      <4>1. msgs[m].role = "user"
        BY <1>1, <2>1, <3>5 DEF Remembers
      <4>2. p # None => p \in In(r.conv) /\ msgs[p].role = "assistant"
        BY <3>2, <3>3, <4>1
      <4>3. reqs' = {[r EXCEPT !.at = "user", !.parent = p]}
        BY <1>1, <3>5 DEF Goes
      <4>4. QED
        BY <2>3, <4>2, <4>3
    <3>6. ASSUME NEW n \in Ids, Newest(Below(r.conv, r.target), n),
                 Goes(r, [r EXCEPT !.at = "show", !.parent = n])
          PROVE  TreeInv'
      <4>1. n \in In(r.conv) /\ Children(r.conv, n) = {}
        BY <1>1, <2>4, <3>6, NewestEnds DEF Shape
      <4>2. reqs' = {[r EXCEPT !.at = "show", !.parent = n]}
        BY <1>1, <3>6 DEF Goes
      <4>3. QED
        BY <2>3, <4>1, <4>2
    <3>7. QED
      BY <1>4, <2>4, <3>4, <3>5, <3>6 DEF Read
  <2>5. QED
    BY <1>1, <1>4, <2>2, <2>4 DEF Read, Ends
<1>5. CASE AddPrompt(r)
  <2>1. PICK m \in Ids, p \in Ids \cup {None} :
          /\ IF r.op = "edit" THEN p = r.parent ELSE ShownLeaf(r.conv, p)
          /\ AddMessage(r.conv, m, "user", p, "done")
          /\ Goes(r, [r EXCEPT !.at = "reply", !.parent = m])
    BY <1>5 DEF AddPrompt
  <2>2. PICK s : s = [r EXCEPT !.at = "reply", !.parent = m]
    OBVIOUS
  <2>3. s.at = "reply" /\ s.conv = r.conv /\ s.parent = m /\ reqs' = {s} /\ r.at = "user"
    BY <1>1, <1>5, <2>1, <2>2 DEF Request, Goes, AddPrompt
  <2>4. p # None => p \in In(r.conv) /\ msgs[p].role = "assistant"
    <3>1. CASE r.op = "edit"
      BY <1>1, <2>1, <2>3, <3>1 DEF Remembers
    <3>2. CASE r.op # "edit"
      <4>1. p = leaf[r.conv]
        BY <1>1, <2>1, <3>2, ShownIs DEF Shape
      <4>2. QED
        BY <1>1, <2>3, <4>1, LeafIsReply DEF TreeInv
    <3>3. QED
      BY <3>1, <3>2
  <2>5. UNCHANGED convs
    BY <1>5 DEF AddPrompt
  <2>6. AnsweredBut(p)
    BY <1>2, <2>3 DEF AnsweredBut
  <2>7. MayHang(r.conv, "user", p)
    BY <2>4 DEF MayHang
  <2>8. AddMessage(r.conv, m, "user", p, "done") /\ r.conv \in convs
    BY <1>1, <2>1
  <2>9. GoesOn(s, r.conv, m, "user")
    BY <2>3 DEF GoesOn
  <2>10. QED
    BY <2>3, <2>5, <2>6, <2>7, <2>8, <2>9, AddedInv
<1>6. CASE AddReply(r)
  <2>1. PICK m \in Ids :
          /\ AddMessage(r.conv, m, "assistant", r.parent, "streaming")
          /\ Goes(r, [r EXCEPT !.at = "launch", !.target = m, !.born = made + 1])
    BY <1>6 DEF AddReply
  <2>2. PICK s : s = [r EXCEPT !.at = "launch", !.target = m, !.born = made + 1]
    OBVIOUS
  <2>3. s.at = "launch" /\ s.conv = r.conv /\ reqs' = {s} /\ r.at = "reply" /\ UNCHANGED convs
    BY <1>1, <1>6, <2>1, <2>2 DEF Request, Goes, AddReply
  <2>4. r.parent \in In(r.conv) /\ msgs[r.parent].role = "user" /\ r.parent \in Ids
    BY <1>1, <2>3 DEF Remembers, In, TypeOK
  <2>5. AnsweredBut(r.parent)
    BY <1>1 DEF TreeInv, Answered, AnsweredBut
  <2>6. MayHang(r.conv, "assistant", r.parent)
    BY <2>4, BoundsAssumption DEF MayHang, Ids, None
  <2>7. AddMessage(r.conv, m, "assistant", r.parent, "streaming") /\ r.conv \in convs
    BY <1>1, <2>1
  <2>8. GoesOn(s, r.conv, m, "assistant")
    BY <2>3 DEF GoesOn
  <2>9. QED
    BY <2>3, <2>4, <2>5, <2>6, <2>7, <2>8, AddedInv
<1>7. CASE Launch(r)
  BY <1>1, <1>7, EndKept DEF Launch, Ends, SameTree
<1>8. CASE Show(r)
  <2>1. /\ leaf' = [leaf EXCEPT ![r.conv] = r.parent] /\ reqs' = {} /\ UNCHANGED <<msgs, convs>>
        /\ r.parent \in In(r.conv) /\ Children(r.conv, r.parent) = {} /\ r.at = "show"
    BY <1>1, <1>8 DEF Show, Ends, Remembers
  <2>2. /\ \A k : In(k)' = In(k)
        /\ \A k, m : Children(k, m)' = Children(k, m)
    BY <2>1 DEF In, Children
  <2>3. LeafHolds'
    <3>1. SUFFICES ASSUME NEW k \in convs PROVE LeafOk(k)'
      BY <2>1 DEF LeafHolds
    <3>2. leaf'[k] = IF k = r.conv THEN r.parent ELSE leaf[k]
      BY <1>1, <2>1 DEF TypeOK
    <3>3. LeafOk(k)
      BY <1>1 DEF Shape, LeafHolds
    <3>4. QED
      BY <2>1, <2>2, <3>2, <3>3 DEF LeafOk
  <2>4. Answered'
    BY <1>2, <2>1, <2>2 DEF Answered
  <2>5. ParentOlder' /\ ParentPresent' /\ Alternates' /\ Housed'
    BY <1>1, <2>1, <2>2 DEF Shape, ParentOlder, ParentPresent, Alternates, Housed
  <2>6. QED
    BY <2>1, <2>3, <2>4, <2>5 DEF TreeInv, OneRequest
<1>9. CASE Delete(r)
  <2> DEFINE k == r.conv
             p == r.target
  <2>1. reqs' = {} /\ UNCHANGED convs /\ r.at = "delete"
    BY <1>1, <1>9 DEF Delete, Ends
  <2>2. CASE UNCHANGED <<msgs, leaf>>
    BY <2>1, <2>2, EndKept DEF SameTree
  <2>3. CASE TurnOf(k, p) /\ Prune(k, p)
    <3>1. ParentOlder' /\ ParentPresent'
      BY <1>1, <2>3, PrunedParents DEF Shape
    <3>2. Alternates'
      BY <1>1, <2>3, PrunedAlternates DEF Shape
    <3>3. LeafHolds'
      BY <1>1, <2>1, <2>3, PrunedLeaf DEF Shape
    <3>4. /\ DOMAIN msgs' \subseteq DOMAIN msgs
          /\ \A m \in DOMAIN msgs' : msgs'[m].conv = msgs[m].conv /\ msgs'[m].role = msgs[m].role
      BY <2>3, PrunedRows DEF TurnOf
    <3>5. Housed'
      BY <1>1, <2>1, <3>4 DEF Shape, Housed
    <3>6. Answered'
      <4>1. SUFFICES ASSUME NEW m \in DOMAIN msgs', msgs'[m].role = "user"
                     PROVE  Children(msgs[m].conv, m)' # {}
        BY DEF Answered
      <4>2. Children(msgs[m].conv, m) # {}
        BY <1>2, <2>1, <3>4, <4>1
      <4>3. QED
        BY <1>1, <2>3, <4>1, <4>2, PrunedAnswers DEF Shape
    <3>7. QED
      BY <2>1, <3>1, <3>2, <3>3, <3>5, <3>6 DEF TreeInv, OneRequest
  <2>4. QED
    BY <1>1, <1>9, <2>2, <2>3 DEF Delete, TurnOf
<1>10. QED
  BY <1>3, <1>4, <1>5, <1>6, <1>7, <1>8, <1>9 DEF RequestStep

LEMMA TreeStep ==
  ASSUME Undisturbed, TypeOK, TreeInv, [Next]_vars
  PROVE  TreeInv'
<1>0. OneTab /\ MaxRestarts = 0 /\ Housed
  BY DEF Undisturbed, TreeInv
<1>1. ASSUME NEW c \in Clients, NEW k \in Convs, Send(c, k) PROVE TreeInv'
  BY <1>0, <1>1, AcceptTree DEF Send
<1>2. ASSUME NEW c \in Clients, NEW k \in Convs, DeleteConv(c, k) PROVE TreeInv'
  <2>1. reqs = {} /\ reqs' = {}
    BY <1>0, <1>2, NobodyElse DEF DeleteConv
  <2>2. Shape' /\ Answered'
    BY <1>2, <2>1, DeletedTree DEF TreeInv, Shape
  <2>3. QED
    BY <2>1, <2>2 DEF TreeInv, Shape, OneRequest
<1>3. ASSUME NEW c \in Clients, NEW k \in Convs, NEW op \in {"retry", "edit", "switch"},
             NEW m \in Ids, Rewrite(c, k, op, m)
      PROVE  TreeInv'
  BY <1>0, <1>3, AcceptTree DEF Rewrite
<1>4. ASSUME NEW c \in Clients, NEW m \in Ids, AskDelete(c, m) PROVE TreeInv'
  <2>1. m \in In(msgs[m].conv) /\ msgs[m].conv \in convs /\ msgs[m].role = "user"
    BY <1>0, <1>4 DEF AskDelete, Housed, In
  <2>2. QED
    BY <1>0, <1>4, <2>1, AcceptTree DEF AskDelete
<1>5. CASE Restart
  BY <1>0, <1>5 DEF Restart, TypeOK
<1>6. CASE UNCHANGED vars
  <2>1. SameTree /\ UNCHANGED reqs
    BY <1>6 DEF vars, SameTree
  <2>2. QED
    BY <1>6 DEF vars, TreeInv, OneRequest, ParentOlder, ParentPresent, Alternates, Housed, LeafHolds,
                LeafOk, Answered, Remembers, Children, In
<1>7. QED
  BY <1>1, <1>2, <1>3, <1>4, <1>5, <1>6, TreeRequestStep, ThreadTree DEF Next

\* With one tab and no restart in between, any mix of messages, retries, edits,
\* switches and deletions leaves every chat a tree of alternating prompts and
\* replies, whose parents are older, and which is shown along a whole branch.
THEOREM TreesHold ==
  ASSUME Undisturbed
  PROVE  Spec => []TreeHolds
<1>1. Init => TreeInv
  BY DEF Init, TreeInv, OneRequest, ParentOlder, ParentPresent, Alternates, Housed, LeafHolds, LeafOk,
         Answered, In
<1>2. TypeOK /\ TreeInv /\ [Next]_vars => TreeInv'
  BY TreeStep
<1>3. TypeOK /\ TreeInv => TreeHolds
  <2>1. SUFFICES ASSUME TypeOK, TreeInv, NEW k \in convs, In(k) # {} PROVE Children(k, LeafOf(k)) = {}
    BY DEF TreeInv, TreeHolds, LeafChildless
  <2>2. LeafOf(k) = leaf[k] /\ LeafOk(k)
    BY <2>1, ShownIs DEF TreeInv, LeafHolds
  <2>3. QED
    BY <2>1, <2>2 DEF LeafOk
<1>4. QED
  BY <1>1, <1>2, <1>3, TypeCorrect, PTL DEF Spec

-----------------------------------------------------------------------------
(* Rewriting what a chat shows *)

\* A request that waited for the chat to be idle, and has not rewritten it yet.
Waiting(r) ==
  \/ r.at \in {"read", "show", "delete"}
  \/ r.op = "edit" /\ r.at = "user"
  \/ r.op = "retry" /\ r.at \in {"user", "reply"}

\* A thread, or one that is about to start, answers in its own chat.
ThreadsHome ==
  /\ \A t \in turns : t.at # "written" => msgs[t.msg].conv = t.conv
  /\ \A r \in reqs : r.at = "launch" => msgs[r.target].conv = r.conv

\* The chat stays idle until it is rewritten.
StaysIdle == \A r \in reqs : Waiting(r) => ~ Running(r.conv)

\* A switch is to a branch through the message that was asked for.
ShowsAsked == \A r \in reqs : r.at = "show" => r.target \in Branch(r.conv, r.parent)

\* The invariant of what rewrites the trees.
RewriteInv == TreeInv /\ OwnInv /\ ThreadsHome /\ StaysIdle /\ ShowsAsked

\* A branch is determined by where it ends.
LEMMA OneBranch ==
  ASSUME TypeOK, ParentOlder, NEW k, NEW m, NEW B, NEW C, BranchIs(k, m, B), BranchIs(k, m, C)
  PROVE  B \subseteq C
<1> DEFINE X == B \ C
<1>1. MaxMessages \in Nat /\ In(k) \subseteq 0 .. MaxMessages
  BY BoundsAssumption DEF In, TypeOK, Ids
<1>2. SUFFICES ASSUME X # {} PROVE FALSE
  OBVIOUS
<1>3. PICK x \in X : \A y \in X : y <= x
  <2>1. X \subseteq 0 .. MaxMessages
    BY <1>1 DEF BranchIs
  <2>2. QED
    BY <1>1, <1>2, <2>1, Greatest
<1>4. x \in B /\ x \notin C /\ x \in In(k) /\ x # m
  BY <1>3 DEF BranchIs
<1>5. PICK y \in B : msgs[y].parent = x
  BY <1>4 DEF BranchIs
<1>6. y \in In(k) /\ x < y
  BY <1>5 DEF BranchIs, ParentOlder, In
<1>7. y \in C
  BY <1>1, <1>3, <1>4, <1>5, <1>6
<1>8. QED
  BY <1>4, <1>5, <1>7 DEF BranchIs

\* Branches are those of the rows' parents, whichever leaf is shown.
SameRows ==
  /\ DOMAIN msgs' = DOMAIN msgs
  /\ \A m \in DOMAIN msgs : msgs'[m].conv = msgs[m].conv /\ msgs'[m].parent = msgs[m].parent

AllBranches == \A k : \A m \in Ids \cup {None} : BranchIs(k, m, Branch(k, m))

LEMMA AllBranchesHold == TypeOK /\ ParentOlder => AllBranches
BY BranchHolds DEF AllBranches

LEMMA SameBranches ==
  ASSUME TypeOK, ParentOlder, TypeOK', ParentOlder', SameRows, NEW k, NEW m \in Ids \cup {None}
  PROVE  Branch(k, m)' = Branch(k, m)
<1>1. BranchIs(k, m, Branch(k, m))
  BY BranchHolds
<1>2. (TypeOK /\ ParentOlder => AllBranches)'
  BY AllBranchesHold, PTL
<1>3. BranchIs(k, m, Branch(k, m))'
  BY <1>2 DEF AllBranches
<1>4. In(k)' = In(k)
  BY DEF SameRows, In
<1>5. PICK C : C = Branch(k, m)'
  OBVIOUS
<1>6. /\ C \subseteq In(k)
      /\ m \in In(k) => m \in C
      /\ \A x \in C : msgs'[x].parent \in In(k) => msgs'[x].parent \in C
      /\ \A x \in C : x # m => \E y \in C : msgs'[y].parent = x
  BY <1>3, <1>4, <1>5 DEF BranchIs
<1>7. \A x \in In(k) : msgs'[x].parent = msgs[x].parent
  BY DEF SameRows, In
<1>8. BranchIs(k, m, C)
  BY <1>6, <1>7 DEF BranchIs
<1>9. C \subseteq Branch(k, m) /\ Branch(k, m) \subseteq C
  BY <1>1, <1>8, OneBranch
<1>10. QED
  BY <1>5, <1>9

\* The shown branch of a chat.
ShownBranch == \A k \in convs : BranchIs(k, leaf[k], Branch(k, LeafOf(k)))

LEMMA ShownBranchHolds == TypeOK /\ TreeInv => ShownBranch
<1>1. SUFFICES ASSUME TypeOK, TreeInv, NEW k \in convs PROVE BranchIs(k, leaf[k], Branch(k, LeafOf(k)))
  BY DEF ShownBranch
<1>2. LeafOf(k) = leaf[k] /\ leaf[k] \in Ids \cup {None}
  BY <1>1, ShownIs DEF TreeInv
<1>3. BranchIs(k, leaf[k], Branch(k, leaf[k]))
  BY <1>1, <1>2, BranchHolds DEF TreeInv
<1>4. QED
  BY <1>2, <1>3

\* The branch that is shown after a switch goes through the message asked for.
LEMMA ShownAsAsked ==
  ASSUME TypeOK, TreeInv, ShowsAsked, TypeOK', TreeInv', NEW r \in reqs, Show(r)
  PROVE  r.target \in Branch(r.conv, LeafOf(r.conv))'
<1>1. PICK k \in convs, n \in Ids \cup {None} : k = r.conv /\ n = r.parent
  BY DEF TreeInv, Remembers, TypeOK, Request
<1>2. UNCHANGED <<msgs, convs>> /\ leaf' = [leaf EXCEPT ![k] = n] /\ r.target \in Branch(k, n)
  BY <1>1 DEF Show, ShowsAsked
<1>3. leaf'[k] = n
  BY <1>1, <1>2 DEF TypeOK
<1>4. (TypeOK /\ TreeInv => ShownBranch)'
  BY ShownBranchHolds, PTL
<1>5. PICK C : C = Branch(k, LeafOf(k))'
  OBVIOUS
<1>6. BranchIs(k, leaf[k], Branch(k, LeafOf(k)))'
  BY <1>2, <1>4 DEF ShownBranch
<1>7. In(k)' = In(k)
  BY <1>2 DEF In
<1>8. BranchIs(k, n, C)
  BY <1>2, <1>3, <1>5, <1>6, <1>7 DEF BranchIs
<1>9. BranchIs(k, n, Branch(k, n)) /\ ParentOlder
  BY BranchHolds DEF TreeInv
<1>10. Branch(k, n) \subseteq C
  BY <1>8, <1>9, OneBranch
<1>11. QED
  BY <1>1, <1>2, <1>5, <1>10

\* The replies of a turn.
Answers(k, p) == {m \in Replies(k, p) : msgs[m].role = "assistant"}

\* What goes of a branch is the turn itself.
LEMMA TurnGoes ==
  ASSUME TypeOK, ParentOlder, ParentPresent, Alternates, NEW k, NEW p, TurnOf(k, p),
         BranchIs(k, leaf[k], Branch(k, LeafOf(k)))
  PROVE  /\ Versions(k, p) \cup Answers(k, p) \subseteq Doomed(k, p)
         /\ Branch(k, LeafOf(k)) \cap Doomed(k, p) \subseteq Versions(k, p) \cup Answers(k, p)
<1> DEFINE B == Branch(k, LeafOf(k))
           gone == Doomed(k, p)
           turn == Versions(k, p) \cup Answers(k, p)
           bad == {x \in B \cap gone : x \notin turn}
<1>1. Answers(k, p) \subseteq gone
  <2>1. SUFFICES ASSUME NEW x \in Answers(k, p) PROVE x \in gone
    OBVIOUS
  <2>2. PICK v \in Versions(k, p) : x \in In(k) /\ msgs[x].parent = v
    BY DEF Answers, Replies, Children
  <2>3. msgs[x].role = "assistant"
    BY DEF Answers
  <2>4. x \notin KeptNext(k, p)
    BY <2>3, KeptArePrompts
  <2>5. QED
    BY <2>2, <2>4, DoomedIs
<1>2. Versions(k, p) \subseteq gone
  BY DoomedIs
<1>3. B \subseteq In(k) /\ In(k) \subseteq Nat /\ gone \subseteq In(k)
  BY DoomedIs, BoundsAssumption DEF BranchIs, In, TypeOK, Ids
<1>4. ASSUME bad # {} PROVE FALSE
  <2>1. PICK x \in bad : \A y \in bad : x <= y
    <3>1. bad \subseteq Nat
      BY <1>3
    <3>2. QED
      BY <1>4, <3>1, Least
  <2> DEFINE q == msgs[x].parent
  <2>2. x \in B /\ x \in gone /\ x \notin turn /\ x \in In(k)
    BY <1>3, <2>1
  <2>3. x \notin KeptNext(k, p) /\ q \in gone /\ q \in In(k)
    BY <1>3, <2>2, DoomedIs
  <2>4. q \in B
    BY <2>2, <2>3 DEF BranchIs
  <2>5. q < x /\ q \in Nat /\ x \in Nat
    BY <1>3, <2>2, <2>3 DEF ParentOlder, In
  <2>6. q \in turn
    <3>1. q \notin bad
      BY <2>1, <2>5
    <3>2. QED
      BY <2>3, <2>4, <3>1
  <2>7. CASE q \in Answers(k, p)
    <3>1. q \in Replies(k, p) \cap Branch(k, LeafOf(k)) /\ x \in Children(k, q)
      BY <2>2, <2>4, <2>7 DEF Answers, Children
    <3>2. QED
      BY <2>3, <3>1 DEF KeptNext
  <2>8. CASE q \in Versions(k, p)
    <3>1. x \in Replies(k, p) /\ msgs[q].role = "user" /\ q \in DOMAIN msgs /\ x \in DOMAIN msgs
      BY <2>2, <2>3, <2>8 DEF Replies, Versions, Children, In
    <3>2. q # None
      BY <3>1, BoundsAssumption DEF TypeOK, Ids, None
    <3>3. msgs[x].role = "assistant"
      BY <3>1, <3>2 DEF Alternates, TypeOK, Row
    <3>4. QED
      BY <2>2, <3>1, <3>3 DEF Answers
  <2>9. QED
    BY <2>6, <2>7, <2>8
<1>5. QED
  BY <1>1, <1>2, <1>4

\* The first message of the turn on the branch hangs on what the turn hangs on.
LEMMA TurnOnBranch ==
  ASSUME TypeOK, ParentOlder, NEW k, NEW p \in In(k), NEW m, NEW B, BranchIs(k, m, B),
         B \cap Doomed(k, p) # {}, msgs[p].parent \in In(k)
  PROVE  msgs[p].parent \in B
<1> DEFINE gone == Doomed(k, p)
           X == B \cap gone
<1>1. X \subseteq Nat /\ gone \subseteq In(k) /\ In(k) \subseteq Nat
  BY DoomedIs, BoundsAssumption DEF In, TypeOK, Ids
<1>2. PICK x \in X : \A y \in X : x <= y
  BY <1>1, Least
<1>3. x \in B /\ x \in gone /\ x \in In(k)
  BY <1>1, <1>2
<1>4. CASE x \in Versions(k, p)
  <2>1. msgs[x].parent = msgs[p].parent
    BY <1>4 DEF Versions, Children
  <2>2. QED
    BY <1>3, <2>1 DEF BranchIs
<1>5. CASE msgs[x].parent \in gone
  <2>1. msgs[x].parent \in X
    BY <1>1, <1>3, <1>5 DEF BranchIs
  <2>2. msgs[x].parent < x /\ x <= msgs[x].parent /\ x \in Nat /\ msgs[x].parent \in Nat
    BY <1>1, <1>2, <1>3, <2>1 DEF ParentOlder, In
  <2>3. QED
    BY <2>2
<1>6. QED
  BY <1>3, <1>4, <1>5, DoomedIs

\* If the leaf stays though a version goes, the branch goes on with what is kept.
LEMMA KeptOnBranch ==
  ASSUME TypeOK, ParentOlder, NEW k, NEW p \in In(k), NEW m, NEW B, BranchIs(k, m, B),
         m \notin Doomed(k, p), NEW z \in B \cap Doomed(k, p)
  PROVE  \E w \in B : w \in KeptNext(k, p) /\ z < w
<1> DEFINE gone == Doomed(k, p)
           X == B \cap gone
<1>1. MaxMessages \in Nat /\ In(k) \subseteq 0 .. MaxMessages /\ B \subseteq In(k)
  BY BoundsAssumption DEF In, TypeOK, Ids, BranchIs
<1>2. PICK x \in X : \A y \in X : y <= x
  <2>1. X \subseteq 0 .. MaxMessages /\ X # {}
    BY <1>1
  <2>2. QED
    BY <1>1, <2>1, Greatest
<1>3. x \in B /\ x \in gone /\ x # m /\ z <= x
  BY <1>2
<1>4. PICK w \in B : msgs[w].parent = x
  BY <1>3 DEF BranchIs
<1>5. w \in In(k) /\ x < w
  BY <1>1, <1>4 DEF ParentOlder, In
<1>6. x \in 0 .. MaxMessages /\ w \in 0 .. MaxMessages /\ z \in 0 .. MaxMessages
  BY <1>1, <1>3, <1>5
<1>7. w \notin gone /\ z < w
  BY <1>1, <1>2, <1>3, <1>4, <1>5, <1>6
<1>8. w \in KeptNext(k, p)
  BY <1>3, <1>4, <1>5, <1>7, DoomedIs
<1>9. QED
  BY <1>7, <1>8

\* What is kept hung on what goes of the shown branch.
LEMMA KeptHung ==
  ASSUME TypeOK, ParentOlder, ParentPresent, Alternates, NEW k, NEW p \in In(k),
         NEW n \in KeptNext(k, p)
  PROVE  /\ n \in In(k) \ Doomed(k, p)
         /\ msgs[n].parent \in Branch(k, LeafOf(k)) \cap Doomed(k, p)
<1> DEFINE a == msgs[n].parent
<1>1. n \in In(k) /\ a \in In(k) \cap Branch(k, LeafOf(k)) /\ msgs[a].parent \in Versions(k, p)
  BY KeptIs
<1>2. a \notin KeptNext(k, p)
  <2>1. msgs[a].role = "assistant"
    BY KeptArePrompts
  <2>2. QED
    BY <2>1, KeptArePrompts
<1>3. a \in Doomed(k, p)
  BY <1>1, <1>2, DoomedIs
<1>4. QED
  BY <1>1, <1>3, KeptStays

\* The shown branch loses what goes of it, and nothing else.
LEMMA PrunedBranch ==
  ASSUME TypeOK, ParentOlder, ParentPresent, Alternates, NEW k, NEW p, TurnOf(k, p), Prune(k, p),
         NEW B, B = Branch(k, LeafOf(k)), BranchIs(k, leaf[k], B), NEW C, BranchIs(k, leaf[k], C)'
  PROVE  C = B \ Doomed(k, p)
<1> DEFINE gone == Doomed(k, p)
           kept == KeptNext(k, p)
           up == msgs[p].parent
<1>1. /\ MaxMessages \in Nat /\ In(k) \subseteq 0 .. MaxMessages /\ In(k) \subseteq DOMAIN msgs
      /\ p \in In(k) /\ k \in convs /\ k \in Convs /\ leaf \in [Convs -> Ids \cup {None}]
  BY BoundsAssumption DEF In, TypeOK, Ids, TurnOf
<1>2. /\ In(k)' = In(k) \ gone
      /\ \A m \in In(k) \ gone : msgs'[m].parent = IF m \in kept THEN up ELSE msgs[m].parent
      /\ leaf'[k] = IF leaf[k] \in gone THEN up ELSE leaf[k]
  <2>1. p \in In(k)
    BY <1>1
  <2>2. /\ DOMAIN msgs' = DOMAIN msgs \ gone
        /\ \A m \in DOMAIN msgs' : msgs'[m].parent = IF m \in kept THEN up ELSE msgs[m].parent
        /\ \A j : In(j)' = In(j) \ gone
        /\ leaf' = IF k \in convs /\ leaf[k] \in gone THEN [leaf EXCEPT ![k] = up] ELSE leaf
    BY <2>1, PrunedRows, ZenonT(40)
  <2>3. \A m \in In(k) \ gone : msgs'[m].parent = IF m \in kept THEN up ELSE msgs[m].parent
    BY <1>1, <2>2
  <2>4. leaf'[k] = IF leaf[k] \in gone THEN up ELSE leaf[k]
    BY <1>1, <2>2
  <2>5. QED
    BY <2>2, <2>3, <2>4
<1>3. /\ C \subseteq In(k) \ gone
      /\ leaf'[k] \in In(k) \ gone => leaf'[k] \in C
      /\ \A x \in C : msgs'[x].parent \in In(k) \ gone => msgs'[x].parent \in C
      /\ \A x \in C : x # leaf'[k] => \E y \in C : msgs'[y].parent = x
  BY <1>2 DEF BranchIs
<1>4. /\ B \subseteq In(k)
      /\ leaf[k] \in In(k) => leaf[k] \in B
      /\ \A x \in B : msgs[x].parent \in In(k) => msgs[x].parent \in B
      /\ \A x \in B : x # leaf[k] => \E y \in B : msgs[y].parent = x
  BY DEF BranchIs
<1>5. \A n \in kept : n \in In(k) \ gone /\ msgs[n].parent \in B \cap gone
  BY <1>1, KeptHung
<1>6. \A v \in Versions(k, p) : msgs[v].parent = up
  BY DEF Versions, Children
<1>7. \A x \in In(k) : msgs[x].parent < x
  BY <1>1 DEF ParentOlder
<1>8. up \in In(k) => up < p /\ up \notin gone
  <2>1. SUFFICES ASSUME up \in In(k) PROVE up < p /\ up \notin gone
    OBVIOUS
  <2>2. up \in gone => up < up
    BY <1>1, DoomedNewer
  <2>3. QED
    BY <1>1, <1>7, <2>1, <2>2
<1>9. B \ gone \subseteq C
  <2> DEFINE X == (B \ gone) \ C
  <2>1. SUFFICES ASSUME X # {} PROVE FALSE
    OBVIOUS
  <2>2. PICK y \in X : \A x \in X : x <= y
    <3>1. X \subseteq 0 .. MaxMessages
      BY <1>1, <1>4
    <3>2. QED
      BY <1>1, <2>1, <3>1, Greatest
  <2>3. y \in B /\ y \notin gone /\ y \notin C /\ y \in In(k) /\ y \in 0 .. MaxMessages
    BY <1>1, <1>4, <2>2
  <2>4. y # leaf[k]
    BY <1>2, <1>3, <2>3
  <2>5. PICK z \in B : msgs[z].parent = y
    BY <1>4, <2>3, <2>4
  <2>6. z \in In(k) /\ z \in 0 .. MaxMessages /\ y < z
    BY <1>1, <1>4, <1>7, <2>5
  <2>7. CASE z \notin gone
    <3>1. z \in C
      BY <2>2, <2>3, <2>5, <2>6, <2>7
    <3>2. z \notin kept
      BY <1>5, <2>3, <2>5
    <3>3. msgs'[z].parent = y
      BY <1>2, <2>5, <2>6, <2>7, <3>2
    <3>4. QED
      BY <1>3, <2>3, <3>1, <3>3
  <2>8. CASE z \in gone
    <3>1. z \in Versions(k, p) /\ y = up
      <4>1. z \in Versions(k, p) \/ msgs[z].parent \in gone
        BY <2>8, DoomedIs
      <4>2. QED
        BY <1>6, <2>3, <2>5, <4>1
    <3>2. CASE leaf[k] \in gone
      BY <1>2, <1>3, <2>3, <3>1, <3>2
    <3>3. CASE leaf[k] \notin gone
      <4>1. PICK w \in B : w \in kept /\ z < w
        BY <1>1, <2>5, <2>8, <3>3, KeptOnBranch
      <4>2. w \in In(k) /\ w \notin gone /\ w \in 0 .. MaxMessages
        BY <1>1, <1>4, <1>5, <4>1
      <4>3. w \in C
        <5>1. ~ (w <= y)
          BY <2>3, <2>6, <4>1, <4>2
        <5>2. w \notin X
          BY <2>2, <5>1
        <5>3. QED
          BY <4>1, <4>2, <5>2
      <4>4. msgs'[w].parent = y
        BY <1>2, <3>1, <4>1, <4>2
      <4>5. QED
        BY <1>3, <2>3, <4>3, <4>4
    <3>4. QED
      BY <3>2, <3>3
  <2>9. QED
    BY <2>7, <2>8
<1>10. C \subseteq B \ gone
  <2> DEFINE X == C \ (B \ gone)
  <2>1. SUFFICES ASSUME X # {} PROVE FALSE
    OBVIOUS
  <2>2. PICK y \in X : \A x \in X : x <= y
    <3>1. X \subseteq 0 .. MaxMessages
      BY <1>1, <1>3
    <3>2. QED
      BY <1>1, <2>1, <3>1, Greatest
  <2>3. y \in C /\ y \in In(k) /\ y \notin gone /\ y \notin B /\ y \in 0 .. MaxMessages
    BY <1>1, <1>3, <2>2
  <2>4. B \cap gone # {} => y # up
    <3>1. B \cap gone # {} /\ up \in In(k) => up \in B
      BY <1>1, TurnOnBranch
    <3>2. QED
      BY <2>3, <3>1
  <2>5. y # leaf'[k]
    <3>1. CASE leaf[k] \in gone
      <4>1. leaf[k] \in B
        BY <1>4, <3>1, DoomedIs
      <4>2. QED
        BY <1>2, <2>4, <3>1, <4>1
    <3>2. CASE leaf[k] \notin gone
      BY <1>2, <1>4, <2>3, <3>2
    <3>3. QED
      BY <3>1, <3>2
  <2>6. PICK z \in C : msgs'[z].parent = y
    BY <1>3, <2>3, <2>5
  <2>7. z \in In(k) \ gone /\ z \in 0 .. MaxMessages
    BY <1>1, <1>3, <2>6
  <2>8. CASE z \in kept
    <3>1. y = up /\ B \cap gone # {}
      BY <1>2, <1>5, <2>6, <2>7, <2>8
    <3>2. QED
      BY <2>4, <3>1
  <2>9. CASE z \notin kept
    <3>1. msgs[z].parent = y
      BY <1>2, <2>6, <2>7, <2>9
    <3>2. ~ (z <= y)
      BY <1>7, <2>3, <2>7, <3>1
    <3>3. z \in B
      BY <2>2, <2>6, <2>7, <3>2
    <3>4. QED
      BY <1>4, <2>3, <3>1, <3>3
  <2>10. QED
    BY <2>8, <2>9
<1>11. QED
  BY <1>9, <1>10

\* Deleting a turn leaves the shown branch as if the turn never happened.
LEMMA TurnReadsOn ==
  ASSUME TypeOK, TreeInv, TypeOK', TreeInv', NEW r \in reqs, Delete(r)
  PROVE  Branch(r.conv, LeafOf(r.conv))'
           = Branch(r.conv, LeafOf(r.conv)) \ (Versions(r.conv, r.target) \cup Answers(r.conv, r.target))
<1>1. PICK k, p : k = r.conv /\ p = r.target
  OBVIOUS
<1>2. TurnOf(k, p) /\ Prune(k, p) /\ UNCHANGED convs
  BY <1>1 DEF Delete, TreeInv, Remembers, TurnOf
<1>3. /\ ParentOlder /\ ParentPresent /\ Alternates /\ k \in convs /\ k \in convs'
  BY <1>2 DEF TreeInv, TurnOf
<1>4. BranchIs(k, leaf[k], Branch(k, LeafOf(k)))
  BY <1>3, ShownBranchHolds DEF ShownBranch
<1>5. (TypeOK /\ TreeInv => ShownBranch)'
  BY ShownBranchHolds, PTL
<1>6. BranchIs(k, leaf[k], Branch(k, LeafOf(k)))'
  BY <1>3, <1>5 DEF ShownBranch
<1>7. PICK B : B = Branch(k, LeafOf(k))
  OBVIOUS
<1>8. PICK C : C = Branch(k, LeafOf(k))'
  OBVIOUS
<1>9. BranchIs(k, leaf[k], B)
  BY <1>4, <1>7
<1>10. BranchIs(k, leaf[k], C)'
  BY <1>6, <1>8 DEF BranchIs
<1>11. C = B \ Doomed(k, p)
  BY <1>2, <1>3, <1>7, <1>9, <1>10, PrunedBranch
<1>12. /\ Versions(k, p) \cup Answers(k, p) \subseteq Doomed(k, p)
       /\ B \cap Doomed(k, p) \subseteq Versions(k, p) \cup Answers(k, p)
  BY <1>2, <1>3, <1>4, <1>7, TurnGoes
<1>13. C = B \ (Versions(k, p) \cup Answers(k, p))
  BY <1>11, <1>12
<1>14. QED
  BY <1>1, <1>7, <1>8, <1>13

\* No thread writes in a chat that was found idle.
LEMMA IdleRests ==
  ASSUME OwnInv, ThreadsHome, NEW k, Idle(k)
  PROVE  ~ Running(k)
BY DEF OwnInv, ThreadsOwn, Streams, ThreadsHome, Idle, In, Running

\* A step that moves no message to another chat, ...
SameHomes == \A m \in DOMAIN msgs \cap DOMAIN msgs' : msgs'[m].conv = msgs[m].conv

\* ... starts no thread, ...
ThreadsGoOn ==
  \A t \in turns' : t.at # "written" =>
    \E u \in turns : u.at # "written" /\ u.msg = t.msg /\ u.conv = t.conv

\* ... is about to launch replies in their own chat, ...
NewLaunches == \A r \in reqs' : r.at = "launch" => r \in reqs \/ msgs'[r.target].conv = r.conv

\* ... waits no longer than for an idle chat, ...
NewWaits ==
  \A r \in reqs' : Waiting(r) => ~ Running(r.conv) \/ \E s \in reqs : Waiting(s) /\ s.conv = r.conv

\* ... and is about to show what was asked for.
NewShows ==
  \A r \in reqs' : r.at = "show" => SameRows /\ (r \in reqs \/ r.target \in Branch(r.conv, r.parent))

\* Whatever the step, what is about to be shown is what was asked for.
LEMMA ShowsKept ==
  ASSUME TypeOK, TreeInv, ShowsAsked, TypeOK', TreeInv', NewShows
  PROVE  ShowsAsked'
<1>1. SUFFICES ASSUME NEW r \in reqs', r.at = "show"
               PROVE  r.target \in Branch(r.conv, r.parent)'
  BY DEF ShowsAsked
<1>2. SameRows /\ r.target \in Branch(r.conv, r.parent)
  BY <1>1 DEF NewShows, ShowsAsked
<1>3. r.parent \in Ids \cup {None}
  BY <1>1 DEF TypeOK, Request
<1>4. ParentOlder /\ ParentOlder'
  BY DEF TreeInv
<1>5. Branch(r.conv, r.parent)' = Branch(r.conv, r.parent)
  BY <1>2, <1>3, <1>4, SameBranches
<1>6. QED
  BY <1>2, <1>5

LEMMA RewriteKept ==
  ASSUME TypeOK, RewriteInv, TypeOK', TreeInv', OwnInv', SameHomes, ThreadsGoOn, NewLaunches,
         NewWaits, NewShows
  PROVE  RewriteInv'
<1>1. ThreadsHome'
  <2>1. ASSUME NEW t \in turns', t.at # "written" PROVE msgs'[t.msg].conv = t.conv
    <3>1. PICK u \in turns : u.at # "written" /\ u.msg = t.msg /\ u.conv = t.conv
      BY <2>1 DEF ThreadsGoOn
    <3>2. t.msg \in DOMAIN msgs'
      BY <2>1 DEF OwnInv, ThreadsOwn, Streams
    <3>3. t.msg \in DOMAIN msgs /\ msgs[t.msg].conv = t.conv
      BY <3>1 DEF RewriteInv, OwnInv, ThreadsOwn, Streams, ThreadsHome
    <3>4. QED
      BY <3>2, <3>3 DEF SameHomes
  <2>2. ASSUME NEW r \in reqs', r.at = "launch" PROVE msgs'[r.target].conv = r.conv
    <3>1. CASE r \in reqs
      <4>1. r.target \in DOMAIN msgs'
        BY <2>2 DEF OwnInv, LaunchesOwn, Streams
      <4>2. r.target \in DOMAIN msgs /\ msgs[r.target].conv = r.conv
        BY <2>2, <3>1 DEF RewriteInv, OwnInv, LaunchesOwn, Streams, ThreadsHome
      <4>3. QED
        BY <4>1, <4>2 DEF SameHomes
    <3>2. QED
      BY <2>2, <3>1 DEF NewLaunches
  <2>3. QED
    BY <2>1, <2>2 DEF ThreadsHome
<1>2. StaysIdle'
  <2>1. \A k : Running(k)' => Running(k)
    BY DEF Running, ThreadsGoOn
  <2>2. ASSUME NEW r \in reqs', Waiting(r) PROVE ~ Running(r.conv)
    <3>1. CASE \E s \in reqs : Waiting(s) /\ s.conv = r.conv
      BY <3>1 DEF RewriteInv, StaysIdle
    <3>2. QED
      BY <2>2, <3>1 DEF NewWaits
  <2>3. QED
    BY <2>1, <2>2 DEF StaysIdle
<1>3. ShowsAsked'
  BY ShowsKept DEF RewriteInv
<1>4. QED
  BY <1>1, <1>2, <1>3 DEF RewriteInv

\* A step that leaves messages and threads alone, and at most this request.
LEMMA RewriteGoes ==
  ASSUME TypeOK, RewriteInv, TypeOK', TreeInv', OwnInv', UNCHANGED <<msgs, turns>>,
         NEW s, reqs' = {s}, s.at # "launch",
         Waiting(s) => ~ Running(s.conv) \/ \E r \in reqs : Waiting(r) /\ r.conv = s.conv,
         s.at = "show" => s.target \in Branch(s.conv, s.parent)
  PROVE  RewriteInv'
<1>1. SameRows /\ SameHomes /\ ThreadsGoOn
  BY DEF SameRows, SameHomes, ThreadsGoOn
<1>2. NewLaunches /\ NewWaits /\ NewShows
  BY <1>1 DEF NewLaunches, NewWaits, NewShows
<1>3. QED
  BY <1>1, <1>2, RewriteKept

\* A step that leaves no request behind, and the threads alone.
LEMMA RewriteEnds ==
  ASSUME TypeOK, RewriteInv, TypeOK', TreeInv', OwnInv', SameHomes, UNCHANGED turns, reqs' = {}
  PROVE  RewriteInv'
<1>1. ThreadsGoOn /\ NewLaunches /\ NewWaits /\ NewShows
  BY DEF ThreadsGoOn, NewLaunches, NewWaits, NewShows
<1>2. QED
  BY <1>1, RewriteKept

\* A new request.
LEMMA RewriteAccepted ==
  ASSUME OneTab, TypeOK, RewriteInv, TypeOK', TreeInv', OwnInv', UNCHANGED <<msgs, turns>>,
         NEW c \in Clients, Free(c), NEW k, NEW op, NEW at \in {"user", "read", "check"}, NEW m,
         Accept(c, k, op, at, m), at = "user" => op = "send", at = "read" => ~ Running(k)
  PROVE  RewriteInv'
<1>1. PICK s : s = [client |-> c, conv |-> k, op |-> op, at |-> at,
                    target |-> m, parent |-> None, born |-> 0]
  OBVIOUS
<1>2. s.conv = k /\ s.op = op /\ s.at = at
  BY <1>1
<1>3. reqs' = {s}
  BY <1>1, NobodyElse DEF Accept
<1>4. Waiting(s) => ~ Running(s.conv)
  BY <1>2 DEF Waiting
<1>5. s.at # "launch" /\ s.at # "show"
  BY <1>2
<1>6. QED
  BY <1>3, <1>4, <1>5, RewriteGoes

LEMMA RewriteRequestStep ==
  ASSUME TypeOK, RewriteInv, TypeOK', TreeInv', OwnInv', NEW r \in reqs, RequestStep(r)
  PROVE  RewriteInv'
<1>1. r \in Request /\ reqs = {r} /\ Remembers(r) /\ ParentOlder
  BY DEF TypeOK, RewriteInv, TreeInv, OneRequest
<1>2. UNCHANGED msgs => SameHomes
  BY DEF SameHomes
<1>3. CASE CheckIdle(r)
  <2>1. UNCHANGED <<msgs, turns>>
    BY <1>3 DEF CheckIdle
  <2>2. CASE reqs' = {}
    BY <1>2, <2>1, <2>2, RewriteEnds
  <2>3. CASE reqs' = {[r EXCEPT !.at = "delete"]} /\ Idle(r.conv)
    <3>1. PICK s : s = [r EXCEPT !.at = "delete"]
      OBVIOUS
    <3>2. s.at = "delete" /\ s.conv = r.conv
      BY <1>1, <3>1 DEF Request
    <3>3. ~ Running(s.conv)
      BY <2>3, <3>2, IdleRests DEF RewriteInv
    <3>4. reqs' = {s} /\ s.at # "launch" /\ s.at # "show"
      BY <2>3, <3>1, <3>2
    <3>5. QED
      BY <2>1, <3>3, <3>4, RewriteGoes
  <2>4. QED
    BY <1>1, <1>3, <2>2, <2>3 DEF CheckIdle, Goes, Ends
<1>4. CASE Read(r)
  <2>1. UNCHANGED <<msgs, turns>> /\ r.at = "read"
    BY <1>4 DEF Read
  <2>2. CASE reqs' = {}
    BY <1>2, <2>1, <2>2, RewriteEnds
  <2>3. ASSUME NEW at \in {"reply", "user", "show"}, NEW n, reqs' = {[r EXCEPT !.at = at, !.parent = n]},
               at = "show" => r.target \in Branch(r.conv, n)
        PROVE  RewriteInv'
    <3>1. PICK s : s = [r EXCEPT !.at = at, !.parent = n]
      OBVIOUS
    <3>2. s.at = at /\ s.conv = r.conv /\ s.parent = n /\ s.target = r.target
      BY <1>1, <3>1 DEF Request
    <3>3. \E q \in reqs : Waiting(q) /\ q.conv = s.conv
      BY <2>1, <3>2 DEF Waiting
    <3>4. reqs' = {s} /\ s.at # "launch"
      BY <2>3, <3>1, <3>2
    <3>5. s.at = "show" => s.target \in Branch(s.conv, s.parent)
      BY <2>3, <3>2
    <3>6. QED
      BY <2>1, <3>3, <3>4, <3>5, RewriteGoes
  <2>4. CASE r.target \in In(r.conv)
    <3>1. ASSUME NEW n \in Ids, Newest(Below(r.conv, r.target), n),
                 Goes(r, [r EXCEPT !.at = "show", !.parent = n])
          PROVE  RewriteInv'
      <4>1. n \in Below(r.conv, r.target)
        BY <3>1 DEF Newest
      <4>2. r.target \in Branch(r.conv, n)
        BY <1>1, <2>4, <4>1, BelowBranch
      <4>3. reqs' = {[r EXCEPT !.at = "show", !.parent = n]}
        BY <1>1, <3>1 DEF Goes
      <4>4. QED
        BY <2>3, <4>2, <4>3
    <3>2. CASE Goes(r, [r EXCEPT !.at = "reply", !.parent = msgs[r.target].parent])
      <4>1. reqs' = {[r EXCEPT !.at = "reply", !.parent = msgs[r.target].parent]}
        BY <1>1, <3>2 DEF Goes
      <4>2. QED
        BY <2>3, <4>1
    <3>3. CASE Goes(r, [r EXCEPT !.at = "user", !.parent = msgs[r.target].parent])
      <4>1. reqs' = {[r EXCEPT !.at = "user", !.parent = msgs[r.target].parent]}
        BY <1>1, <3>3 DEF Goes
      <4>2. QED
        BY <2>3, <4>1
    <3>4. QED
      BY <1>4, <2>4, <3>1, <3>2, <3>3 DEF Read
  <2>5. QED
    BY <1>1, <1>4, <2>2, <2>4 DEF Read, Ends
<1>5. CASE AddPrompt(r)
  <2>1. PICK m \in Ids, p \in Ids \cup {None} :
          /\ AddMessage(r.conv, m, "user", p, "done")
          /\ Goes(r, [r EXCEPT !.at = "reply", !.parent = m])
    BY <1>5 DEF AddPrompt
  <2>2. PICK s : s = [r EXCEPT !.at = "reply", !.parent = m]
    OBVIOUS
  <2>3. s.at = "reply" /\ s.op = r.op /\ s.conv = r.conv /\ reqs' = {s}
    BY <1>1, <2>1, <2>2 DEF Request, Goes
  <2>4. SameHomes /\ ThreadsGoOn
    BY <1>5, <2>1, NewRow DEF AddPrompt, SameHomes, ThreadsGoOn
  <2>5. NewLaunches /\ NewShows
    BY <2>3 DEF NewLaunches, NewShows
  <2>6. r.at = "user"
    BY <1>5 DEF AddPrompt
  <2>7. NewWaits
    BY <2>3, <2>6 DEF NewWaits, Waiting
  <2>8. QED
    BY <2>4, <2>5, <2>7, RewriteKept
<1>6. CASE AddReply(r)
  <2>1. PICK m \in Ids :
          /\ AddMessage(r.conv, m, "assistant", r.parent, "streaming")
          /\ Goes(r, [r EXCEPT !.at = "launch", !.target = m, !.born = made + 1])
    BY <1>6 DEF AddReply
  <2>2. PICK s : s = [r EXCEPT !.at = "launch", !.target = m, !.born = made + 1]
    OBVIOUS
  <2>3. s.at = "launch" /\ s.conv = r.conv /\ s.target = m /\ reqs' = {s}
    BY <1>1, <2>1, <2>2 DEF Request, Goes
  <2>4. SameHomes /\ ThreadsGoOn
    BY <1>6, <2>1, NewRow DEF AddReply, SameHomes, ThreadsGoOn
  <2>5. msgs'[m].conv = r.conv
    BY <2>1 DEF AddMessage
  <2>6. NewLaunches
    BY <2>3, <2>5 DEF NewLaunches
  <2>7. NewWaits /\ NewShows
    BY <2>3 DEF NewWaits, NewShows, Waiting
  <2>8. QED
    BY <2>4, <2>6, <2>7, RewriteKept
<1>7. CASE Launch(r)
  <2> DEFINE t == [msg |-> r.target, conv |-> r.conv, born |-> r.born, at |-> "starting"]
  <2>1. turns' = turns \cup {t} /\ reqs' = {} /\ UNCHANGED msgs /\ r.at = "launch"
    BY <1>1, <1>7 DEF Launch, Ends
  <2>2. t.msg = r.target /\ t.conv = r.conv
    OBVIOUS
  <2>3. msgs[r.target].conv = r.conv
    BY <2>1 DEF RewriteInv, ThreadsHome
  <2> HIDE DEF t
  <2>4. ThreadsHome'
    BY <2>1, <2>2, <2>3 DEF RewriteInv, ThreadsHome
  <2>5. StaysIdle' /\ ShowsAsked'
    BY <2>1 DEF StaysIdle, ShowsAsked
  <2>6. QED
    BY <2>4, <2>5 DEF RewriteInv
<1>8. CASE Show(r)
  BY <1>1, <1>2, <1>8, RewriteEnds DEF Show, Ends
<1>9. CASE Delete(r)
  <2>1. reqs' = {} /\ UNCHANGED turns
    BY <1>1, <1>9 DEF Delete, Ends
  <2>2. SameHomes
    <3>1. CASE UNCHANGED msgs
      BY <1>2, <3>1
    <3>2. CASE r.target \in In(r.conv) /\ Prune(r.conv, r.target)
      <4>1. \A m \in DOMAIN msgs' : msgs'[m].conv = msgs[m].conv
        BY <3>2, PrunedRows
      <4>2. QED
        BY <4>1 DEF SameHomes
    <3>3. QED
      BY <1>9, <3>1, <3>2 DEF Delete
  <2>3. QED
    BY <2>1, <2>2, RewriteEnds
<1>10. QED
  BY <1>3, <1>4, <1>5, <1>6, <1>7, <1>8, <1>9 DEF RequestStep

\* Reply threads move no message, and start no other thread.
LEMMA RewriteThreadStep ==
  ASSUME TypeOK, RewriteInv, TypeOK', TreeInv', OwnInv', NEW t \in turns, ThreadStep(t)
  PROVE  RewriteInv'
<1>1. t \in Thread
  BY DEF TypeOK
<1>2. SameRows /\ UNCHANGED reqs
  <2>1. ASSUME NEW status \in {"done", "error"}, Write(t, status) PROVE SameRows /\ UNCHANGED reqs
    BY <2>1 DEF Write, SameRows, TypeOK, Row
  <2>2. QED
    BY <2>1 DEF ThreadStep, Begin, Exit, SameRows
<1>3. ThreadsGoOn
  <2>1. CASE Begin(t)
    <3>1. PICK u : u = [t EXCEPT !.at = "running"]
      OBVIOUS
    <3>2. turns' = (turns \ {t}) \cup {u} /\ t.at # "written"
      BY <2>1, <3>1 DEF Begin
    <3>3. u.msg = t.msg /\ u.conv = t.conv
      BY <1>1, <3>1 DEF Thread
    <3>4. QED
      BY <3>2, <3>3 DEF ThreadsGoOn
  <2>2. ASSUME NEW status \in {"done", "error"}, Write(t, status) PROVE ThreadsGoOn
    <3>1. PICK u : u = [t EXCEPT !.at = "written"]
      OBVIOUS
    <3>2. turns' = (turns \ {t}) \cup {u} /\ u.at = "written"
      BY <1>1, <2>2, <3>1 DEF Write, Thread
    <3>3. QED
      BY <3>2 DEF ThreadsGoOn
  <2>3. CASE Exit(t)
    BY <2>3 DEF Exit, ThreadsGoOn
  <2>4. QED
    BY <2>1, <2>2, <2>3 DEF ThreadStep
<1>4. SameHomes /\ NewLaunches /\ NewShows
  BY <1>2 DEF SameRows, SameHomes, NewLaunches, NewShows
<1>5. NewWaits
  BY <1>2 DEF NewWaits
<1>6. QED
  BY <1>3, <1>4, <1>5, RewriteKept

LEMMA RewriteStep ==
  ASSUME Undisturbed, ~ orphaned', TypeOK, RewriteInv, TypeOK', [Next]_vars
  PROVE  RewriteInv'
<1>1. OneTab /\ MaxRestarts = 0 /\ TreeInv /\ OwnInv /\ ThreadsHome
  BY DEF Undisturbed, RewriteInv
<1>2. TreeInv' /\ OwnInv'
  BY <1>1, TreeStep, OwnStep
<1>3. ASSUME NEW c \in Clients, NEW k \in Convs, Send(c, k) PROVE RewriteInv'
  BY <1>1, <1>2, <1>3, RewriteAccepted DEF Send
<1>4. ASSUME NEW c \in Clients, NEW k \in Convs, DeleteConv(c, k) PROVE RewriteInv'
  <2>1. reqs' = {} /\ UNCHANGED turns
    BY <1>1, <1>4, NobodyElse DEF DeleteConv
  <2>2. SameHomes
    BY <1>4 DEF DeleteConv, SameHomes
  <2>3. QED
    BY <1>2, <2>1, <2>2, RewriteEnds
<1>5. ASSUME NEW c \in Clients, NEW k \in Convs, NEW op \in {"retry", "edit", "switch"},
             NEW m \in Ids, Rewrite(c, k, op, m)
      PROVE  RewriteInv'
  <2>1. ~ Running(k)
    BY <1>1, <1>5, IdleRests DEF Rewrite
  <2>2. QED
    BY <1>1, <1>2, <1>5, <2>1, RewriteAccepted DEF Rewrite
<1>6. ASSUME NEW c \in Clients, NEW m \in Ids, AskDelete(c, m) PROVE RewriteInv'
  BY <1>1, <1>2, <1>6, RewriteAccepted DEF AskDelete
<1>7. CASE Restart
  BY <1>1, <1>7 DEF Restart, TypeOK
<1>8. CASE UNCHANGED vars
  <2>1. SameRows /\ SameHomes /\ ThreadsGoOn /\ UNCHANGED reqs
    BY <1>8 DEF vars, SameRows, SameHomes, ThreadsGoOn
  <2>2. NewLaunches /\ NewWaits /\ NewShows
    BY <2>1 DEF NewLaunches, NewWaits, NewShows
  <2>3. QED
    BY <1>2, <2>1, <2>2, RewriteKept
<1>9. QED
  BY <1>2, <1>3, <1>4, <1>5, <1>6, <1>7, <1>8, RewriteRequestStep, RewriteThreadStep DEF Next

\* What is about to be shown stays what was asked for, also when a chat was
\* deleted under its reply: replies change no tree.
LEMMA ShowsStep ==
  ASSUME Undisturbed, TypeOK, TreeInv, ShowsAsked, TypeOK', TreeInv', [Next]_vars
  PROVE  ShowsAsked'
<1>0. OneTab /\ MaxRestarts = 0 /\ ParentOlder
  BY DEF Undisturbed, TreeInv
<1>1. ASSUME \A r \in reqs' : r.at # "show" PROVE ShowsAsked'
  BY <1>1 DEF ShowsAsked
<1>2. ASSUME NEW c \in Clients, NEW k, NEW op, NEW at \in {"user", "read", "check"}, NEW m,
             Free(c), Accept(c, k, op, at, m)
      PROVE  ShowsAsked'
  <2>1. \A r \in reqs' : r.at = at
    BY <1>0, <1>2, NobodyElse DEF Accept
  <2>2. QED
    BY <1>1, <2>1
<1>3. ASSUME NEW c \in Clients, NEW k \in Convs, DeleteConv(c, k) PROVE ShowsAsked'
  <2>1. reqs' = {}
    BY <1>0, <1>3, NobodyElse DEF DeleteConv
  <2>2. QED
    BY <1>1, <2>1
<1>4. ASSUME NEW r \in reqs, RequestStep(r) PROVE ShowsAsked'
  <2>1. r \in Request /\ reqs = {r}
    BY DEF TypeOK, TreeInv, OneRequest
  <2>2. CASE CheckIdle(r)
    BY <1>1, <2>1, <2>2 DEF CheckIdle, Goes, Ends, Request
  <2>3. CASE Read(r)
    <3>1. CASE r.op # "switch" \/ r.target \notin In(r.conv)
      <4>1. \A s \in reqs' : s.at # "show"
        BY <2>1, <2>3, <3>1 DEF Read, Goes, Ends, Request
      <4>2. QED
        BY <1>1, <4>1
    <3>2. CASE r.op = "switch" /\ r.target \in In(r.conv)
      <4>1. PICK n \in Ids : /\ Newest(Below(r.conv, r.target), n)
                             /\ Goes(r, [r EXCEPT !.at = "show", !.parent = n])
        BY <2>3, <3>2 DEF Read
      <4>2. r.target \in Branch(r.conv, n)
        BY <1>0, <3>2, <4>1, BelowBranch DEF Newest
      <4>3. PICK s : s = [r EXCEPT !.at = "show", !.parent = n]
        OBVIOUS
      <4>4. s.conv = r.conv /\ s.parent = n /\ s.target = r.target /\ reqs' = {s}
        BY <2>1, <4>1, <4>3 DEF Request, Goes
      <4>5. SameRows
        BY <2>3 DEF Read, SameRows
      <4>6. NewShows
        BY <4>2, <4>4, <4>5 DEF NewShows
      <4>7. QED
        BY <4>6, ShowsKept
    <3>3. QED
      BY <3>1, <3>2
  <2>4. CASE AddPrompt(r)
    <3>1. \A s \in reqs' : s.at = "reply"
      BY <2>1, <2>4 DEF AddPrompt, Goes, Request
    <3>2. QED
      BY <1>1, <3>1
  <2>5. CASE AddReply(r)
    <3>1. \A s \in reqs' : s.at = "launch"
      BY <2>1, <2>5 DEF AddReply, Goes, Request
    <3>2. QED
      BY <1>1, <3>1
  <2>6. CASE Launch(r) \/ Show(r) \/ Delete(r)
    <3>1. reqs' = {}
      BY <2>1, <2>6 DEF Launch, Show, Delete, Ends
    <3>2. QED
      BY <1>1, <3>1
  <2>7. QED
    BY <1>4, <2>2, <2>3, <2>4, <2>5, <2>6 DEF RequestStep
<1>5. ASSUME SameRows, UNCHANGED reqs PROVE ShowsAsked'
  <2>1. NewShows
    BY <1>5 DEF NewShows
  <2>2. QED
    BY <2>1, ShowsKept
<1>6. ASSUME NEW t \in turns, ThreadStep(t) PROVE ShowsAsked'
  <2>1. SameRows /\ UNCHANGED reqs
    <3>1. ASSUME NEW status \in {"done", "error"}, Write(t, status) PROVE SameRows /\ UNCHANGED reqs
      BY <3>1 DEF Write, SameRows, TypeOK, Row
    <3>2. QED
      BY <1>6, <3>1 DEF ThreadStep, Begin, Exit, SameRows
  <2>2. QED
    BY <1>5, <2>1
<1>7. CASE UNCHANGED vars
  BY <1>5, <1>7 DEF vars, SameRows
<1>8. ~ Restart
  BY <1>0 DEF Restart, TypeOK
<1>9. ASSUME NEW c \in Clients, NEW k \in Convs, Send(c, k) PROVE ShowsAsked'
  BY <1>2, <1>9 DEF Send
<1>10. ASSUME NEW c \in Clients, NEW k \in Convs, NEW op \in {"retry", "edit", "switch"},
              NEW m \in Ids, Rewrite(c, k, op, m)
       PROVE  ShowsAsked'
  BY <1>2, <1>10 DEF Rewrite
<1>11. ASSUME NEW c \in Clients, NEW m \in Ids, AskDelete(c, m) PROVE ShowsAsked'
  BY <1>2, <1>11 DEF AskDelete
<1>12. QED
  BY <1>3, <1>4, <1>6, <1>7, <1>8, <1>9, <1>10, <1>11 DEF Next

\* What a step changes of a chat's history, for the three things asked of it.
DeletesOneTurn ==
  \A r \in reqs : Delete(r) =>
    LET k == r.conv
        turn == Versions(k, r.target)
                  \cup {m \in Replies(k, r.target) : msgs[m].role = "assistant"}
    IN  r.target \in In(k) =>
          Branch(k, LeafOf(k))' = Branch(k, LeafOf(k)) \ turn

ShowsTarget == \A r \in reqs : Show(r) => r.target \in Branch(r.conv, LeafOf(r.conv))'

WaitsForReplies ==
  \A r \in reqs :
    \/ r.op = "edit" /\ AddPrompt(r)
    \/ r.op = "retry" /\ AddReply(r)
    \/ Show(r)
    \/ Delete(r) /\ msgs' # msgs
    => orphaned \/ ~ Running(r.conv)

\* The trees hold whatever is deleted, and what is rewritten waits for replies
\* until a chat is deleted under one.
HistoryInv == TreeInv /\ ShowsAsked /\ (orphaned \/ RewriteInv)

\* With one tab and no restart in between, rewriting a chat changes its shown
\* branch as asked: deleting a turn leaves the branch as if the turn never
\* happened, switching shows a branch through the message asked for, and, until a
\* chat is deleted under a running reply, both, like an edit and a retry, wait until
\* no reply of the chat is running.
THEOREM RewritingIsWell ==
  ASSUME Undisturbed
  PROVE  Spec => RewritesWell
<1>1. Init => HistoryInv
  BY DEF Init, HistoryInv, RewriteInv, TreeInv, OwnInv, OneRequest, ParentOlder, ParentPresent, Alternates,
         Housed, LeafHolds, LeafOk, Answered, In, ThreadsOwn, LaunchesOwn, DeletesIdle, ThreadsHome,
         StaysIdle, ShowsAsked
<1>2. TypeOK /\ HistoryInv /\ TypeOK' /\ [Next]_vars => HistoryInv'
  <2>1. SUFFICES ASSUME TypeOK, HistoryInv, TypeOK', [Next]_vars PROVE HistoryInv'
    OBVIOUS
  <2>2. TreeInv'
    BY <2>1, TreeStep DEF HistoryInv
  <2>3. ShowsAsked'
    BY <2>1, <2>2, ShowsStep DEF HistoryInv
  <2>4. ASSUME ~ orphaned' PROVE RewriteInv'
    <3>1. ~ Restart
      BY <2>1 DEF Undisturbed, Restart, TypeOK
    <3>2. RewriteInv
      BY <2>1, <2>4, <3>1, OrphansStay DEF HistoryInv
    <3>3. QED
      BY <2>1, <2>4, <3>2, RewriteStep
  <2>5. QED
    BY <2>2, <2>3, <2>4 DEF HistoryInv
<1>3. TypeOK /\ HistoryInv /\ TypeOK' /\ HistoryInv' /\ [Next]_vars => [DeletesOneTurn]_vars
  <2>1. SUFFICES ASSUME TypeOK, HistoryInv, TypeOK', HistoryInv'
                 PROVE  DeletesOneTurn
    OBVIOUS
  <2>2. TreeInv /\ TreeInv'
    BY <2>1 DEF HistoryInv
  <2>3. QED
    BY <2>1, <2>2, TurnReadsOn DEF DeletesOneTurn, Answers
<1>4. TypeOK /\ HistoryInv /\ TypeOK' /\ HistoryInv' /\ [Next]_vars => [ShowsTarget]_vars
  <2>1. SUFFICES ASSUME TypeOK, HistoryInv, TypeOK', HistoryInv'
                 PROVE  ShowsTarget
    OBVIOUS
  <2>2. TreeInv /\ ShowsAsked /\ TreeInv'
    BY <2>1 DEF HistoryInv
  <2>3. QED
    BY <2>1, <2>2, ShownAsAsked DEF ShowsTarget
<1>5. HistoryInv => [WaitsForReplies]_vars
  <2>1. SUFFICES ASSUME HistoryInv, ~ orphaned,
                        NEW r \in reqs,
                        \/ r.op = "edit" /\ AddPrompt(r)
                        \/ r.op = "retry" /\ AddReply(r)
                        \/ Show(r)
                        \/ Delete(r) /\ msgs' # msgs
                 PROVE  ~ Running(r.conv)
    BY DEF WaitsForReplies
  <2>2. Waiting(r)
    BY <2>1 DEF AddPrompt, AddReply, Show, Delete, Waiting
  <2>3. QED
    BY <2>1, <2>2 DEF HistoryInv, RewriteInv, StaysIdle
<1>6. Spec => [](TypeOK /\ HistoryInv)
  BY <1>1, <1>2, TypeCorrect, PTL DEF Spec
<1>7. Spec => [][DeletesOneTurn]_vars /\ [][ShowsTarget]_vars /\ [][WaitsForReplies]_vars
  BY <1>3, <1>4, <1>5, <1>6, PTL DEF Spec
<1>8. [][DeletesOneTurn]_vars => ReadsOn
  BY PTL DEF ReadsOn, DeletesOneTurn
<1>9. [][ShowsTarget]_vars => SwitchShowsTarget
  BY PTL DEF SwitchShowsTarget, ShowsTarget
<1>10. [][WaitsForReplies]_vars => RewriteWaits
  BY PTL DEF RewriteWaits, WaitsForReplies
<1>11. QED
  BY <1>7, <1>8, <1>9, <1>10 DEF RewritesWell

=============================================================================
