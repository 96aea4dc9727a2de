------------------------------ MODULE ChatTree ------------------------------
(***************************************************************************)
(* The message trees of the server's chats, the requests that grow, prune  *)
(* and switch them, and the reply threads those requests start.            *)
(*                                                                         *)
(* Every method of the metadata database runs under one lock, so a method  *)
(* call is one atomic step; a request is several of them, and the steps of *)
(* concurrent requests and reply threads interleave.                       *)
(*                                                                         *)
(* Rows are keyed by the table's integer primary key, which SQLite assigns *)
(* as the largest key plus one: the key of a deleted newest row is handed  *)
(* out again.  `born' is a history field that tells two rows apart that    *)
(* had the same key; nothing in the code reads it.                         *)
(***************************************************************************)
EXTENDS Naturals

CONSTANTS
  Convs,          \* the chats, all created and empty at the start
  Clients,        \* browser tabs: each has at most one request in a handler
  MaxMessages,    \* bound on the keys in the table
  MaxMade,        \* bound on the messages ever added
  MaxRestarts     \* bound on the restarts of the server

ASSUME BoundsAssumption ==
  /\ MaxMessages \in Nat
  /\ MaxMade \in Nat
  /\ MaxRestarts \in Nat

VARIABLES
  msgs,          \* the chat_messages table: key -> row
  convs,         \* the chats that exist
  leaf,          \* current_leaf_id of each chat (None: NULL)
  reqs,          \* the requests being handled
  turns,         \* the reply threads that run
  cancelEvents,  \* _cancel_events: reply key -> the thread whose flag it is
  made,          \* how many messages were ever added
  restarts,
  orphaned       \* history: a chat was deleted under its reply since the start

vars == <<msgs, convs, leaf, reqs, turns, cancelEvents, made, restarts, orphaned>>

None == 0
Ids == 1 .. MaxMessages
Serials == 1 .. MaxMade

Row == [conv: Convs, parent: Ids \cup {None}, role: {"user", "assistant"},
        status: {"streaming", "done", "error"}, born: Serials]

\* `at' is the database call the handler makes next.
Request == [client: Clients, conv: Convs,
            op: {"send", "retry", "edit", "switch", "delete"},
            at: {"read", "check", "user", "reply", "launch", "show", "delete"},
            target: Ids \cup {None}, parent: Ids \cup {None}, born: Serials \cup {0}]

Thread == [msg: Ids, conv: Convs, born: Serials,
           at: {"starting", "running", "written"}]

\* Rows have a valid shape, and so do requests and threads.
TypeOK ==
  /\ DOMAIN msgs \subseteq Ids
  /\ \A m \in DOMAIN msgs : msgs[m] \in Row
  /\ convs \subseteq Convs
  /\ leaf \in [Convs -> Ids \cup {None}]
  /\ reqs \subseteq Request
  /\ \A r \in reqs : r.at = "launch" => r.target \in Ids /\ r.born \in Serials
  /\ turns \subseteq Thread
  /\ cancelEvents \in [Ids -> Serials \cup {0}]
  /\ made \in 0 .. MaxMade
  /\ restarts \in 0 .. MaxRestarts
  /\ orphaned \in BOOLEAN

Init ==
  /\ msgs = [m \in {} |-> None]
  /\ convs = Convs
  /\ leaf = [k \in Convs |-> None]
  /\ reqs = {}
  /\ turns = {}
  /\ cancelEvents = [m \in Ids |-> 0]
  /\ made = 0
  /\ restarts = 0
  /\ orphaned = FALSE

-----------------------------------------------------------------------------
(* The tree *)

In(k) == {m \in DOMAIN msgs : msgs[m].conv = k}

Children(k, m) == {c \in In(k) : msgs[c].parent = m}

Newest(S, m) == m \in S /\ \A n \in S : n <= m

\* _chat_leaf_id: the recorded leaf if its row exists, else the newest message.
ShownLeaf(k, m) ==
  \/ k \in convs /\ leaf[k] \in DOMAIN msgs /\ m = leaf[k]
  \/ k \in convs /\ leaf[k] \notin DOMAIN msgs /\ Newest(In(k), m)
  \/ (k \in convs => leaf[k] \notin DOMAIN msgs /\ In(k) = {}) /\ m = None

LeafOf(k) == CHOOSE m \in Ids \cup {None} : ShownLeaf(k, m)

\* The chain of parents from m, step by step, until it leaves the chat.
Chain(k, m) ==
  LET up[i \in 0 .. MaxMessages] ==
        IF i = 0 THEN m
        ELSE LET n == up[i - 1] IN IF n \in In(k) THEN msgs[n].parent ELSE None
  IN  up

\* _branch_to: the messages of the branch that ends at m ...
Branch(k, m) == {Chain(k, m)[i] : i \in 0 .. MaxMessages} \cap In(k)

\* ... which the walk finds in finitely many steps unless a parent chain loops.
WalkEnds(k, m) == Chain(k, m)[MaxMessages] \notin In(k)

\* Everything that grows from S through children outside `kept'.
Grown(k, S, kept) ==
  LET down[i \in 0 .. MaxMessages] ==
        IF i = 0 THEN S
        ELSE LET T == down[i - 1] IN T \cup {c \in In(k) \ kept : msgs[c].parent \in T}
  IN  down[MaxMessages]

\* Mutant: the switch forgets what hangs on the message.
BelowNothing(k, m) == {m}

\* api_switch_branch's single pass over the chat in key order.
Below(k, m) ==
  LET pass[i \in 0 .. MaxMessages] ==
        IF i = 0 THEN {m}
        ELSE LET T == pass[i - 1]
             IN  IF i \in In(k) /\ msgs[i].parent \in T THEN T \cup {i} ELSE T
  IN  pass[MaxMessages]

\* _chat_exchange_plan: every version of the prompt and every reply to them,
\* what follows the shown reply (kept), and all that goes.
Versions(k, p) == {v \in Children(k, msgs[p].parent) : msgs[v].role = "user"}

Replies(k, p) == UNION {Children(k, v) : v \in Versions(k, p)}

\* Mutant: what follows the shown reply goes with it.
KeptNothing(k, p) == {}

KeptNext(k, p) ==
  UNION {Children(k, r) : r \in Replies(k, p) \cap Branch(k, LeafOf(k))}

Doomed(k, p) == Grown(k, Versions(k, p), KeptNext(k, p)) \cap In(k)

\* Mutant: nobody asks whether a reply is running.
NeverBusy(k) == TRUE

Idle(k) == \A m \in In(k) : msgs[m].status # "streaming"

-----------------------------------------------------------------------------
(* Adding a message: INSERT with the next key, shown at once *)

NextId(m) ==
  /\ \A n \in DOMAIN msgs : n < m
  /\ m = 1 \/ m - 1 \in DOMAIN msgs

AddMessage(k, m, role, parent, status) ==
  /\ made < MaxMade
  /\ NextId(m)
  /\ made' = made + 1
  /\ msgs' = [n \in DOMAIN msgs \cup {m} |->
                IF n = m
                THEN [conv |-> k, parent |-> parent, role |-> role,
                      status |-> status, born |-> made + 1]
                ELSE msgs[n]]
  /\ leaf' = IF k \in convs THEN [leaf EXCEPT ![k] = m] ELSE leaf

-----------------------------------------------------------------------------
(* Requests *)

Free(c) == \A r \in reqs : r.client # c

Accept(c, k, op, at, target) ==
  reqs' = reqs \cup {[client |-> c, conv |-> k, op |-> op, at |-> at,
                      target |-> target, parent |-> None, born |-> 0]}

Goes(r, s) == reqs' = (reqs \ {r}) \cup {s}

Ends(r) == reqs' = reqs \ {r}

\* api_send_message: the chat must exist; nothing asks whether it is idle.
Send(c, k) ==
  /\ Free(c)
  /\ k \in convs
  /\ Accept(c, k, "send", "user", None)
  /\ UNCHANGED <<msgs, convs, leaf, turns, cancelEvents, made, restarts, orphaned>>

\* api_retry, api_edit and api_switch_branch: the chat exists and is idle.
Rewrite(c, k, op, m) ==
  /\ Free(c)
  /\ k \in convs
  /\ Idle(k)
  /\ m \in In(k)
  /\ op = "retry" => msgs[m].role = "assistant"
  /\ op = "edit" => msgs[m].role = "user"
  /\ Accept(c, k, op, "read", m)
  /\ UNCHANGED <<msgs, convs, leaf, turns, cancelEvents, made, restarts, orphaned>>

\* api_delete_exchange: finds the prompt first, then asks whether it is idle.
AskDelete(c, m) ==
  /\ Free(c)
  /\ m \in DOMAIN msgs
  /\ msgs[m].role = "user"
  /\ Accept(c, msgs[m].conv, "delete", "check", m)
  /\ UNCHANGED <<msgs, convs, leaf, turns, cancelEvents, made, restarts, orphaned>>

CheckIdle(r) ==
  /\ r.at = "check"
  /\ IF Idle(r.conv) THEN Goes(r, [r EXCEPT !.at = "delete"]) ELSE Ends(r)
  /\ UNCHANGED <<msgs, convs, leaf, turns, cancelEvents, made, restarts, orphaned>>

\* The row the request is about, read after the idle check; gone or of
\* another chat by now: refused.
Read(r) ==
  /\ r.at = "read"
  /\ \/ r.target \notin In(r.conv) /\ Ends(r)
     \/ /\ r.target \in In(r.conv)
        /\ \/ r.op = "retry" /\ Goes(r, [r EXCEPT !.at = "reply", !.parent = msgs[r.target].parent])
           \/ r.op = "edit" /\ Goes(r, [r EXCEPT !.at = "user", !.parent = msgs[r.target].parent])
           \/ /\ r.op = "switch"
              /\ \E m \in Ids : /\ Newest(Below(r.conv, r.target), m)
                                /\ Goes(r, [r EXCEPT !.at = "show", !.parent = m])
  /\ UNCHANGED <<msgs, convs, leaf, turns, cancelEvents, made, restarts, orphaned>>

\* A prompt is appended to the shown branch, or put beside the edited one.
AddPrompt(r) ==
  /\ r.at = "user"
  /\ \E m \in Ids, p \in Ids \cup {None} :
       /\ IF r.op = "edit" THEN p = r.parent ELSE ShownLeaf(r.conv, p)
       /\ AddMessage(r.conv, m, "user", p, "done")
       /\ Goes(r, [r EXCEPT !.at = "reply", !.parent = m])
  /\ UNCHANGED <<convs, turns, cancelEvents, restarts, orphaned>>

\* _start_turn: the reply's row ...
AddReply(r) ==
  /\ r.at = "reply"
  /\ \E m \in Ids :
       /\ AddMessage(r.conv, m, "assistant", r.parent, "streaming")
       /\ Goes(r, [r EXCEPT !.at = "launch", !.target = m, !.born = made + 1])
  /\ UNCHANGED <<convs, turns, cancelEvents, restarts, orphaned>>

\* ... its cancel flag and its thread.
Launch(r) ==
  /\ r.at = "launch"
  /\ cancelEvents' = [cancelEvents EXCEPT ![r.target] = r.born]
  /\ turns' = turns \cup {[msg |-> r.target, conv |-> r.conv, born |-> r.born, at |-> "starting"]}
  /\ Ends(r)
  /\ UNCHANGED <<msgs, convs, leaf, made, restarts, orphaned>>

\* set_chat_leaf
Show(r) ==
  /\ r.at = "show"
  /\ leaf' = IF r.conv \in convs THEN [leaf EXCEPT ![r.conv] = r.parent] ELSE leaf
  /\ Ends(r)
  /\ UNCHANGED <<msgs, convs, turns, cancelEvents, made, restarts, orphaned>>

Prune(k, p) ==
  LET gone == Doomed(k, p)
      kept == KeptNext(k, p)
      up   == msgs[p].parent
  IN  /\ msgs' = [m \in DOMAIN msgs \ gone |->
                    IF m \in kept THEN [msgs[m] EXCEPT !.parent = up] ELSE msgs[m]]
      /\ leaf' = IF k \in convs /\ leaf[k] \in gone THEN [leaf EXCEPT ![k] = up] ELSE leaf

\* delete_chat_exchange; a prompt that is gone by now deletes nothing.
Delete(r) ==
  /\ r.at = "delete"
  /\ IF r.target \in In(r.conv) /\ msgs[r.target].role = "user"
     THEN Prune(r.conv, r.target)
     ELSE UNCHANGED <<msgs, leaf>>
  /\ Ends(r)
  /\ UNCHANGED <<convs, turns, cancelEvents, made, restarts, orphaned>>

\* api_delete_conversation: the chat and its messages go in one transaction,
\* whether or not a reply is running.
DeleteConv(c, k) ==
  /\ Free(c)
  /\ k \in convs
  /\ convs' = convs \ {k}
  /\ msgs' = [m \in DOMAIN msgs \ In(k) |-> msgs[m]]
  /\ leaf' = [leaf EXCEPT ![k] = None]
  /\ orphaned' = (orphaned \/ \E m \in In(k) : msgs[m].status = "streaming")
  /\ UNCHANGED <<reqs, turns, cancelEvents, made, restarts>>

-----------------------------------------------------------------------------
(* Reply threads *)

\* Turn.__init__ walks its own branch; on a looping chain it never returns.
Begin(t) ==
  /\ t.at = "starting"
  /\ WalkEnds(t.conv, t.msg)
  /\ turns' = (turns \ {t}) \cup {[t EXCEPT !.at = "running"]}
  /\ UNCHANGED <<msgs, convs, leaf, reqs, cancelEvents, made, restarts, orphaned>>

\* Turn.run's last write: whatever row has the reply's key gets the outcome.
Write(t, status) ==
  /\ t.at = "running"
  /\ turns' = (turns \ {t}) \cup {[t EXCEPT !.at = "written"]}
  /\ msgs' = [m \in DOMAIN msgs |->
                IF m = t.msg THEN [msgs[m] EXCEPT !.status = status] ELSE msgs[m]]
  /\ UNCHANGED <<convs, leaf, reqs, cancelEvents, made, restarts, orphaned>>

\* The worker's finally: pops the flag kept under its reply's key.
Exit(t) ==
  /\ t.at = "written"
  /\ turns' = turns \ {t}
  /\ cancelEvents' = [cancelEvents EXCEPT ![t.msg] = 0]
  /\ UNCHANGED <<msgs, convs, leaf, reqs, made, restarts, orphaned>>

\* Mutant: the replies that were streaming are left as they are.
RestartOnly ==
  /\ restarts < MaxRestarts
  /\ restarts' = restarts + 1
  /\ reqs' = {}
  /\ turns' = {}
  /\ cancelEvents' = [m \in Ids |-> 0]
  /\ orphaned' = FALSE
  /\ UNCHANGED <<msgs, convs, leaf, made>>

\* The process dies and comes back: startup_resume_chat fails the replies that
\* were streaming before any request is served.
Restart ==
  /\ restarts < MaxRestarts
  /\ restarts' = restarts + 1
  /\ reqs' = {}
  /\ turns' = {}
  /\ cancelEvents' = [m \in Ids |-> 0]
  /\ msgs' = [m \in DOMAIN msgs |->
                IF msgs[m].status = "streaming" THEN [msgs[m] EXCEPT !.status = "error"] ELSE msgs[m]]
  /\ orphaned' = FALSE
  /\ UNCHANGED <<convs, leaf, made>>

-----------------------------------------------------------------------------

RequestStep(r) ==
  \/ CheckIdle(r)
  \/ Read(r)
  \/ AddPrompt(r)
  \/ AddReply(r)
  \/ Launch(r)
  \/ Show(r)
  \/ Delete(r)

ThreadStep(t) ==
  \/ Begin(t)
  \/ \E status \in {"done", "error"} : Write(t, status)
  \/ Exit(t)

Next ==
  \/ \E c \in Clients, k \in Convs :
       \/ Send(c, k)
       \/ DeleteConv(c, k)
       \/ \E op \in {"retry", "edit", "switch"}, m \in Ids : Rewrite(c, k, op, m)
  \/ \E c \in Clients, m \in Ids : AskDelete(c, m)
  \/ \E r \in reqs : RequestStep(r)
  \/ \E t \in turns : ThreadStep(t)
  \/ Restart

Spec == Init /\ [][Next]_vars

\* The server's own threads keep running; clients and restarts owe nothing.
Fairness ==
  /\ \A c \in Clients : WF_vars(\E r \in reqs : r.client = c /\ RequestStep(r))
  /\ \A b \in Serials : WF_vars(\E t \in turns : t.born = b /\ ThreadStep(t))

FairSpec == Spec /\ Fairness

-----------------------------------------------------------------------------
(* Properties *)

\* "Children are always newer than their parent": what the single pass of
\* api_switch_branch and the end of every walk up the tree rest on.
ParentOlder == \A m \in DOMAIN msgs : msgs[m].parent < m

\* Every message hangs on a message of its own chat, so every branch reaches
\* back to the first message of the chat.
ParentPresent ==
  \A m \in DOMAIN msgs : msgs[m].parent # None => msgs[m].parent \in In(msgs[m].conv)

\* Prompts and replies alternate along every branch: "versions" and "replies"
\* of a turn mean what _chat_exchange_plan takes them for.
Alternates ==
  \A m \in DOMAIN msgs :
    IF msgs[m].parent = None THEN msgs[m].role = "user"
    ELSE msgs[m].parent \in DOMAIN msgs => msgs[msgs[m].parent].role # msgs[m].role

\* The chat shows a branch to its end: nothing hangs on the shown leaf.
LeafChildless == \A k \in convs : In(k) # {} => Children(k, LeafOf(k)) = {}

\* After any mix of retries, edits, switches and deletions a chat is a tree of
\* alternating prompts and replies whose walks end, shown along a whole branch
\* (helpers.py:154-185, messages.py:255-338).
TreeHolds == ParentOlder /\ ParentPresent /\ Alternates /\ LeafChildless

\* A row that says "streaming" has a thread that will still write it, or a
\* handler about to start that thread, whatever was restarted or deleted.
NoAbandonedReply ==
  \A m \in DOMAIN msgs : msgs[m].status = "streaming" =>
    \/ \E t \in turns : t.msg = m /\ t.at # "written"
    \/ \E r \in reqs : r.at = "launch" /\ r.target = m

\* Unless a chat was deleted under its reply since the server was started, the
\* row a thread is going to write is the reply it was started for, though the keys
\* of deleted turns and chats are handed out again (routes_turns.py:142-158). Once
\* one was, the next reply may get the key that the deleted chat's thread goes on
\* writing to.
ThreadOwnsItsReply ==
  orphaned \/ \A t \in turns : t.at # "written" =>
    /\ t.msg \in DOMAIN msgs
    /\ msgs[t.msg].born = t.born

Running(k) == \E t \in turns : t.conv = k /\ t.at # "written"

\* "Edits/retries rewrite history, so they can't overlap a running reply"; nor
\* do switching branches and deleting a turn. A chat deleted under its reply is the
\* exception: its thread may mark another chat's reply done, which still runs.
RewriteWaits ==
  [][\A r \in reqs :
       \/ r.op = "edit" /\ AddPrompt(r)
       \/ r.op = "retry" /\ AddReply(r)
       \/ Show(r)
       \/ Delete(r) /\ msgs' # msgs
       => orphaned \/ ~ Running(r.conv)]_vars

\* Deleting a prompt removes its turn and what grew from the turn's other
\* versions: the shown branch reads on as if the turn never happened.
ReadsOn ==
  [][\A r \in reqs : Delete(r) =>
       LET k == r.conv
           turn == Versions(k, r.target)
                     \cup {m \in Replies(k, r.target) : msgs[m].role = "assistant"}
       IN  r.target \in In(k) =>
             Branch(k, LeafOf(k))' = Branch(k, LeafOf(k)) \ turn]_vars

\* Switching shows a branch through the message that was asked for.
SwitchShowsTarget ==
  [][\A r \in reqs : Show(r) => r.target \in Branch(r.conv, LeafOf(r.conv))']_vars

\* Rewriting history changes the shown branch as asked and under no running
\* reply (routes.py:333-350, messages.py:255-338, helpers.py:146-151).
RewritesWell == ReadsOn /\ SwitchShowsTarget /\ RewriteWaits

\* Every reply that is streaming ends.
ReplyEnds ==
  \A m \in Ids :
    (m \in DOMAIN msgs /\ msgs[m].status = "streaming")
      ~> ~ (m \in DOMAIN msgs /\ msgs[m].status = "streaming")

=============================================================================
