----------------------------- MODULE ChatImport -----------------------------
(***************************************************************************)
(* Importing one ChatGPT chat, again and again, into the message trees of  *)
(* ChatTree, while it goes on both there and here.                         *)
(*                                                                         *)
(* An export is a snapshot of the branch shown in ChatGPT.  The import job *)
(* reads what it imported before, and merges the rest in one transaction;  *)
(* between its database calls the user may act.  A text is a version       *)
(* number; what the reply has in images is part of it.                     *)
(***************************************************************************)
EXTENDS Naturals, Sequences, FiniteSets

CONSTANTS
  MaxPrompts,     \* bound on the prompts ever written in ChatGPT
  MaxText,        \* bound on the versions of a reply's text
  MaxTime,        \* bound on the changes made in ChatGPT
  MaxExports,     \* bound on the exports made
  MaxConvs,       \* bound on the chats ever created here
  MaxMessages,    \* bound on the keys of the message table
  MaxCrashes,     \* bound on the restarts of the server
  UserMeanwhile   \* whether the user changes the messages here while a job runs

ASSUME BoundsAssumption ==
  /\ {MaxPrompts, MaxText, MaxTime, MaxExports, MaxConvs, MaxMessages, MaxCrashes} \subseteq Nat
  /\ UserMeanwhile \in BOOLEAN

VARIABLES
  there,    \* the chat in ChatGPT: shown branch, other branches, replies, update_time
  exports,  \* the exports in the imports folder, oldest first
  msgs,     \* chat_messages: key -> row
  convs,    \* the chats that exist
  leaf,     \* their current_leaf_id
  opened,   \* how many chats were ever created
  tagged,   \* the chats with the ChatGPT chat's import_id
  stamp,    \* their import_updated_at (0: NULL)
  skipped,  \* whether chat_import_skips has the ChatGPT chat
  job,      \* the import that runs, if any
  crashes,
  pruned    \* history: a turn was deleted here

outside == <<there, exports>>

tree == <<msgs, convs, leaf>>

vars == <<there, exports, msgs, convs, leaf, opened, tagged, stamp, skipped, job, crashes, pruned>>

None == 0
Prompts == 1 .. MaxPrompts
Convs == 1 .. MaxConvs
Ids == 1 .. MaxMessages

\* import_id: a prompt's own, or "reply:" and its prompt's; 0 for what was written here.
Row == [conv: Convs, parent: Ids \cup {None}, role: {"user", "assistant"},
        from: Prompts \cup {0}, text: 0 .. MaxText]

Export == [branch: Seq(Prompts), reply: [Prompts -> 0 .. MaxText], time: 0 .. MaxTime]

IsTable(rows) == DOMAIN rows \subseteq Ids /\ \A m \in DOMAIN rows : rows[m] \in Row

NoExport == [branch |-> << >>, reply |-> [p \in Prompts |-> 0], time |-> 0]

\* `at' is the database call the job makes next; `known' what it read of the
\* messages imported before, `show' whether the branch's end will be shown.
Idle == [at |-> "idle", export |-> NoExport, conv |-> None, stamp |-> 0,
         known |-> [m \in {} |-> None], show |-> FALSE]

\* The chats and their messages make the trees of ChatTree.
Tree == INSTANCE ChatTree WITH
  Clients <- {}, MaxMade <- MaxMessages, MaxRestarts <- 0,
  reqs <- {}, turns <- {}, cancelEvents <- << >>, made <- 0, restarts <- 0,
  orphaned <- FALSE

\* Rows, exports and the job have a valid shape.
TypeOK ==
  /\ there \in [branch: Seq(Prompts), others: SUBSET Seq(Prompts),
                reply: [Prompts -> 0 .. MaxText], time: 0 .. MaxTime]
  /\ exports \in Seq(Export)
  /\ IsTable(msgs)
  /\ convs \subseteq Convs /\ tagged \subseteq convs
  /\ leaf \in [Convs -> Ids \cup {None}]
  /\ opened \in 0 .. MaxConvs /\ convs \subseteq 1 .. opened
  /\ stamp \in [Convs -> 0 .. MaxTime]
  /\ skipped \in BOOLEAN /\ pruned \in BOOLEAN
  /\ job \in [at: {"idle", "skips", "create", "tag", "known", "leaf", "apply"},
              export: Export, conv: (1 .. opened) \cup {None}, stamp: 0 .. MaxTime,
              known: {job.known}, show: BOOLEAN]
  /\ IsTable(job.known)
  /\ job.at \in {"tag", "known", "leaf", "apply"} => job.conv # None
  /\ crashes \in 0 .. MaxCrashes

Init ==
  /\ there = [branch |-> << >>, others |-> {}, reply |-> [p \in Prompts |-> 0], time |-> 0]
  /\ exports = << >>
  /\ msgs = [m \in {} |-> None]
  /\ convs = {} /\ tagged = {}
  /\ leaf = [k \in Convs |-> None]
  /\ opened = 0
  /\ stamp = [k \in Convs |-> 0]
  /\ skipped = FALSE /\ pruned = FALSE
  /\ job = Idle
  /\ crashes = 0

-----------------------------------------------------------------------------
(* ChatGPT *)

Written == {p \in Prompts : \E b \in {there.branch} \cup there.others : p \in {b[i] : i \in DOMAIN b}}

Changes(chat) ==
  /\ there.time < MaxTime
  /\ there' = [chat EXCEPT !.time = there.time + 1]
  /\ UNCHANGED <<exports, tree, opened, tagged, stamp, skipped, job, crashes, pruned>>

NextPrompt(p) == p \notin Written /\ \A q \in 1 .. p - 1 : q \in Written

ContinueThere(p) ==
  NextPrompt(p) /\ Changes([there EXCEPT !.branch = Append(@, p)])

EditThere(i, p) ==
  /\ i \in DOMAIN there.branch
  /\ NextPrompt(p)
  /\ Changes([there EXCEPT !.branch = Append(SubSeq(@, 1, i - 1), p), !.others = @ \cup {there.branch}])

SwitchThere(b) ==
  /\ b \in there.others
  /\ Changes([there EXCEPT !.branch = b, !.others = (@ \ {b}) \cup {there.branch}])

\* The last reply is written, continued, or written anew.
ReplyThere ==
  /\ there.branch # << >>
  /\ LET p == there.branch[Len(there.branch)]
     IN  there.reply[p] < MaxText /\ Changes([there EXCEPT !.reply[p] = @ + 1])

Exported ==
  /\ there.time > 0 /\ Len(exports) < MaxExports
  /\ \A i \in DOMAIN exports : exports[i].time # there.time
  /\ exports' = Append(exports, [branch |-> there.branch, reply |-> there.reply, time |-> there.time])
  /\ UNCHANGED <<there, tree, opened, tagged, stamp, skipped, job, crashes, pruned>>

-----------------------------------------------------------------------------
(* The import job *)

Steps(next) ==
  /\ job' = next
  /\ UNCHANGED <<outside, crashes, pruned>>

\* Mutant: a chat counts as imported once its messages are.
RecordedWhole == {k \in tagged : stamp[k] # 0}

\* get_imported_conversations
Recorded == tagged

\* api_start_import, one job at a time, and the first read of run_import.
Start(e) ==
  /\ job.at = "idle"
  /\ \/ Recorded = {} /\ Steps([Idle EXCEPT !.at = "skips", !.export = e])
     \/ \E k \in Recorded : Steps([Idle EXCEPT !.at = "skips", !.export = e, !.conv = k, !.stamp = stamp[k]])
  /\ UNCHANGED <<tree, opened, tagged, stamp, skipped>>

\* Mutant: deleted chats are not skipped.
ReadSkipsNot ==
  /\ job.at = "skips"
  /\ Steps(IF job.conv = None THEN [job EXCEPT !.at = "create"] ELSE [job EXCEPT !.at = "known"])
  /\ UNCHANGED <<tree, opened, tagged, stamp, skipped>>

\* get_import_skips; a chat deleted here or unchanged since is not looked at.
ReadSkips ==
  /\ job.at = "skips"
  /\ Steps(IF skipped \/ (job.conv # None /\ job.stamp = job.export.time) THEN Idle
           ELSE [job EXCEPT !.at = IF job.conv = None THEN "create" ELSE "known"])
  /\ UNCHANGED <<tree, opened, tagged, stamp, skipped>>

\* api_create_conversation
Create ==
  /\ job.at = "create"
  /\ opened < MaxConvs
  /\ opened' = opened + 1
  /\ convs' = convs \cup {opened + 1}
  /\ Steps([job EXCEPT !.at = "tag", !.conv = opened + 1])
  /\ UNCHANGED <<msgs, leaf, tagged, stamp, skipped>>

\* update_conversation: the chat's import_id; the job's next step for the chat
\* fails if it is gone.
Tag ==
  /\ job.at = "tag"
  /\ IF job.conv \in convs
     THEN tagged' = tagged \cup {job.conv} /\ Steps([job EXCEPT !.at = "apply", !.show = TRUE])
     ELSE UNCHANGED tagged /\ Steps(Idle)
  /\ UNCHANGED <<tree, opened, stamp, skipped>>

Imported(k) == {m \in Tree!In(k) : msgs[m].from # 0}

\* get_chat_import_ids
ReadKnown ==
  /\ job.at = "known"
  /\ Steps([job EXCEPT !.at = "leaf", !.known = [m \in Imported(job.conv) |-> msgs[m]]])
  /\ UNCHANGED <<tree, opened, tagged, stamp, skipped>>

\* Mutant: the new messages are always shown.
ReadLeafShow ==
  /\ job.at = "leaf"
  /\ Steps([job EXCEPT !.at = "apply", !.show = TRUE])
  /\ UNCHANGED <<tree, opened, tagged, stamp, skipped>>

\* get_chat_leaf_id: a chat carried on here keeps showing that.
ReadLeaf ==
  /\ job.at = "leaf"
  /\ \E m \in Ids \cup {None} :
       /\ Tree!ShownLeaf(job.conv, m)
       /\ Steps([job EXCEPT !.at = "apply", !.show = (m = None \/ m \in DOMAIN job.known)])
  /\ UNCHANGED <<tree, opened, tagged, stamp, skipped>>

-----------------------------------------------------------------------------
(* The merge *)

\* Two slots for each prompt of the branch: the prompt and its reply.
Slots(e) == 1 .. 2 * Len(e.branch)

PromptAt(e, s) == e.branch[(s + 1) \div 2]

RoleAt(s) == IF s % 2 = 1 THEN "user" ELSE "assistant"

\* The row imported for a slot before, if any.
IsKnown(e, known, s, m) ==
  m \in DOMAIN known /\ known[m].from = PromptAt(e, s) /\ known[m].role = RoleAt(s)

HasRow(e, known, s) == \E m \in DOMAIN known : IsKnown(e, known, s, m)

\* A prompt; a reply with something in it or imported before.
InChain(e, known, s) ==
  RoleAt(s) = "user" \/ e.reply[PromptAt(e, s)] > 0 \/ HasRow(e, known, s)

NewSlots(e, known) == {s \in Slots(e) : InChain(e, known, s) /\ ~ HasRow(e, known, s)}

Rank(e, known, s) == Cardinality({t \in NewSlots(e, known) : t <= s})

\* The keys new rows get: the largest one's successors, in order.
KeyOf(e, known, top, s) ==
  IF HasRow(e, known, s) THEN CHOOSE m \in DOMAIN known : IsKnown(e, known, s, m)
  ELSE top + Rank(e, known, s)

\* Mutant: a row hangs on itself.
ParentItself(e, known, top, s) == IF s = 1 THEN None ELSE KeyOf(e, known, top, s)

\* What comes before a slot on the exported branch: a reply that is not there is
\* passed over.
ParentOf(e, known, top, s) ==
  IF s = 1 THEN None
  ELSE KeyOf(e, known, top, IF InChain(e, known, s - 1) THEN s - 1 ELSE s - 2)

TextAt(e, s) == IF RoleAt(s) = "user" THEN 0 ELSE e.reply[PromptAt(e, s)]

NewRow(k, e, known, top, s) ==
  [conv |-> k, parent |-> ParentOf(e, known, top, s), role |-> RoleAt(s),
   from |-> PromptAt(e, s), text |-> TextAt(e, s)]

NewKeys(e, known, top) == {KeyOf(e, known, top, s) : s \in NewSlots(e, known)}

\* Replies imported before whose text is another one now.
Updated(e, known, m) ==
  \E s \in Slots(e) : /\ RoleAt(s) = "assistant"
                      /\ IsKnown(e, known, s, m)
                      /\ e.reply[PromptAt(e, s)] \notin {0, known[m].text}

Merged(k, e, known, top) ==
  [m \in DOMAIN msgs \cup NewKeys(e, known, top) |->
     IF m \in DOMAIN msgs
     THEN IF Updated(e, known, m)
          THEN [msgs[m] EXCEPT !.text = e.reply[known[m].from]]
          ELSE msgs[m]
     ELSE NewRow(k, e, known, top, CHOOSE s \in NewSlots(e, known) : KeyOf(e, known, top, s) = m)]

Largest(top) == top \in DOMAIN msgs \cup {0} /\ \A m \in DOMAIN msgs : m <= top

\* The job fails for a chat that is gone.
Lost ==
  /\ job.at = "apply" /\ job.conv \notin convs
  /\ Steps(Idle)
  /\ UNCHANGED <<tree, opened, tagged, stamp, skipped>>

\* add_imported_messages, one transaction.
Apply(top) ==
  LET e    == job.export
      k    == job.conv
      news == NewSlots(e, job.known)
  IN  /\ job.at = "apply" /\ k \in convs
      /\ Largest(top)
      /\ \A s \in news : KeyOf(e, job.known, top, s) \in Ids
      /\ msgs' = Merged(k, e, job.known, top)
      /\ IF job.show /\ news # {}
         THEN \E s \in news : /\ \A t \in news : t <= s
                             /\ leaf' = [leaf EXCEPT ![k] = KeyOf(e, job.known, top, s)]
         ELSE UNCHANGED leaf
      /\ stamp' = [stamp EXCEPT ![k] = e.time]
      /\ Steps(Idle)
      /\ UNCHANGED <<convs, opened, tagged, skipped>>

\* The process dies; _jobs is gone with it.
Crash ==
  /\ job.at # "idle"
  /\ crashes < MaxCrashes
  /\ crashes' = crashes + 1
  /\ job' = Idle
  /\ UNCHANGED <<outside, tree, opened, tagged, stamp, skipped, pruned>>

-----------------------------------------------------------------------------
(* The user, here; what the requests of ChatTree do in their own steps *)

Acts == UNCHANGED <<outside, opened, stamp, job, crashes>>

Changing == (UserMeanwhile \/ job.at = "idle") /\ Acts

\* api_send_message
CarryOn(k, top, p) ==
  /\ Changing
  /\ k \in convs
  /\ Largest(top) /\ top + 2 \in Ids
  /\ Tree!ShownLeaf(k, p)
  /\ msgs' = [m \in DOMAIN msgs \cup {top + 1, top + 2} |->
                IF m \in DOMAIN msgs THEN msgs[m]
                ELSE [conv |-> k, from |-> 0, text |-> 0,
                      parent |-> IF m = top + 1 THEN p ELSE top + 1,
                      role |-> IF m = top + 1 THEN "user" ELSE "assistant"]]
  /\ leaf' = [leaf EXCEPT ![k] = top + 2]
  /\ UNCHANGED <<convs, tagged, skipped, pruned>>

\* api_switch_branch
Switch(m, n) ==
  /\ Changing
  /\ m \in DOMAIN msgs
  /\ Tree!Newest(Tree!Below(msgs[m].conv, m), n)
  /\ leaf' = [leaf EXCEPT ![msgs[m].conv] = n]
  /\ UNCHANGED <<msgs, convs, tagged, skipped, pruned>>

\* api_delete_exchange
DeleteTurn(p) ==
  /\ Changing
  /\ p \in DOMAIN msgs /\ msgs[p].role = "user"
  /\ Tree!Prune(msgs[p].conv, p)
  /\ pruned' = TRUE
  /\ UNCHANGED <<convs, tagged, skipped>>

\* api_delete_conversation: an imported chat is remembered.
DeleteConv(k) ==
  /\ Acts
  /\ k \in convs
  /\ convs' = convs \ {k}
  /\ tagged' = tagged \ {k}
  /\ skipped' = (skipped \/ k \in tagged)
  /\ msgs' = [m \in DOMAIN msgs \ Tree!In(k) |-> msgs[m]]
  /\ leaf' = [leaf EXCEPT ![k] = None]
  /\ UNCHANGED pruned

-----------------------------------------------------------------------------

JobStep ==
  \/ ReadSkips
  \/ Create
  \/ Tag
  \/ ReadKnown
  \/ ReadLeaf
  \/ Lost
  \/ \E top \in 0 .. MaxMessages : Apply(top)

Next ==
  \/ \E p \in Prompts : ContinueThere(p)
  \/ \E i \in 1 .. MaxPrompts, p \in Prompts : EditThere(i, p)
  \/ \E b \in there.others : SwitchThere(b)
  \/ ReplyThere
  \/ Exported
  \/ \E i \in DOMAIN exports : Start(exports[i])
  \/ JobStep
  \/ Crash
  \/ \E k \in Convs, top \in 0 .. MaxMessages, p \in Ids \cup {None} : CarryOn(k, top, p)
  \/ \E m, n \in Ids : Switch(m, n)
  \/ \E p \in Ids : DeleteTurn(p)
  \/ \E k \in Convs : DeleteConv(k)

Spec == Init /\ [][Next]_vars

-----------------------------------------------------------------------------
(* Properties *)

\* "Importing again only adds what's new": no message of the ChatGPT chat is in
\* a chat twice, whatever crashed between, and however the branch changed.
OnceEach ==
  \A m, n \in DOMAIN msgs :
    msgs[m].from # 0 /\ msgs[m].conv = msgs[n].conv /\ msgs[m].from = msgs[n].from
      /\ msgs[m].role = msgs[n].role => m = n

\* There is one chat here for the chat there, even after a crash half-way
\* through its first import.
OneChat == \A k, l \in tagged : k = l

\* Neither a chat nor a message is imported twice (chatgpt_import.py:343-412,
\* imports.py:25-71).
NothingTwice == OneChat /\ OnceEach

\* "Chats the user deleted here stay deleted", also when it happened while they
\* were being imported.
DeletedStays == skipped => tagged = {}

\* What an import leaves are trees whose walks end, as in ChatTree: parents are
\* older and in the same chat.
TreesHold == Tree!ParentOlder /\ Tree!ParentPresent

\* "Carried on here since: keep showing that": an import does not take the user
\* from a message written here.
KeepsShowing ==
  [][\A k \in convs :
       job.at = "apply" /\ job.conv = k /\ leaf[k] \in DOMAIN msgs /\ msgs[leaf[k]].from = 0
         => leaf'[k] = leaf[k] \/ job' = job]_vars

\* Slot s of export e has row m in chat k now.
Holds(k, e, s, m) ==
  m \in Tree!In(k) /\ msgs[m].from = PromptAt(e, s) /\ msgs[m].role = RoleAt(s)

\* Everything of export e is in chat k, each message after the one before it.
CaughtUp(k, e) ==
  LET here == {s \in Slots(e) : \E m \in Tree!In(k) : Holds(k, e, s, m)}
  IN  /\ \A s \in Slots(e) : RoleAt(s) = "user" \/ e.reply[PromptAt(e, s)] > 0 => s \in here
      /\ \A s \in here, m \in Tree!In(k) : Holds(k, e, s, m) =>
           IF \E t \in here : t < s
           THEN \E t \in here : /\ Holds(k, e, t, msgs[m].parent)
                               /\ \A u \in here : u <= t \/ u >= s
           ELSE msgs[m].parent = None

\* After an import, and as long as no turn was deleted here, the exported branch
\* is a branch of the chat, however it had changed in ChatGPT.
FollowsThere ==
  [][\A k \in convs, e \in {job.export} :
       job.at = "apply" /\ job.conv = k /\ job' # job /\ stamp'[k] = e.time /\ ~ pruned
         => CaughtUp(k, e)']_vars

\* An import brings the chat up to what is in ChatGPT, and leaves the user where
\* they were (chatgpt_import.py:266-320, 351-356).
ImportsWell == FollowsThere /\ KeepsShowing

\* The branch that chat k shows.
Shown(k) == Tree!Branch(k, Tree!LeafOf(k))

\* "What follows the shown branch's reply is kept [...], so the chat reads on as
\* if the turn never happened": deleting a turn takes at most one prompt from
\* the shown branch.
DeletesOneTurn ==
  [][\A p \in Ids : DeleteTurn(p) =>
       \A q \in Shown(msgs[p].conv) \ DOMAIN msgs' :
         msgs[q].role = "user" /\ p \in Shown(msgs[p].conv) => q = p]_vars

=============================================================================
