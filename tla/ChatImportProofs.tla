-------------------------- MODULE ChatImportProofs --------------------------
(***************************************************************************)
(* What holds of importing a chat again and again, however long it is, and *)
(* whatever the user does here while an import runs.                       *)
(***************************************************************************)
EXTENDS ChatImport, FiniteSetTheorems, SequenceTheorems, WellFoundedInduction, TLAPS

\* No prompt is on a branch twice.
Once(b) == \A i, j \in DOMAIN b : b[i] = b[j] => i = j

BranchesOnce ==
  /\ Once(there.branch)
  /\ \A b \in there.others : Once(b)
  /\ \A i \in DOMAIN exports : Once(exports[i].branch)
  /\ Once(job.export.branch)

\* A job that is about to make a chat has none yet, and none was deleted.
FreshJob ==
  /\ job.at = "skips" /\ job.conv = None => tagged = {}
  /\ job.at \in {"create", "tag"} => tagged = {} /\ ~ skipped

\* Messages are in chats that were created.
RowsOpened == \A m \in DOMAIN msgs : msgs[m].conv \in 1 .. opened

\* The job knows every message of its chat that was imported.
KnownAll ==
  /\ job.at = "tag" => \A m \in DOMAIN msgs : msgs[m].conv = job.conv => msgs[m].from = 0
  /\ job.at \in {"leaf", "apply"} =>
       \A m \in DOMAIN msgs : msgs[m].conv = job.conv /\ msgs[m].from # 0 =>
         /\ m \in DOMAIN job.known
         /\ job.known[m].from = msgs[m].from
         /\ job.known[m].role = msgs[m].role

-----------------------------------------------------------------------------
(* The slots of an export *)

\* Every slot has a prompt of the branch; before a reply comes its prompt, and
\* two slots before a prompt comes another.
LEMMA SlotFacts ==
  ASSUME NEW e \in Export, NEW s \in Slots(e)
  PROVE  /\ s \in Nat /\ Len(e.branch) \in Nat
         /\ (s + 1) \div 2 \in 1 .. Len(e.branch)
         /\ PromptAt(e, s) \in Prompts
         /\ RoleAt(s) \in {"user", "assistant"}
         /\ s # 1 => s - 1 \in Slots(e)
         /\ s # 1 /\ RoleAt(s) = "user" => s - 2 \in Slots(e) /\ RoleAt(s - 2) = "user"
         /\ RoleAt(s) = "assistant" => s # 1 /\ RoleAt(s - 1) = "user"
<1>1. e.branch \in Seq(Prompts) /\ Len(e.branch) \in Nat
  BY DEF Export
<1>2. s \in Nat /\ s >= 1 /\ s <= 2 * Len(e.branch)
  BY <1>1 DEF Slots
<1>3. (s + 1) \div 2 \in 1 .. Len(e.branch)
  BY <1>1, <1>2
<1>4. PromptAt(e, s) \in Prompts
  BY <1>1, <1>3 DEF PromptAt
<1>5. /\ s # 1 => s - 1 \in Slots(e)
      /\ s # 1 /\ RoleAt(s) = "user" => s - 2 \in Slots(e) /\ RoleAt(s - 2) = "user"
      /\ RoleAt(s) = "assistant" => s # 1 /\ RoleAt(s - 1) = "user"
  BY <1>1, <1>2 DEF Slots, RoleAt
<1>6. QED
  BY <1>1, <1>2, <1>3, <1>4, <1>5 DEF RoleAt

\* A message of the branch has one slot.
LEMMA SlotsApart ==
  ASSUME NEW e \in Export, Once(e.branch), NEW s \in Slots(e), NEW t \in Slots(e),
         PromptAt(e, s) = PromptAt(e, t), RoleAt(s) = RoleAt(t)
  PROVE  s = t
<1>1. e.branch \in Seq(Prompts) /\ Len(e.branch) \in Nat
  BY DEF Export
<1>2. /\ s \in Nat /\ (s + 1) \div 2 \in 1 .. Len(e.branch)
      /\ t \in Nat /\ (t + 1) \div 2 \in 1 .. Len(e.branch)
  BY SlotFacts
<1>3. (s + 1) \div 2 = (t + 1) \div 2
  BY <1>1, <1>2 DEF PromptAt, Once
<1>4. s % 2 = t % 2
  BY <1>2 DEF RoleAt
<1>5. QED
  BY <1>2, <1>3, <1>4

\* The key of a slot that has a row, or gets one.
LEMMA KeyType ==
  ASSUME NEW e \in Export, NEW known, IsTable(known), NEW top,
         \A s \in NewSlots(e, known) : KeyOf(e, known, top, s) \in Ids,
         NEW t \in Slots(e), InChain(e, known, t)
  PROVE  KeyOf(e, known, top, t) \in Ids
<1>1. CASE HasRow(e, known, t)
  BY <1>1 DEF KeyOf, HasRow, IsTable
<1>2. CASE ~ HasRow(e, known, t)
  BY <1>2 DEF NewSlots
<1>3. QED
  BY <1>1, <1>2

\* The row of a new slot is one.
LEMMA NewRowType ==
  ASSUME NEW e \in Export, NEW known, IsTable(known), NEW top, NEW k \in Convs,
         \A s \in NewSlots(e, known) : KeyOf(e, known, top, s) \in Ids,
         NEW s \in NewSlots(e, known)
  PROVE  NewRow(k, e, known, top, s) \in Row
<1>1. s \in Slots(e)
  BY DEF NewSlots
<1>2. ParentOf(e, known, top, s) \in Ids \cup {None}
  <2>1. CASE s = 1
    BY <2>1 DEF ParentOf
  <2>2. CASE s # 1 /\ InChain(e, known, s - 1)
    BY <1>1, <2>2, SlotFacts, KeyType DEF ParentOf
  <2>3. CASE s # 1 /\ ~ InChain(e, known, s - 1)
    <3>1. s - 2 \in Slots(e) /\ InChain(e, known, s - 2)
      BY <1>1, <2>3, SlotFacts DEF InChain
    <3>2. QED
      BY <2>3, <3>1, KeyType DEF ParentOf
  <2>4. QED
    BY <2>1, <2>2, <2>3
<1>3. PromptAt(e, s) \in Prompts /\ RoleAt(s) \in {"user", "assistant"}
  BY <1>1, SlotFacts
<1>4. TextAt(e, s) \in 0 .. MaxText
  BY <1>3, BoundsAssumption DEF TextAt, Export
<1>5. QED
  BY <1>2, <1>3, <1>4 DEF NewRow, Row

\* The merged table.
LEMMA MergedType ==
  ASSUME NEW e \in Export, NEW known, IsTable(known), NEW top, NEW k \in Convs, IsTable(msgs),
         \A s \in NewSlots(e, known) : KeyOf(e, known, top, s) \in Ids
  PROVE  /\ IsTable(Merged(k, e, known, top))
         /\ DOMAIN Merged(k, e, known, top) = DOMAIN msgs \cup NewKeys(e, known, top)
<1> DEFINE new == Merged(k, e, known, top)
           slot(m) == CHOOSE s \in NewSlots(e, known) : KeyOf(e, known, top, s) = m
<1>1. DOMAIN new = DOMAIN msgs \cup NewKeys(e, known, top)
  BY DEF Merged
<1>2. DOMAIN new \subseteq Ids
  BY <1>1 DEF IsTable, NewKeys
<1>3. ASSUME NEW m \in DOMAIN new PROVE new[m] \in Row
  <2>1. CASE m \in DOMAIN msgs /\ Updated(e, known, m)
    <3>1. PICK s \in Slots(e) : IsKnown(e, known, s, m)
      BY <2>1 DEF Updated
    <3>2. known[m].from \in Prompts
      BY <3>1, SlotFacts DEF IsKnown
    <3>3. e.reply[known[m].from] \in 0 .. MaxText
      BY <3>2 DEF Export
    <3>4. msgs[m] \in Row
      BY <2>1 DEF IsTable
    <3>5. new[m] = [msgs[m] EXCEPT !.text = e.reply[known[m].from]]
      BY <2>1 DEF Merged
    <3>6. QED
      BY <3>3, <3>4, <3>5 DEF Row
  <2>2. CASE m \in DOMAIN msgs /\ ~ Updated(e, known, m)
    BY <2>2 DEF Merged, IsTable
  <2>3. CASE m \notin DOMAIN msgs
    <3>1. slot(m) \in NewSlots(e, known)
      BY <1>1, <2>3 DEF NewKeys
    <3>2. new[m] = NewRow(k, e, known, top, slot(m))
      BY <1>1, <2>3 DEF Merged
    <3>3. QED
      BY <3>1, <3>2, NewRowType
  <2>4. QED
    BY <2>1, <2>2, <2>3
<1>4. QED
  BY <1>1, <1>2, <1>3 DEF IsTable

-----------------------------------------------------------------------------
(* Types *)

\* The part of TypeOK about the job.
JobOK ==
  /\ job \in [at: {"idle", "skips", "create", "tag", "known", "leaf", "apply"},
              export: Export, conv: (1 .. opened) \cup {None}, stamp: 0 .. MaxTime,
              known: {job.known}, show: BOOLEAN]
  /\ IsTable(job.known)
  /\ job.at \in {"tag", "known", "leaf", "apply"} => job.conv # None

\* What a job starts with.
LEMMA IdleOK == NoExport \in Export /\ 0 \in 0 .. MaxTime /\ IsTable([m \in {} |-> None])
<1>1. 0 \in 0 .. MaxTime /\ 0 \in 0 .. MaxText
  BY BoundsAssumption
<1>2. QED
  BY <1>1 DEF NoExport, Export, IsTable

\* The tables start with a valid shape.
LEMMA ImportInit == Init => TypeOK
<1> SUFFICES ASSUME Init PROVE TypeOK
  OBVIOUS
<1> USE BoundsAssumption
<1>1. << >> \in Seq(Prompts) /\ << >> \in Seq(Export)
  OBVIOUS
<1>2. 0 \in 0 .. MaxTime /\ 0 \in 0 .. MaxText /\ 0 \in 0 .. MaxConvs /\ 0 \in 0 .. MaxCrashes
  OBVIOUS
<1>3. IsTable([m \in {} |-> None])
  BY DEF IsTable
<1>4. JobOK
  BY IdleOK DEF Init, Idle, JobOK
<1>5. QED
  BY <1>1, <1>2, <1>3, <1>4 DEF Init, TypeOK, JobOK

\* ChatGPT's steps.
LEMMA ThereType ==
  ASSUME TypeOK,
         \/ \E p \in Prompts : ContinueThere(p)
         \/ \E i \in 1 .. MaxPrompts, p \in Prompts : EditThere(i, p)
         \/ \E b \in there.others : SwitchThere(b)
         \/ ReplyThere
         \/ Exported
  PROVE  TypeOK'
<1> DEFINE There == [branch: Seq(Prompts), others: SUBSET Seq(Prompts),
                     reply: [Prompts -> 0 .. MaxText], time: 0 .. MaxTime]
<1>0. there \in There
  BY DEF TypeOK
<1>1. ASSUME NEW chat \in There, Changes(chat) PROVE TypeOK'
  <2>1. there.time + 1 \in 0 .. MaxTime
    BY <1>0, <1>1, BoundsAssumption, SMTT(20) DEF Changes
  <2>2. there' \in There
    BY <1>1, <2>1 DEF Changes
  <2>3. QED
    BY <1>1, <2>2 DEF Changes, TypeOK, JobOK, tree, IsTable
<1>2. ASSUME NEW p \in Prompts, ContinueThere(p) PROVE TypeOK'
  <2>1. Append(there.branch, p) \in Seq(Prompts)
    BY <1>0
  <2>2. [there EXCEPT !.branch = Append(@, p)] \in There
    BY <1>0, <2>1
  <2>3. QED
    BY <1>1, <1>2, <2>2 DEF ContinueThere
<1>3. ASSUME NEW i \in 1 .. MaxPrompts, NEW p \in Prompts, EditThere(i, p) PROVE TypeOK'
  <2>1. SubSeq(there.branch, 1, i - 1) \in Seq(Prompts)
    <3>1. there.branch \in Seq(Prompts) /\ i \in DOMAIN there.branch
      BY <1>0, <1>3 DEF EditThere
    <3>2. i - 1 \in Int /\ \A j \in 1 .. i - 1 : there.branch[j] \in Prompts
      BY <3>1
    <3>3. QED
      BY <3>2, SubSeqProperties
  <2>2. Append(SubSeq(there.branch, 1, i - 1), p) \in Seq(Prompts)
    BY <2>1
  <2>3. [there EXCEPT !.branch = Append(SubSeq(@, 1, i - 1), p), !.others = @ \cup {there.branch}] \in There
    BY <1>0, <2>2
  <2>4. QED
    BY <1>1, <1>3, <2>3 DEF EditThere
<1>4. ASSUME NEW b \in there.others, SwitchThere(b) PROVE TypeOK'
  <2>1. [there EXCEPT !.branch = b, !.others = (@ \ {b}) \cup {there.branch}] \in There
    BY <1>0
  <2>2. QED
    BY <1>1, <1>4, <2>1 DEF SwitchThere
<1>5. CASE ReplyThere
  <2> DEFINE p == there.branch[Len(there.branch)]
  <2>1. p \in Prompts
    BY <1>0, <1>5 DEF ReplyThere
  <2>2. there.reply[p] + 1 \in 0 .. MaxText
    BY <1>0, <1>5, <2>1, BoundsAssumption DEF ReplyThere
  <2>3. [there EXCEPT !.reply[p] = @ + 1] \in There
    BY <1>0, <2>1, <2>2
  <2>4. QED
    BY <1>1, <1>5, <2>3 DEF ReplyThere
<1>6. CASE Exported
  <2>1. [branch |-> there.branch, reply |-> there.reply, time |-> there.time] \in Export
    BY <1>0 DEF Export
  <2>2. exports' \in Seq(Export)
    BY <1>6, <2>1 DEF Exported, TypeOK
  <2>3. QED
    BY <1>6, <2>2 DEF Exported, TypeOK, JobOK, tree, IsTable
<1>7. QED
  BY <1>2, <1>3, <1>4, <1>5, <1>6

\* The steps of the job that leave the tables alone.
LEMMA ReadType ==
  ASSUME TypeOK,
         \/ \E i \in DOMAIN exports : Start(exports[i])
         \/ ReadSkips \/ Tag \/ ReadKnown \/ ReadLeaf \/ Lost \/ Crash
  PROVE  TypeOK'
<1> SUFFICES JobOK' /\ tagged' \subseteq convs /\ crashes' \in 0 .. MaxCrashes
             /\ UNCHANGED <<there, exports, msgs, convs, leaf, opened, stamp, skipped, pruned>>
  BY DEF TypeOK, JobOK, IsTable
<1> DEFINE Rest == /\ tagged' \subseteq convs /\ crashes' \in 0 .. MaxCrashes
                   /\ UNCHANGED <<there, exports, msgs, convs, leaf, opened, stamp, skipped, pruned>>
<1>1. Rest
  <2> USE DEF TypeOK, tree, outside, Steps
  <2>1. ASSUME NEW i \in DOMAIN exports, Start(exports[i]) PROVE Rest
    BY <2>1 DEF Start
  <2>2. CASE ReadSkips
    BY <2>2 DEF ReadSkips
  <2>3. CASE Tag
    BY <2>3 DEF Tag
  <2>4. CASE ReadKnown
    BY <2>4 DEF ReadKnown
  <2>5. CASE ReadLeaf
    BY <2>5 DEF ReadLeaf
  <2>6. CASE Lost
    BY <2>6 DEF Lost
  <2>7. CASE Crash
    BY <2>7, BoundsAssumption, SMTT(20) DEF Crash
  <2>8. QED
    BY <2>1, <2>2, <2>3, <2>4, <2>5, <2>6, <2>7
<1> USE DEF TypeOK
<1>2. ASSUME NEW i \in DOMAIN exports, Start(exports[i]) PROVE JobOK'
  <2>1. exports[i] \in Export
    OBVIOUS
  <2>2. IsTable([m \in {} |-> None]) /\ 0 \in 0 .. MaxTime
    BY IdleOK
  <2>3. CASE job' = [Idle EXCEPT !.at = "skips", !.export = exports[i]]
    BY <2>1, <2>2, <2>3 DEF JobOK, Idle, IsTable
  <2>4. ASSUME NEW k \in tagged,
               job' = [Idle EXCEPT !.at = "skips", !.export = exports[i], !.conv = k, !.stamp = stamp[k]]
        PROVE  JobOK'
    <3>1. k \in 1 .. opened' /\ stamp[k] \in 0 .. MaxTime
      BY <1>1
    <3>2. QED
      BY <2>1, <2>2, <2>4, <3>1 DEF JobOK, Idle, IsTable
  <2>5. QED
    BY <1>2, <2>3, <2>4 DEF Start, Steps, Recorded
<1>3. CASE job' = Idle
  BY <1>1, <1>3, IdleOK DEF Idle, JobOK, IsTable
<1>4. CASE ReadSkips /\ job' # Idle
  <2>1. /\ job' = [job EXCEPT !.at = job'.at]
        /\ job'.at = IF job.conv = None THEN "create" ELSE "known"
    BY <1>4 DEF ReadSkips, Steps
  <2>2. QED
    BY <1>1, <2>1 DEF JobOK, IsTable
<1>5. CASE Tag /\ job' # Idle
  BY <1>1, <1>5, ZenonT(40) DEF Tag, Steps, JobOK, IsTable
<1>6. CASE ReadKnown
  <2> DEFINE known == [m \in Imported(job.conv) |-> msgs[m]]
  <2>1. IsTable(known)
    BY DEF IsTable, Imported, Tree!In
  <2>2. job' = [job EXCEPT !.at = "leaf", !.known = known]
    BY <1>6 DEF ReadKnown, Steps
  <2> HIDE DEF known
  <2>3. QED
    BY <1>1, <1>6, <2>1, <2>2 DEF ReadKnown, JobOK, IsTable
<1>7. ASSUME ReadLeaf PROVE JobOK'
  <2>1. PICK m \in Ids \cup {None} :
          job' = [job EXCEPT !.at = "apply", !.show = (m = None \/ m \in DOMAIN job.known)]
    BY <1>7 DEF ReadLeaf, Steps
  <2>2. (m = None \/ m \in DOMAIN job.known) \in BOOLEAN
    OBVIOUS
  <2>3. PICK show \in BOOLEAN : job' = [job EXCEPT !.at = "apply", !.show = show]
    BY <2>1, <2>2, Zenon
  <2>4. QED
    BY <1>1, <1>7, <2>3 DEF ReadLeaf, JobOK, IsTable
<1>8. QED
  BY <1>1, <1>2, <1>3, <1>4, <1>5, <1>6, <1>7 DEF Lost, Crash, Steps

\* The steps of the job that write.
LEMMA WriteType ==
  ASSUME TypeOK, Create \/ \E top \in 0 .. MaxMessages : Apply(top)
  PROVE  TypeOK'
<1> USE BoundsAssumption DEF TypeOK
<1>1. CASE Create
  <2>1. /\ opened' = opened + 1 /\ opened' \in 0 .. MaxConvs /\ convs' = convs \cup {opened'}
        /\ convs' \subseteq 1 .. opened' /\ convs' \subseteq Convs
        /\ UNCHANGED <<there, exports, msgs, leaf, tagged, stamp, skipped, crashes, pruned>>
    <3>1. /\ opened' = opened + 1 /\ opened < MaxConvs /\ convs' = convs \cup {opened + 1}
          /\ UNCHANGED <<there, exports, msgs, leaf, tagged, stamp, skipped, crashes, pruned>>
      BY <1>1 DEF Create, Steps, outside
    <3>2. opened \in Nat /\ MaxConvs \in Nat /\ convs \subseteq 1 .. opened /\ convs \subseteq 1 .. MaxConvs
      BY DEF Convs
    <3> HIDE DEF TypeOK
    <3>3. opened + 1 \in 1 .. opened + 1 /\ 1 .. opened \subseteq 1 .. opened + 1
      BY <3>2
    <3>4. opened + 1 \in 0 .. MaxConvs /\ opened + 1 \in 1 .. MaxConvs
      BY <3>1, <3>2
    <3>5. convs' \subseteq 1 .. opened + 1 /\ convs' \subseteq 1 .. MaxConvs
      BY <3>1, <3>2, <3>3, <3>4
    <3>6. QED
      BY <3>1, <3>4, <3>5 DEF Convs
  <2>2. job' = [job EXCEPT !.at = "tag", !.conv = opened'] /\ opened' \in 1 .. opened' /\ opened' # None
    BY <1>1, <2>1 DEF Create, Steps, None
  <2>3. JobOK'
    BY <2>1, <2>2 DEF JobOK, IsTable
  <2>4. QED
    BY <2>1, <2>3 DEF JobOK, IsTable
<1>2. ASSUME NEW top \in 0 .. MaxMessages, Apply(top) PROVE TypeOK'
  <2> DEFINE new == Merged(job.conv, job.export, job.known, top)
  <2>1. /\ msgs' = new
        /\ job.conv \in Convs /\ job.export \in Export /\ IsTable(job.known)
        /\ \A s \in NewSlots(job.export, job.known) : KeyOf(job.export, job.known, top, s) \in Ids
        /\ UNCHANGED <<there, exports, convs, opened, tagged, skipped, crashes, pruned>>
        /\ job' = Idle
    BY <1>2 DEF Apply, Steps, outside
  <2>2. IsTable(new)
    BY <2>1, MergedType
  <2> HIDE DEF new
  <2>3. leaf' \in [Convs -> Ids \cup {None}]
    <3>1. CASE UNCHANGED leaf
      BY <3>1
    <3>2. CASE ~ UNCHANGED leaf
      <4>1. PICK s \in NewSlots(job.export, job.known) :
              leaf' = [leaf EXCEPT ![job.conv] = KeyOf(job.export, job.known, top, s)]
        BY <1>2, <3>2 DEF Apply
      <4>2. QED
        BY <2>1, <4>1
    <3>3. QED
      BY <3>1, <3>2
  <2>4. stamp' \in [Convs -> 0 .. MaxTime]
    <3>1. job.export.time \in 0 .. MaxTime
      BY <2>1 DEF Export
    <3>2. QED
      BY <1>2, <2>1, <3>1 DEF Apply
  <2>5. JobOK'
    BY <2>1, IdleOK DEF Idle, JobOK, IsTable
  <2>6. QED
    BY <2>1, <2>2, <2>3, <2>4, <2>5 DEF JobOK, IsTable
<1>3. QED
  BY <1>1, <1>2

\* What the user does here.
LEMMA HereType ==
  ASSUME TypeOK,
         \/ \E k \in Convs, top \in 0 .. MaxMessages, p \in Ids \cup {None} : CarryOn(k, top, p)
         \/ \E m, n \in Ids : Switch(m, n)
         \/ \E p \in Ids : DeleteTurn(p)
         \/ \E k \in Convs : DeleteConv(k)
  PROVE  TypeOK'
<1>1. ASSUME UNCHANGED <<there, exports, opened, stamp, job, crashes>>,
             IsTable(msgs)', convs' \subseteq convs, tagged' \subseteq convs',
             leaf' \in [Convs -> Ids \cup {None}], skipped' \in BOOLEAN, pruned' \in BOOLEAN
      PROVE  TypeOK'
  BY <1>1 DEF TypeOK, IsTable
<1>2. ASSUME NEW k \in Convs, NEW top \in 0 .. MaxMessages, NEW p \in Ids \cup {None},
             CarryOn(k, top, p)
      PROVE  TypeOK'
  <2>1. top + 1 \in Ids /\ top + 2 \in Ids /\ 0 \in 0 .. MaxText
    BY <1>2, BoundsAssumption DEF CarryOn, Ids
  <2> DEFINE row(m) == [conv |-> k, from |-> 0, text |-> 0,
                        parent |-> IF m = top + 1 THEN p ELSE top + 1,
                        role |-> IF m = top + 1 THEN "user" ELSE "assistant"]
  <2>2. \A m : row(m) \in Row
    BY <2>1 DEF Row
  <2>3. msgs' = [m \in DOMAIN msgs \cup {top + 1, top + 2} |-> IF m \in DOMAIN msgs THEN msgs[m] ELSE row(m)]
    BY <1>2 DEF CarryOn
  <2> HIDE DEF row
  <2>4. IsTable(msgs)'
    BY <2>1, <2>2, <2>3 DEF TypeOK, IsTable
  <2>5. leaf' \in [Convs -> Ids \cup {None}]
    BY <1>2, <2>1 DEF CarryOn, TypeOK
  <2>6. UNCHANGED <<there, exports, opened, stamp, job, crashes, convs, tagged, skipped, pruned>>
    BY <1>2 DEF CarryOn, Changing, Acts, outside
  <2>7. QED
    BY <1>1, <2>4, <2>5, <2>6 DEF TypeOK
<1>3. ASSUME NEW m \in Ids, NEW n \in Ids, Switch(m, n) PROVE TypeOK'
  <2>1. leaf' \in [Convs -> Ids \cup {None}]
    BY <1>3 DEF Switch, TypeOK
  <2>2. UNCHANGED <<there, exports, opened, stamp, job, crashes, msgs, convs, tagged, skipped, pruned>>
    BY <1>3 DEF Switch, Changing, Acts, outside
  <2>3. QED
    BY <1>1, <2>1, <2>2 DEF TypeOK, IsTable
<1>4. ASSUME NEW p \in Ids, DeleteTurn(p) PROVE TypeOK'
  <2> DEFINE k == msgs[p].conv
             gone == Tree!Doomed(k, p)
             kept == Tree!KeptNext(k, p)
             up == msgs[p].parent
  <2>1. /\ msgs' = [m \in DOMAIN msgs \ gone |-> IF m \in kept THEN [msgs[m] EXCEPT !.parent = up] ELSE msgs[m]]
        /\ leaf' = IF k \in convs /\ leaf[k] \in gone THEN [leaf EXCEPT ![k] = up] ELSE leaf
        /\ p \in DOMAIN msgs
    BY <1>4 DEF DeleteTurn, Tree!Prune
  <2>2. UNCHANGED <<there, exports, opened, stamp, job, crashes, convs, tagged, skipped>> /\ pruned' = TRUE
    BY <1>4 DEF DeleteTurn, Changing, Acts, outside
  <2>3. up \in Ids \cup {None}
    BY <2>1 DEF TypeOK, IsTable, Row
  <2> HIDE DEF gone, kept, up, k
  <2>4. IsTable(msgs)'
    <3>1. \A r \in Row : [r EXCEPT !.parent = up] \in Row
      BY <2>3 DEF Row
    <3>2. DOMAIN msgs' = DOMAIN msgs \ gone /\ IsTable(msgs)
      BY <2>1 DEF TypeOK
    <3>3. QED
      BY <2>1, <3>1, <3>2 DEF IsTable
  <2>5. leaf' \in [Convs -> Ids \cup {None}]
    BY <2>1, <2>3 DEF TypeOK
  <2>6. QED
    BY <1>1, <2>2, <2>4, <2>5 DEF TypeOK
<1>5. ASSUME NEW k \in Convs, DeleteConv(k) PROVE TypeOK'
  <2>1. IsTable(msgs)'
    BY <1>5 DEF DeleteConv, TypeOK, IsTable
  <2>2. leaf' \in [Convs -> Ids \cup {None}] /\ tagged' \subseteq convs' /\ convs' \subseteq convs
    BY <1>5 DEF DeleteConv, TypeOK
  <2>3. skipped' \in BOOLEAN
    BY <1>5, Zenon DEF DeleteConv, TypeOK
  <2>4. UNCHANGED <<there, exports, opened, stamp, job, crashes, pruned>>
    BY <1>5 DEF DeleteConv, Acts, outside
  <2>5. QED
    BY <1>1, <2>1, <2>2, <2>3, <2>4 DEF TypeOK
<1>6. QED
  BY <1>2, <1>3, <1>4, <1>5

-----------------------------------------------------------------------------
(* The invariant *)

ImportInv ==
  /\ TypeOK
  /\ BranchesOnce
  /\ FreshJob
  /\ OneChat
  /\ DeletedStays
  /\ RowsOpened
  /\ KnownAll
  /\ OnceEach

\* Every message was there before, or is written here.
Kept ==
  \A m \in DOMAIN msgs' :
    \/ /\ m \in DOMAIN msgs
       /\ msgs'[m].conv = msgs[m].conv
       /\ msgs'[m].from = msgs[m].from
       /\ msgs'[m].role = msgs[m].role
    \/ msgs'[m].conv \in convs /\ msgs'[m].from = 0

\* Every step but an import's last one keeps the messages.
LEMMA StepKeeps ==
  ASSUME TypeOK, [Next]_vars, \A top \in 0 .. MaxMessages : ~ Apply(top)
  PROVE  Kept /\ opened' \in Nat /\ opened' >= opened
<1> USE DEF Kept
<1>0. opened \in Nat
  BY BoundsAssumption DEF TypeOK
<1>1. CASE UNCHANGED <<msgs, opened>>
  BY <1>0, <1>1
<1>2. CASE Create
  BY <1>0, <1>2 DEF Create
<1>3. ASSUME NEW k \in Convs, NEW top \in 0 .. MaxMessages, NEW p \in Ids \cup {None}, CarryOn(k, top, p)
      PROVE  Kept /\ UNCHANGED opened
  BY <1>3 DEF CarryOn, Changing, Acts
<1>4. ASSUME NEW p \in Ids, DeleteTurn(p) PROVE Kept /\ UNCHANGED opened
  <2> DEFINE gone == Tree!Doomed(msgs[p].conv, p)
             kept == Tree!KeptNext(msgs[p].conv, p)
             up == msgs[p].parent
  <2>1. msgs' = [m \in DOMAIN msgs \ gone |-> IF m \in kept THEN [msgs[m] EXCEPT !.parent = up] ELSE msgs[m]]
    BY <1>4 DEF DeleteTurn, Tree!Prune
  <2> HIDE DEF gone, kept, up
  <2>2. \A m \in DOMAIN msgs : msgs[m] \in Row
    BY DEF TypeOK, IsTable
  <2>3. \A m \in DOMAIN msgs : /\ [msgs[m] EXCEPT !.parent = up].conv = msgs[m].conv
                               /\ [msgs[m] EXCEPT !.parent = up].from = msgs[m].from
                               /\ [msgs[m] EXCEPT !.parent = up].role = msgs[m].role
    BY <2>2 DEF Row
  <2>4. Kept
    BY <2>1, <2>3
  <2>5. QED
    BY <1>4, <2>4 DEF DeleteTurn, Changing, Acts
<1>5. ASSUME NEW k \in Convs, DeleteConv(k) PROVE Kept /\ UNCHANGED opened
  BY <1>5 DEF DeleteConv, Acts
<1>6. QED
  <2>1. CASE JobStep
    BY <1>1, <1>2, <2>1
    DEF JobStep, ReadSkips, Tag, ReadKnown, ReadLeaf, Lost, Steps, tree
  <2>2. CASE UNCHANGED vars
    BY <1>1, <2>2 DEF vars
  <2>3. CASE Crash
    BY <1>1, <2>3 DEF Crash, tree
  <2>4. ASSUME NEW i \in DOMAIN exports, Start(exports[i]) PROVE UNCHANGED <<msgs, opened>>
    BY <2>4 DEF Start, tree
  <2>5. ASSUME NEW m \in Ids, NEW n \in Ids, Switch(m, n) PROVE UNCHANGED <<msgs, opened>>
    BY <2>5 DEF Switch, Changing, Acts
  <2>6. ASSUME \/ \E p \in Prompts : ContinueThere(p)
               \/ \E i \in 1 .. MaxPrompts, p \in Prompts : EditThere(i, p)
               \/ \E b \in there.others : SwitchThere(b)
               \/ ReplyThere
               \/ Exported
        PROVE  UNCHANGED <<msgs, opened>>
    BY <2>6 DEF ContinueThere, EditThere, SwitchThere, ReplyThere, Exported, Changes, tree
  <2>7. QED
    BY <1>0, <1>1, <1>3, <1>4, <1>5, <2>1, <2>2, <2>3, <2>4, <2>5, <2>6 DEF Next

\* Types stay right in every step.
LEMMA TypeStep == ASSUME TypeOK, [Next]_vars PROVE TypeOK'
<1>1. CASE UNCHANGED vars
  BY <1>1 DEF vars, TypeOK, IsTable
<1>2. CASE Next
  BY <1>2, ThereType, ReadType, WriteType, HereType DEF Next, JobStep
<1>3. QED
  BY <1>1, <1>2

\* No prompt gets on a branch twice.
LEMMA BranchStep == ASSUME TypeOK, BranchesOnce, [Next]_vars PROVE BranchesOnce'
<1> DEFINE There == [branch: Seq(Prompts), others: SUBSET Seq(Prompts),
                     reply: [Prompts -> 0 .. MaxText], time: 0 .. MaxTime]
<1>1. there \in There
  BY DEF TypeOK
<1>2. ASSUME NEW chat \in There, Changes(chat), Once(chat.branch), \A b \in chat.others : Once(b)
      PROVE  BranchesOnce'
  <2>1. there'.branch = chat.branch /\ there'.others = chat.others /\ UNCHANGED <<exports, job>>
    BY <1>2 DEF Changes
  <2>2. QED
    BY <1>2, <2>1 DEF BranchesOnce, Once
<1>3. ASSUME NEW b \in Seq(Prompts), Once(b), NEW p \in Prompts, \A j \in DOMAIN b : b[j] # p
      PROVE  Once(Append(b, p))
  BY <1>3 DEF Once
<1>4. ASSUME NEW p \in Prompts, ContinueThere(p) PROVE BranchesOnce'
  <2>1. there.branch \in Seq(Prompts) /\ \A j \in DOMAIN there.branch : there.branch[j] # p
    BY <1>1, <1>4 DEF ContinueThere, NextPrompt, Written
  <2>2. Once(Append(there.branch, p))
    BY <1>3, <2>1 DEF BranchesOnce
  <2>3. Append(there.branch, p) \in Seq(Prompts)
    BY <2>1
  <2>4. [there EXCEPT !.branch = Append(there.branch, p)] \in There
    BY <1>1, <2>3
  <2>5. QED
    BY <1>1, <1>2, <1>4, <2>2, <2>4 DEF ContinueThere, BranchesOnce
<1>5. ASSUME NEW i \in 1 .. MaxPrompts, NEW p \in Prompts, EditThere(i, p) PROVE BranchesOnce'
  <2> DEFINE kept == SubSeq(there.branch, 1, i - 1)
  <2>1. /\ there.branch \in Seq(Prompts) /\ i \in 1 .. Len(there.branch)
        /\ \A j \in DOMAIN there.branch : there.branch[j] # p
    <3>1. there.branch \in Seq(Prompts) /\ i \in DOMAIN there.branch
      BY <1>1, <1>5 DEF EditThere
    <3>2. \A j \in DOMAIN there.branch : there.branch[j] # p
      BY <1>5 DEF EditThere, NextPrompt, Written
    <3>3. QED
      BY <3>1, <3>2
  <2>2. /\ kept \in Seq(Prompts) /\ Len(kept) = i - 1
        /\ \A j \in 1 .. i - 1 : kept[j] = there.branch[j]
    BY <2>1, SubSeqProperties
  <2> HIDE DEF kept
  <2>3. DOMAIN kept = 1 .. i - 1
    BY <2>2
  <2>4. Once(kept) /\ \A j \in DOMAIN kept : kept[j] # p
    BY <2>1, <2>2, <2>3, SMTT(20) DEF Once, BranchesOnce
  <2>5. Once(Append(kept, p))
    BY <1>3, <2>2, <2>4
  <2>6. Append(kept, p) \in Seq(Prompts)
    BY <2>2
  <2> DEFINE chat == [there EXCEPT !.branch = Append(kept, p), !.others = @ \cup {there.branch}]
  <2>7. chat \in There
    BY <1>1, <2>6
  <2>8. Once(chat.branch) /\ \A b \in chat.others : Once(b)
    BY <1>1, <2>5 DEF BranchesOnce
  <2>9. Changes(chat)
    BY <1>5 DEF EditThere, kept
  <2> HIDE DEF chat
  <2>10. QED
    BY <1>2, <2>7, <2>8, <2>9
<1>6. ASSUME NEW b \in there.others, SwitchThere(b) PROVE BranchesOnce'
  <2> DEFINE chat == [there EXCEPT !.branch = b, !.others = (@ \ {b}) \cup {there.branch}]
  <2>1. chat \in There /\ Once(chat.branch) /\ \A c \in chat.others : Once(c)
    BY <1>1 DEF BranchesOnce
  <2>2. Changes(chat)
    BY <1>6 DEF SwitchThere
  <2> HIDE DEF chat
  <2>3. QED
    BY <1>2, <2>1, <2>2
<1>7. CASE ReplyThere
  <2> DEFINE chat == [there EXCEPT !.reply[there.branch[Len(there.branch)]] = @ + 1]
  <2>1. there.branch[Len(there.branch)] \in Prompts
    BY <1>1, <1>7 DEF ReplyThere
  <2>2. there.reply[there.branch[Len(there.branch)]] + 1 \in 0 .. MaxText
    BY <1>1, <1>7, <2>1, BoundsAssumption DEF ReplyThere
  <2>3. chat \in There /\ Once(chat.branch) /\ \A c \in chat.others : Once(c)
    BY <1>1, <2>1, <2>2 DEF BranchesOnce
  <2>4. Changes(chat)
    BY <1>7 DEF ReplyThere
  <2> HIDE DEF chat
  <2>5. QED
    BY <1>2, <2>3, <2>4
<1>8. CASE Exported
  <2> DEFINE e == [branch |-> there.branch, reply |-> there.reply, time |-> there.time]
  <2>1. exports \in Seq(Export) /\ e \in Export /\ Once(e.branch)
    BY <1>1 DEF TypeOK, Export, BranchesOnce
  <2>2. exports' = Append(exports, e) /\ UNCHANGED <<there, job>>
    BY <1>8 DEF Exported
  <2> HIDE DEF e
  <2>3. \A i \in DOMAIN exports' : exports'[i] = e \/ (i \in DOMAIN exports /\ exports'[i] = exports[i])
    BY <2>1, <2>2
  <2>4. QED
    BY <2>1, <2>2, <2>3 DEF BranchesOnce, Once
<1>9. ASSUME NEW i \in DOMAIN exports, Start(exports[i]) PROVE BranchesOnce'
  <2>1. job'.export = exports[i] /\ UNCHANGED <<there, exports>>
    BY <1>9 DEF Start, Steps, outside, Idle
  <2>2. QED
    BY <2>1 DEF BranchesOnce, Once
<1>10. ASSUME UNCHANGED <<there, exports>>, job'.export \in {job.export, NoExport} PROVE BranchesOnce'
  BY <1>10 DEF BranchesOnce, Once, NoExport
<1>11. CASE JobStep
  <2>1. UNCHANGED <<there, exports>>
    BY <1>11 DEF JobStep, ReadSkips, Create, Tag, ReadKnown, ReadLeaf, Lost, Apply, Steps, outside
  <2>2. job' = Idle \/ job'.export = job.export
    BY <1>11 DEF JobStep, ReadSkips, Create, Tag, ReadKnown, ReadLeaf, Lost, Apply, Steps, TypeOK
  <2>3. QED
    BY <1>10, <2>1, <2>2 DEF Idle
<1>12. CASE Crash \/ UNCHANGED vars
  BY <1>10, <1>12 DEF Crash, Idle, outside, vars
<1>13. ASSUME Acts PROVE BranchesOnce'
  BY <1>10, <1>13 DEF Acts, outside
<1>14. QED
  BY <1>4, <1>5, <1>6, <1>7, <1>8, <1>9, <1>11, <1>12, <1>13
  DEF Next, CarryOn, Switch, DeleteTurn, DeleteConv, Changing

\* There is one chat with the import_id, and none after one was deleted.
LEMMA ChatStep ==
  ASSUME TypeOK, FreshJob, OneChat, DeletedStays, [Next]_vars
  PROVE  FreshJob' /\ OneChat' /\ DeletedStays'
<1> USE DEF FreshJob, OneChat, DeletedStays
<1>1. ASSUME UNCHANGED <<tagged, skipped>>, UNCHANGED job \/ job' = Idle PROVE FreshJob' /\ OneChat' /\ DeletedStays'
  BY <1>1 DEF Idle
<1>2. ASSUME NEW i \in DOMAIN exports, Start(exports[i]) PROVE FreshJob' /\ OneChat' /\ DeletedStays'
  <2>1. UNCHANGED <<tagged, skipped>> /\ job'.at = "skips" /\ (job'.conv = None => tagged = {})
    <3>1. CASE job' = [Idle EXCEPT !.at = "skips", !.export = exports[i]] /\ tagged = {}
      BY <1>2, <3>1 DEF Start, Idle
    <3>2. ASSUME NEW k \in tagged,
                 job' = [Idle EXCEPT !.at = "skips", !.export = exports[i], !.conv = k, !.stamp = stamp[k]]
          PROVE  job'.at = "skips" /\ job'.conv # None
      BY <3>2 DEF Idle, TypeOK, None, Convs
    <3>3. UNCHANGED <<tagged, skipped>>
      BY <1>2 DEF Start
    <3>4. QED
      BY <1>2, <3>1, <3>2, <3>3 DEF Start, Steps, Recorded
  <2>2. QED
    BY <2>1
<1>3. CASE ReadSkips
  <2>1. \/ job' = Idle
        \/ job.conv = None /\ ~ skipped /\ tagged = {}
        \/ job'.at = "known"
    BY <1>3 DEF ReadSkips, Steps, TypeOK
  <2>2. UNCHANGED <<tagged, skipped>>
    BY <1>3 DEF ReadSkips
  <2>3. QED
    BY <2>1, <2>2 DEF Idle
<1>4. CASE Create
  BY <1>4 DEF Create, Steps
<1>5. CASE Tag
  <2>1. \/ job' = Idle /\ UNCHANGED tagged
        \/ job'.at = "apply" /\ tagged' = {job.conv} /\ ~ skipped
    BY <1>5 DEF Tag, Steps, TypeOK
  <2>2. UNCHANGED skipped
    BY <1>5 DEF Tag
  <2>3. QED
    BY <2>1, <2>2 DEF Idle
<1>6. CASE ReadKnown \/ ReadLeaf
  <2>1. job'.at \in {"leaf", "apply"} /\ UNCHANGED <<tagged, skipped>>
    BY <1>6 DEF ReadKnown, ReadLeaf, Steps, TypeOK
  <2>2. QED
    BY <2>1
<1>7. CASE Lost \/ Crash \/ UNCHANGED vars
  BY <1>1, <1>7 DEF Lost, Crash, Steps, vars
<1>8. ASSUME NEW top \in 0 .. MaxMessages, Apply(top) PROVE FreshJob' /\ OneChat' /\ DeletedStays'
  BY <1>1, <1>8 DEF Apply, Steps
<1>9. ASSUME NEW k \in Convs, DeleteConv(k) PROVE FreshJob' /\ OneChat' /\ DeletedStays'
  BY <1>9 DEF DeleteConv, Acts
<1>10. CASE \/ \E p \in Prompts : ContinueThere(p)
            \/ \E i \in 1 .. MaxPrompts, p \in Prompts : EditThere(i, p)
            \/ \E b \in there.others : SwitchThere(b)
            \/ ReplyThere
            \/ Exported
  BY <1>1, <1>10 DEF ContinueThere, EditThere, SwitchThere, ReplyThere, Exported, Changes
<1>11. CASE \/ \E k \in Convs, top \in 0 .. MaxMessages, p \in Ids \cup {None} : CarryOn(k, top, p)
            \/ \E m, n \in Ids : Switch(m, n)
            \/ \E p \in Ids : DeleteTurn(p)
  BY <1>1, <1>11 DEF CarryOn, Switch, DeleteTurn, Changing, Acts
<1>12. QED
  BY <1>2, <1>3, <1>4, <1>5, <1>6, <1>7, <1>8, <1>9, <1>10, <1>11 DEF Next, JobStep

\* What an import's transaction writes: rows of its chat, each with its slot.
LEMMA MergeRows ==
  ASSUME TypeOK, NEW top, Apply(top), NEW m \in DOMAIN msgs'
  PROVE  \/ /\ m \in DOMAIN msgs
            /\ msgs'[m].conv = msgs[m].conv
            /\ msgs'[m].from = msgs[m].from
            /\ msgs'[m].role = msgs[m].role
         \/ /\ m \notin DOMAIN msgs
            /\ msgs'[m].conv = job.conv
            /\ \E s \in NewSlots(job.export, job.known) :
                 /\ KeyOf(job.export, job.known, top, s) = m
                 /\ msgs'[m].from = PromptAt(job.export, s)
                 /\ msgs'[m].role = RoleAt(s)
<1> DEFINE e == job.export
           slot == CHOOSE s \in NewSlots(e, job.known) : KeyOf(e, job.known, top, s) = m
<1>1. msgs' = Merged(job.conv, e, job.known, top)
  BY DEF Apply
<1>2. CASE m \in DOMAIN msgs
  <2>1. msgs[m] \in Row
    BY <1>2 DEF TypeOK, IsTable
  <2>2. msgs'[m] = msgs[m] \/ msgs'[m] = [msgs[m] EXCEPT !.text = e.reply[job.known[m].from]]
    BY <1>1, <1>2 DEF Merged
  <2>3. QED
    BY <1>2, <2>1, <2>2 DEF Row
<1>3. CASE m \notin DOMAIN msgs
  <2>1. m \in NewKeys(e, job.known, top)
    BY <1>1, <1>3 DEF Merged
  <2>2. slot \in NewSlots(e, job.known) /\ KeyOf(e, job.known, top, slot) = m
    BY <2>1 DEF NewKeys
  <2>3. msgs'[m] = NewRow(job.conv, e, job.known, top, slot)
    BY <1>1, <1>3 DEF Merged
  <2> HIDE DEF slot, e
  <2>4. QED
    BY <1>3, <2>2, <2>3 DEF NewRow, e
<1>4. QED
  BY <1>2, <1>3

\* Messages stay in chats that were created.
LEMMA OpenedStep == ASSUME TypeOK, RowsOpened, [Next]_vars PROVE RowsOpened'
<1>1. ASSUME NEW top \in 0 .. MaxMessages, Apply(top) PROVE RowsOpened'
  <2>1. opened' = opened /\ job.conv \in 1 .. opened
    BY <1>1 DEF Apply, TypeOK
  <2>2. QED
    BY <1>1, <2>1, MergeRows DEF RowsOpened
<1>2. CASE \A top \in 0 .. MaxMessages : ~ Apply(top)
  <2>1. Kept /\ opened' \in Nat /\ opened' >= opened
    BY <1>2, StepKeeps
  <2>2. convs \subseteq 1 .. opened /\ opened \in Nat
    BY BoundsAssumption DEF TypeOK
  <2>3. \A k \in 1 .. opened : k \in 1 .. opened'
    BY <2>1, <2>2
  <2>4. ASSUME NEW m \in DOMAIN msgs' PROVE msgs'[m].conv \in 1 .. opened
    BY <2>1, <2>2 DEF Kept, RowsOpened
  <2>5. QED
    BY <2>3, <2>4 DEF RowsOpened
<1>3. QED
  BY <1>1, <1>2

\* The job goes on knowing what was imported.
LEMMA KnownStep ==
  ASSUME TypeOK, RowsOpened, KnownAll, [Next]_vars
  PROVE  KnownAll'
<1>1. ASSUME job'.at \notin {"tag", "leaf", "apply"} PROVE KnownAll'
  BY <1>1 DEF KnownAll
<1>2. ASSUME NEW top \in 0 .. MaxMessages, Apply(top) PROVE KnownAll'
  BY <1>1, <1>2 DEF Apply, Steps, Idle
<1>3. CASE Create
  <2>1. job'.at = "tag" /\ job'.conv = opened + 1 /\ UNCHANGED msgs
    BY <1>3 DEF Create, Steps, TypeOK
  <2>2. \A m \in DOMAIN msgs : msgs[m].conv # opened + 1
    BY BoundsAssumption DEF RowsOpened, TypeOK
  <2>3. QED
    BY <2>1, <2>2 DEF KnownAll
<1>4. CASE Tag
  <2>1. \/ job' = Idle
        \/ job.at = "tag" /\ job'.at = "apply" /\ job'.conv = job.conv
    BY <1>4 DEF Tag, Steps, TypeOK
  <2>2. UNCHANGED msgs
    BY <1>4 DEF Tag, tree
  <2>3. QED
    BY <1>1, <2>1, <2>2 DEF KnownAll, Idle
<1>5. CASE ReadKnown
  <2>1. /\ job'.at = "leaf" /\ job'.conv = job.conv
        /\ job'.known = [m \in Imported(job.conv) |-> msgs[m]]
        /\ UNCHANGED msgs
    BY <1>5 DEF ReadKnown, Steps, TypeOK, tree
  <2>2. QED
    BY <2>1 DEF KnownAll, Imported, Tree!In
<1>6. CASE ReadLeaf
  <2>1. /\ job.at = "leaf" /\ job'.at = "apply" /\ job'.conv = job.conv /\ job'.known = job.known
        /\ UNCHANGED msgs
    BY <1>6 DEF ReadLeaf, Steps, TypeOK, tree
  <2>2. QED
    BY <2>1 DEF KnownAll
<1>7. CASE ReadSkips \/ Lost \/ Crash
  <2>1. job'.at \in {"idle", "create", "known"}
    BY <1>7 DEF ReadSkips, Lost, Crash, Steps, Idle, TypeOK
  <2>2. QED
    BY <1>1, <2>1
<1>8. ASSUME NEW i \in DOMAIN exports, Start(exports[i]) PROVE KnownAll'
  <2>1. job'.at = "skips"
    BY <1>8 DEF Start, Steps, Idle
  <2>2. QED
    BY <1>1, <2>1
<1>9. CASE UNCHANGED job /\ \A top \in 0 .. MaxMessages : ~ Apply(top)
  <2>1. Kept
    BY <1>9, StepKeeps
  <2>2. QED
    BY <1>9, <2>1 DEF Kept, KnownAll
<1>10. QED
  <2>1. CASE JobStep
    BY <1>2, <1>3, <1>4, <1>5, <1>6, <1>7, <2>1 DEF JobStep
  <2>2. CASE UNCHANGED vars
    BY <1>9, <2>2, <1>2 DEF vars
  <2>3. ASSUME Acts PROVE UNCHANGED job
    BY <2>3 DEF Acts
  <2>4. ASSUME NEW chat, Changes(chat) PROVE UNCHANGED job
    BY <2>4 DEF Changes
  <2>5. CASE Exported
    BY <1>2, <1>9, <2>5 DEF Exported
  <2>6. CASE UNCHANGED job
    BY <1>2, <1>9, <2>6
  <2>7. QED
    BY <1>7, <1>8, <2>1, <2>2, <2>3, <2>4, <2>5, <2>6
    DEF Next, ContinueThere, EditThere, SwitchThere, ReplyThere, CarryOn, Switch, DeleteTurn, DeleteConv, Changing

\* A message is imported once.
LEMMA OnceStep ==
  ASSUME TypeOK, BranchesOnce, KnownAll, OnceEach, [Next]_vars
  PROVE  OnceEach'
<1>1. CASE \A top \in 0 .. MaxMessages : ~ Apply(top)
  <2>1. Kept
    BY <1>1, StepKeeps
  <2>2. QED
    BY <2>1 DEF Kept, OnceEach
<1>2. ASSUME NEW top \in 0 .. MaxMessages, Apply(top) PROVE OnceEach'
  <2> DEFINE e == job.export
             known == job.known
             old(m) == /\ m \in DOMAIN msgs
                       /\ msgs'[m].conv = msgs[m].conv
                       /\ msgs'[m].from = msgs[m].from
                       /\ msgs'[m].role = msgs[m].role
             new(m, s) == /\ s \in NewSlots(e, known)
                          /\ KeyOf(e, known, top, s) = m
                          /\ msgs'[m].conv = job.conv
                          /\ msgs'[m].from = PromptAt(e, s)
                          /\ msgs'[m].role = RoleAt(s)
  <2>1. \A m \in DOMAIN msgs' : old(m) \/ \E s \in NewSlots(e, known) : new(m, s)
    BY <1>2, MergeRows
  <2>2. job.at = "apply" /\ e \in Export /\ Once(e.branch)
    BY <1>2 DEF Apply, TypeOK, BranchesOnce
  <2>3. ASSUME NEW m \in DOMAIN msgs', NEW n \in DOMAIN msgs', msgs'[m].from # 0,
               msgs'[m].conv = msgs'[n].conv, msgs'[m].from = msgs'[n].from, msgs'[m].role = msgs'[n].role
        PROVE  m = n
    <3>1. CASE old(m) /\ old(n)
      BY <2>3, <3>1 DEF OnceEach
    <3>2. ASSUME NEW a, NEW b, NEW s \in NewSlots(e, known), old(a), new(b, s),
                 msgs'[a].from # 0, msgs'[a].conv = msgs'[b].conv,
                 msgs'[a].from = msgs'[b].from, msgs'[a].role = msgs'[b].role
          PROVE  FALSE
      <4>1. a \in DOMAIN known /\ known[a].from = PromptAt(e, s) /\ known[a].role = RoleAt(s)
        BY <2>2, <3>2 DEF KnownAll
      <4>2. HasRow(e, known, s)
        BY <4>1 DEF HasRow, IsKnown
      <4>3. QED
        BY <3>2, <4>2 DEF NewSlots
    <3>3. ASSUME NEW s \in NewSlots(e, known), NEW t \in NewSlots(e, known), new(m, s), new(n, t)
          PROVE  m = n
      <4>1. s \in Slots(e) /\ t \in Slots(e)
        BY DEF NewSlots
      <4>2. PromptAt(e, s) = PromptAt(e, t) /\ RoleAt(s) = RoleAt(t)
        BY <2>3, <3>3
      <4>3. s = t
        BY <2>2, <4>1, <4>2, SlotsApart
      <4>4. QED
        BY <3>3, <4>3
    <3> HIDE DEF old, new
    <3>4. QED
      BY <2>1, <2>3, <3>1, <3>2, <3>3
  <2>4. QED
    BY <2>3 DEF OnceEach
<1>3. QED
  BY <1>1, <1>2

\* The invariant holds of every reachable state.
LEMMA ImportInvInit == Init => ImportInv
<1> SUFFICES ASSUME Init PROVE ImportInv
  OBVIOUS
<1>1. BranchesOnce
  BY DEF Init, BranchesOnce, Once, Idle, NoExport
<1>2. FreshJob /\ OneChat /\ DeletedStays /\ RowsOpened /\ KnownAll /\ OnceEach
  BY DEF Init, FreshJob, OneChat, DeletedStays, RowsOpened, KnownAll, OnceEach, Idle
<1>3. QED
  BY <1>1, <1>2, ImportInit DEF ImportInv

LEMMA ImportInvStep == ImportInv /\ [Next]_vars => ImportInv'
BY TypeStep, BranchStep, ChatStep, OpenedStep, KnownStep, OnceStep DEF ImportInv

LEMMA ImportInvHolds == Spec => []ImportInv
BY ImportInvInit, ImportInvStep, PTL DEF Spec

-----------------------------------------------------------------------------
(* The sets that the walks of a tree collect *)

\* A set of naturals has a least member.
LEMMA Least ==
  ASSUME NEW T, T \subseteq Nat, T # {}
  PROVE  \E x \in T : \A y \in T : x <= y
<1>1. PICK x \in T : \A y \in T : ~ (<<y, x>> \in OpToRel(<, Nat))
  BY NatLessThanWellFounded, WFMin
<1>2. \A y \in T : ~ (y < x)
  BY <1>1 DEF OpToRel
<1>3. QED
  BY <1>2

\* f starts at a and goes on from there as g says, n times.
Follows(f, a, g, n) == f[0] = a /\ \A i \in 1 .. n : f[i] = g[<<i, f[i - 1]>>]

\* A function that steps from 0 to n exists: the longest one is as long.
LEMMA Recursion ==
  ASSUME NEW D, NEW a \in D, NEW g \in [Nat \X D -> D], NEW n \in Nat
  PROVE  \E f \in [0 .. n -> D] : Follows(f, a, g, n)
<1> DEFINE Fits(f, j) ==
             /\ f \in [0 .. j -> D]
             /\ f[0] = a
             /\ \A i \in 1 .. j : f[i] = g[<<i, f[i - 1]>>]
           bad == {j \in Nat : ~ \E f : Fits(f, j)}
<1>1. \A j \in Nat : \E f : Fits(f, j)
  <2>1. SUFFICES ASSUME bad # {} PROVE FALSE
    OBVIOUS
  <2>2. PICK j \in bad : \A i \in bad : j <= i
    BY <2>1, Least
  <2>3. CASE j = 0
    <3>1. Fits([i \in 0 .. 0 |-> a], 0)
      OBVIOUS
    <3>2. QED
      BY <2>2, <2>3, <3>1
  <2>4. CASE j # 0
    <3>1. j - 1 \in Nat /\ j - 1 \notin bad /\ j \in Nat
      BY <2>2, <2>4
    <3>2. PICK f : Fits(f, j - 1)
      BY <3>1
    <3> DEFINE h == [i \in 0 .. j |-> IF i = j THEN g[<<j, f[j - 1]>>] ELSE f[i]]
    <3>3. f[j - 1] \in D
      BY <3>1, <3>2
    <3>4. g[<<j, f[j - 1]>>] \in D
      BY <3>1, <3>3
    <3>5. h \in [0 .. j -> D]
      BY <3>1, <3>2, <3>4
    <3>6. h[0] = a
      BY <2>4, <3>1, <3>2
    <3>7. \A i \in 1 .. j : h[i] = g[<<i, h[i - 1]>>]
      <4>1. TAKE i \in 1 .. j
      <4>2. h[i - 1] = f[i - 1]
        BY <3>1
      <4>3. CASE i = j
        BY <3>1, <4>2, <4>3, SMTT(20)
      <4>4. CASE i # j
        BY <3>1, <3>2, <4>2, <4>4
      <4>5. QED
        BY <4>3, <4>4
    <3>8. QED
      BY <2>2, <3>5, <3>6, <3>7
  <2>5. QED
    BY <2>3, <2>4
<1>2. PICK f : Fits(f, n)
  BY <1>1
<1>3. QED
  BY <1>2 DEF Follows

\* The generations that grow from a set of messages.
Generations(down, k, S, kept) ==
  /\ down[0] = S
  /\ \A i \in 1 .. MaxMessages :
       down[i] = down[i - 1] \cup {c \in Tree!In(k) \ kept : msgs[c].parent \in down[i - 1]}

\* What grows from a set of messages is the last of its generations.
LEMMA GrownSteps ==
  ASSUME IsTable(msgs), NEW k, NEW S \in SUBSET Ids, NEW kept
  PROVE  \E down : Generations(down, k, S, kept) /\ Tree!Grown(k, S, kept) = down[MaxMessages]
<1> DEFINE D == SUBSET Ids
           More(T) == {c \in Tree!In(k) \ kept : msgs[c].parent \in T}
           F(f) == [i \in 0 .. MaxMessages |->
                      IF i = 0 THEN S
                      ELSE LET T == f[i - 1] IN T \cup {c \in Tree!In(k) \ kept : msgs[c].parent \in T}]
           g == [q \in Nat \X D |-> q[2] \cup More(q[2])]
<1>1. S \in D /\ MaxMessages \in Nat
  BY BoundsAssumption
<1>2. g \in [Nat \X D -> D]
  <2>1. \A q \in Nat \X D : q[2] \in SUBSET Ids
    OBVIOUS
  <2>2. \A T : More(T) \subseteq Ids
    BY DEF IsTable, Tree!In
  <2> HIDE DEF More
  <2>3. QED
    BY <2>1, <2>2
<1>3. \A q \in Nat \X D : g[q] = q[2] \cup More(q[2])
  OBVIOUS
<1> HIDE DEF g, D
<1>4. PICK f \in [0 .. MaxMessages -> D] : Follows(f, S, g, MaxMessages)
  BY <1>1, <1>2, Recursion
<1>5. \A i \in 1 .. MaxMessages : g[<<i, f[i - 1]>>] = f[i - 1] \cup More(f[i - 1])
  <2>1. TAKE i \in 1 .. MaxMessages
  <2>2. <<i, f[i - 1]>> \in Nat \X D
    BY <1>1, <1>4
  <2>3. QED
    BY <1>3, <2>2
<1>6. f = F(f)
  <2>1. f = [i \in 0 .. MaxMessages |-> f[i]]
    BY <1>4
  <2>2. \A i \in 0 .. MaxMessages :
          f[i] = IF i = 0 THEN S
                 ELSE LET T == f[i - 1] IN T \cup {c \in Tree!In(k) \ kept : msgs[c].parent \in T}
    <3>1. f[0] = S /\ \A i \in 1 .. MaxMessages : f[i] = g[<<i, f[i - 1]>>]
      BY <1>4 DEF Follows
    <3>2. \A i \in 0 .. MaxMessages : i = 0 \/ i \in 1 .. MaxMessages
      BY <1>1
    <3>3. QED
      BY <3>1, <3>2, <1>5
  <2>3. QED
    BY <2>1, <2>2
<1>7. PICK down : down = F(down) /\ Tree!Grown(k, S, kept) = down[MaxMessages]
  <2> DEFINE d == CHOOSE x : x = F(x)
  <2>1. Tree!Grown(k, S, kept) = d[MaxMessages]
    BY DEF Tree!Grown
  <2>2. d = F(d)
    BY <1>6
  <2>3. QED
    BY <2>1, <2>2
<1>8. down[0] = S
  BY <1>1, <1>7
<1>9. \A i \in 1 .. MaxMessages :
        down[i] = down[i - 1] \cup {c \in Tree!In(k) \ kept : msgs[c].parent \in down[i - 1]}
  BY <1>1, <1>7
<1>10. QED
  BY <1>7, <1>8, <1>9 DEF Generations

\* The single pass for what hangs below a message.
Passes(pass, k, m) ==
  /\ pass[0] = {m}
  /\ \A i \in 1 .. MaxMessages :
       pass[i] = IF i \in Tree!In(k) /\ msgs[i].parent \in pass[i - 1]
                 THEN pass[i - 1] \cup {i} ELSE pass[i - 1]

\* What hangs below a message is the end of such a pass.
LEMMA BelowSteps ==
  ASSUME IsTable(msgs), NEW k, NEW m \in Ids
  PROVE  \E pass : Passes(pass, k, m) /\ Tree!Below(k, m) = pass[MaxMessages]
<1> DEFINE D == SUBSET Ids
           F(f) == [i \in 0 .. MaxMessages |->
                      IF i = 0 THEN {m}
                      ELSE LET T == f[i - 1]
                           IN  IF i \in Tree!In(k) /\ msgs[i].parent \in T THEN T \cup {i} ELSE T]
           g == [q \in Nat \X D |-> IF q[1] \in Tree!In(k) /\ msgs[q[1]].parent \in q[2]
                                    THEN q[2] \cup {q[1]} ELSE q[2]]
<1>1. {m} \in D /\ MaxMessages \in Nat
  BY BoundsAssumption
<1>2. g \in [Nat \X D -> D]
  BY DEF IsTable, Tree!In
<1>3. \A i \in Nat, T \in D : g[<<i, T>>] = IF i \in Tree!In(k) /\ msgs[i].parent \in T
                                              THEN T \cup {i} ELSE T
  OBVIOUS
<1> HIDE DEF g, D
<1>4. PICK f \in [0 .. MaxMessages -> D] : Follows(f, {m}, g, MaxMessages)
  BY <1>1, <1>2, Recursion
<1>5. \A i \in 1 .. MaxMessages :
        g[<<i, f[i - 1]>>] = IF i \in Tree!In(k) /\ msgs[i].parent \in f[i - 1]
                             THEN f[i - 1] \cup {i} ELSE f[i - 1]
  <2>1. TAKE i \in 1 .. MaxMessages
  <2>2. i \in Nat /\ f[i - 1] \in D
    BY <1>1, <1>4
  <2>3. QED
    BY <1>3, <2>2
<1>6. f = F(f)
  <2>1. f = [i \in 0 .. MaxMessages |-> f[i]]
    BY <1>4
  <2>2. \A i \in 0 .. MaxMessages :
          f[i] = IF i = 0 THEN {m}
                 ELSE LET T == f[i - 1]
                      IN  IF i \in Tree!In(k) /\ msgs[i].parent \in T THEN T \cup {i} ELSE T
    <3>1. f[0] = {m} /\ \A i \in 1 .. MaxMessages : f[i] = g[<<i, f[i - 1]>>]
      BY <1>4 DEF Follows
    <3>2. \A i \in 0 .. MaxMessages : i = 0 \/ i \in 1 .. MaxMessages
      BY <1>1
    <3>3. QED
      BY <3>1, <3>2, <1>5
  <2>3. QED
    BY <2>1, <2>2
<1>7. PICK pass : pass = F(pass) /\ Tree!Below(k, m) = pass[MaxMessages]
  <2> DEFINE d == CHOOSE x : x = F(x)
  <2>1. Tree!Below(k, m) = d[MaxMessages]
    BY DEF Tree!Below
  <2>2. d = F(d)
    BY <1>6
  <2>3. QED
    BY <2>1, <2>2
<1>8. pass[0] = {m}
  BY <1>1, <1>7
<1>9. \A i \in 1 .. MaxMessages :
        pass[i] = IF i \in Tree!In(k) /\ msgs[i].parent \in pass[i - 1]
                  THEN pass[i - 1] \cup {i} ELSE pass[i - 1]
  <2>1. TAKE i \in 1 .. MaxMessages
  <2>2. i \in 0 .. MaxMessages /\ i # 0
    BY <1>1
  <2>3. F(pass)[i] = IF i \in Tree!In(k) /\ msgs[i].parent \in pass[i - 1]
                     THEN pass[i - 1] \cup {i} ELSE pass[i - 1]
    BY <2>2
  <2>4. QED
    BY <1>7, <2>3
<1>10. QED
  BY <1>7, <1>8, <1>9 DEF Passes

\* Sets that only grow from one step to the next only grow.
Grows(f, n) == \A i \in 1 .. n : f[i - 1] \subseteq f[i]

\* Sets that grow step by step contain the earlier ones.
LEMMA Monotone ==
  ASSUME NEW n \in Nat, NEW f, Grows(f, n), NEW j \in 0 .. n, NEW i \in 0 .. j
  PROVE  f[i] \subseteq f[j]
<1> DEFINE bad == {l \in i .. n : ~ (f[i] \subseteq f[l])}
<1>1. SUFFICES ASSUME j \in bad PROVE FALSE
  OBVIOUS
<1>2. bad \subseteq Nat
  OBVIOUS
<1>3. PICK l \in bad : \A h \in bad : l <= h
  BY <1>1, <1>2, Least
<1>4. l # i /\ l \in 1 .. n /\ l - 1 \in i .. n
  BY <1>3
<1>5. l - 1 \notin bad
  BY <1>2, <1>3, <1>4
<1>6. f[i] \subseteq f[l - 1] /\ f[l - 1] \subseteq f[l]
  BY <1>4, <1>5 DEF Grows
<1>7. QED
  BY <1>3, <1>6

\* Everything that grows from S, and nothing else, is found.
LEMMA GrownIs ==
  ASSUME IsTable(msgs), Tree!ParentOlder, NEW k, NEW S, S \subseteq Tree!In(k), NEW kept
  PROVE  /\ S \subseteq Tree!Grown(k, S, kept)
         /\ Tree!Grown(k, S, kept) \subseteq Tree!In(k)
         /\ \A x \in Tree!Grown(k, S, kept) :
              x \in S \/ (x \notin kept /\ msgs[x].parent \in Tree!Grown(k, S, kept))
         /\ \A c \in Tree!In(k) \ kept :
              msgs[c].parent \in Tree!Grown(k, S, kept) => c \in Tree!Grown(k, S, kept)
<1>1. MaxMessages \in Nat /\ Tree!In(k) \subseteq 1 .. MaxMessages /\ S \in SUBSET Ids
  BY BoundsAssumption DEF Tree!In, IsTable, Ids
<1>2. PICK down : Generations(down, k, S, kept) /\ Tree!Grown(k, S, kept) = down[MaxMessages]
  BY <1>1, GrownSteps
<1>g. /\ down[0] = S
      /\ \A i \in 1 .. MaxMessages :
           down[i] = down[i - 1] \cup {c \in Tree!In(k) \ kept : msgs[c].parent \in down[i - 1]}
  BY <1>2 DEF Generations
<1>3. \A j \in 0 .. MaxMessages : \A i \in 0 .. j : down[i] \subseteq down[j]
  <2>1. Grows(down, MaxMessages)
    BY <1>g DEF Grows
  <2>2. QED
    BY <1>1, <2>1, Monotone
<1>4. \A j \in 0 .. MaxMessages : down[j] \subseteq Tree!In(k)
  <2> DEFINE bad == {j \in 0 .. MaxMessages : ~ (down[j] \subseteq Tree!In(k))}
  <2>1. SUFFICES ASSUME bad # {} PROVE FALSE
    OBVIOUS
  <2>n. bad \subseteq Nat
    OBVIOUS
  <2>2. PICK j \in bad : \A i \in bad : j <= i
    BY <2>1, <2>n, Least
  <2>3. j # 0 /\ j \in 1 .. MaxMessages /\ j - 1 \in 0 .. MaxMessages
    BY <1>1, <1>g, <2>2
  <2>4. j - 1 \notin bad
    BY <2>2, <2>3
  <2>5. QED
    BY <1>g, <2>2, <2>3, <2>4
<1>5. S \subseteq down[MaxMessages]
  BY <1>1, <1>g, <1>3
<1>6. \A x \in down[MaxMessages] :
        x \in S \/ (x \notin kept /\ msgs[x].parent \in down[MaxMessages])
  <2>1. TAKE x \in down[MaxMessages]
  <2> DEFINE at == {j \in 0 .. MaxMessages : x \in down[j]}
  <2>2. MaxMessages \in at
    BY <1>1
  <2>n. at \subseteq Nat /\ at # {}
    BY <2>2
  <2>3. PICK j \in at : \A i \in at : j <= i
    BY <2>n, Least
  <2>4. CASE j = 0
    BY <1>g, <2>3, <2>4
  <2>5. CASE j # 0
    <3>1. j \in 1 .. MaxMessages /\ j - 1 \in 0 .. MaxMessages
      BY <1>1, <2>3, <2>5
    <3>2. j - 1 \notin at
      BY <2>3, <3>1
    <3>3. x \in {c \in Tree!In(k) \ kept : msgs[c].parent \in down[j - 1]}
      BY <1>g, <2>3, <3>1, <3>2
    <3>4. down[j - 1] \subseteq down[MaxMessages]
      BY <1>1, <1>3, <3>1
    <3>5. QED
      BY <3>3, <3>4
  <2>6. QED
    BY <2>4, <2>5
<1>7. \A x \in down[MaxMessages] : x \in 1 .. MaxMessages /\ x \in down[x]
  <2> DEFINE bad == {x \in down[MaxMessages] : x \notin down[x]}
  <2>1. down[MaxMessages] \subseteq 1 .. MaxMessages
    BY <1>1, <1>4
  <2>2. SUFFICES ASSUME bad # {} PROVE FALSE
    BY <2>1
  <2>3. PICK x \in bad : \A y \in bad : x <= y
    <3>1. bad \subseteq Nat
      BY <2>1
    <3>2. QED
      BY <2>2, <3>1, Least
  <2>4. x \in 1 .. MaxMessages /\ x \in down[MaxMessages] /\ x \notin down[x]
    BY <2>1, <2>3
  <2>5. x \notin S
    BY <1>1, <1>g, <1>3, <2>4
  <2>6. x \notin kept /\ msgs[x].parent \in down[MaxMessages] /\ x \in Tree!In(k)
    BY <1>1, <1>4, <1>6, <2>4, <2>5
  <2> DEFINE p == msgs[x].parent
  <2>7. p \in down[MaxMessages] /\ p \in 1 .. MaxMessages /\ p < x
    BY <2>1, <2>6 DEF Tree!ParentOlder, Tree!In
  <2>8. p \in down[p]
    BY <2>3, <2>4, <2>7
  <2> HIDE DEF p
  <2>9. x - 1 \in 0 .. MaxMessages /\ p \in 0 .. x - 1
    BY <1>1, <2>4, <2>7
  <2>10. p \in down[x - 1]
    BY <1>3, <2>8, <2>9
  <2>11. QED
    BY <1>g, <2>4, <2>6, <2>10 DEF p
<1>8. \A c \in Tree!In(k) \ kept : msgs[c].parent \in down[MaxMessages] => c \in down[MaxMessages]
  <2>1. SUFFICES ASSUME NEW c \in Tree!In(k) \ kept, msgs[c].parent \in down[MaxMessages]
                 PROVE  c \in down[MaxMessages]
    OBVIOUS
  <2> DEFINE p == msgs[c].parent
  <2>2. c \in 1 .. MaxMessages /\ p \in 1 .. MaxMessages /\ p \in down[p] /\ p < c
    BY <1>1, <1>7, <2>1 DEF Tree!ParentOlder, Tree!In
  <2> HIDE DEF p
  <2>3. c - 1 \in 0 .. MaxMessages /\ p \in 0 .. c - 1 /\ MaxMessages \in 0 .. MaxMessages
    BY <1>1, <2>2
  <2>4. p \in down[c - 1]
    BY <1>3, <2>2, <2>3
  <2>5. c \in down[c]
    BY <1>g, <2>1, <2>2, <2>4 DEF p
  <2>6. c \in 0 .. MaxMessages
    BY <1>1, <2>2
  <2>7. QED
    BY <1>3, <2>3, <2>5, <2>6
<1>9. down[MaxMessages] \subseteq Tree!In(k)
  BY <1>1, <1>4
<1>10. QED
  BY <1>2, <1>5, <1>6, <1>8, <1>9

\* What hangs below a message is found in one pass, since children are newer.
LEMMA BelowIs ==
  ASSUME IsTable(msgs), Tree!ParentOlder, NEW k, NEW m \in Tree!In(k)
  PROVE  /\ Tree!Below(k, m) \subseteq Tree!In(k)
         /\ \A x \in Tree!Below(k, m) : x = m \/ msgs[x].parent \in Tree!Below(k, m)
         /\ \A c \in Tree!In(k) : msgs[c].parent \in Tree!Below(k, m) => c \in Tree!Below(k, m)
<1>1. MaxMessages \in Nat /\ Tree!In(k) \subseteq 1 .. MaxMessages /\ m \in Ids
  BY BoundsAssumption DEF Tree!In, IsTable, Ids
<1>2. PICK pass : Passes(pass, k, m) /\ Tree!Below(k, m) = pass[MaxMessages]
  BY <1>1, BelowSteps
<1>g. /\ pass[0] = {m}
      /\ \A i \in 1 .. MaxMessages :
           pass[i] = IF i \in Tree!In(k) /\ msgs[i].parent \in pass[i - 1]
                     THEN pass[i - 1] \cup {i} ELSE pass[i - 1]
  BY <1>2 DEF Passes
<1>3. \A j \in 0 .. MaxMessages : \A i \in 0 .. j : pass[i] \subseteq pass[j]
  <2>1. Grows(pass, MaxMessages)
    BY <1>g DEF Grows
  <2>2. QED
    BY <1>1, <2>1, Monotone
<1>4. \A j \in 0 .. MaxMessages : pass[j] \subseteq Tree!In(k)
  <2> DEFINE bad == {j \in 0 .. MaxMessages : ~ (pass[j] \subseteq Tree!In(k))}
  <2>1. SUFFICES ASSUME bad # {} PROVE FALSE
    OBVIOUS
  <2>n. bad \subseteq Nat
    OBVIOUS
  <2>2. PICK j \in bad : \A i \in bad : j <= i
    BY <2>1, <2>n, Least
  <2>3. j # 0 /\ j \in 1 .. MaxMessages /\ j - 1 \in 0 .. MaxMessages
    BY <1>1, <1>g, <2>2
  <2>4. j - 1 \notin bad
    BY <2>2, <2>3
  <2>5. QED
    BY <1>g, <2>2, <2>3, <2>4
<1>5. \A x \in pass[MaxMessages] :
        /\ x \in 1 .. MaxMessages /\ x \in pass[x]
        /\ x = m \/ msgs[x].parent \in pass[MaxMessages]
  <2>1. TAKE x \in pass[MaxMessages]
  <2> DEFINE at == {j \in 0 .. MaxMessages : x \in pass[j]}
  <2>2. MaxMessages \in at /\ x \in 1 .. MaxMessages
    BY <1>1, <1>4
  <2>n. at \subseteq Nat /\ at # {}
    BY <2>2
  <2>3. PICK j \in at : \A i \in at : j <= i
    BY <2>n, Least
  <2>4. CASE j = 0
    <3>1. x \in pass[0] /\ 0 \in 0 .. x /\ x \in 0 .. MaxMessages
      BY <1>1, <2>2, <2>3, <2>4
    <3>2. QED
      BY <1>g, <1>3, <2>2, <2>3, <2>4, <3>1
  <2>5. CASE j # 0
    <3>1. j \in 1 .. MaxMessages /\ j - 1 \in 0 .. MaxMessages
      BY <1>1, <2>3, <2>5
    <3>2. j - 1 \notin at
      BY <2>3, <3>1
    <3>3. x = j /\ msgs[x].parent \in pass[j - 1]
      BY <1>g, <2>3, <3>1, <3>2
    <3>4. pass[j - 1] \subseteq pass[MaxMessages]
      BY <1>1, <1>3, <3>1
    <3>5. QED
      BY <2>2, <2>3, <3>3, <3>4
  <2>6. QED
    BY <2>4, <2>5
<1>6. \A c \in Tree!In(k) : msgs[c].parent \in pass[MaxMessages] => c \in pass[MaxMessages]
  <2>1. SUFFICES ASSUME NEW c \in Tree!In(k), msgs[c].parent \in pass[MaxMessages]
                 PROVE  c \in pass[MaxMessages]
    OBVIOUS
  <2> DEFINE p == msgs[c].parent
  <2>2. c \in 1 .. MaxMessages /\ p \in 1 .. MaxMessages /\ p \in pass[p] /\ p < c
    BY <1>1, <1>5, <2>1 DEF Tree!ParentOlder, Tree!In
  <2> HIDE DEF p
  <2>3. c - 1 \in 0 .. MaxMessages /\ p \in 0 .. c - 1 /\ MaxMessages \in 0 .. MaxMessages
    BY <1>1, <2>2
  <2>4. p \in pass[c - 1]
    BY <1>3, <2>2, <2>3
  <2>5. c \in pass[c]
    BY <1>g, <2>1, <2>2, <2>4 DEF p
  <2>6. c \in 0 .. MaxMessages
    BY <1>1, <2>2
  <2>7. QED
    BY <1>3, <2>3, <2>5, <2>6
<1>7. pass[MaxMessages] \subseteq Tree!In(k)
  BY <1>1, <1>4
<1>8. QED
  BY <1>2, <1>5, <1>6, <1>7

\* The turn's versions go, with what grows from them outside of what is kept.
LEMMA DoomedIs ==
  ASSUME IsTable(msgs), Tree!ParentOlder, NEW k, NEW p
  PROVE  /\ Tree!Versions(k, p) \subseteq Tree!Doomed(k, p)
         /\ Tree!Doomed(k, p) \subseteq Tree!In(k)
         /\ \A x \in Tree!Doomed(k, p) :
              x \in Tree!Versions(k, p) \/ (x \notin Tree!KeptNext(k, p) /\ msgs[x].parent \in Tree!Doomed(k, p))
         /\ \A c \in Tree!In(k) \ Tree!KeptNext(k, p) :
              msgs[c].parent \in Tree!Doomed(k, p) => c \in Tree!Doomed(k, p)
<1>1. Tree!Versions(k, p) \subseteq Tree!In(k)
  BY DEF Tree!Versions, Tree!Children
<1> DEFINE V == Tree!Versions(k, p)
           kept == Tree!KeptNext(k, p)
           G == Tree!Grown(k, V, kept)
<1>2. /\ V \subseteq G
      /\ G \subseteq Tree!In(k)
      /\ \A x \in G : x \in V \/ (x \notin kept /\ msgs[x].parent \in G)
      /\ \A c \in Tree!In(k) \ kept : msgs[c].parent \in G => c \in G
  BY <1>1, GrownIs
<1>3. Tree!Doomed(k, p) = G
  BY <1>2 DEF Tree!Doomed
<1> HIDE DEF V, kept, G
<1>4. QED
  BY <1>2, <1>3 DEF V, kept

\* What is kept followed a reply of the turn on the shown branch.
LEMMA KeptIs ==
  ASSUME NEW k, NEW p, NEW n \in Tree!KeptNext(k, p)
  PROVE  /\ n \in Tree!In(k)
         /\ msgs[n].parent \in Tree!In(k) \cap Tree!Branch(k, Tree!LeafOf(k))
         /\ msgs[msgs[n].parent].parent \in Tree!Versions(k, p)
BY DEF Tree!KeptNext, Tree!Replies, Tree!Children

\* What goes is newer than what the turn hangs on.
LEMMA DoomedNewer ==
  ASSUME IsTable(msgs), Tree!ParentOlder, NEW k, NEW p \in Tree!In(k), NEW x \in Tree!Doomed(k, p)
  PROVE  msgs[p].parent < x
<1> DEFINE up == msgs[p].parent
           bad == {y \in Tree!Doomed(k, p) : ~ (up < y)}
<1>1. Tree!Doomed(k, p) \subseteq Nat /\ up \in Nat /\ \A y \in Tree!In(k) : msgs[y].parent \in Nat
  BY DoomedIs, BoundsAssumption DEF Tree!In, IsTable, Ids, None, Row
<1>2. SUFFICES ASSUME x \in bad PROVE FALSE
  OBVIOUS
<1>3. PICK y \in bad : \A z \in bad : y <= z
  <2>1. bad \subseteq Nat /\ bad # {}
    BY <1>1, <1>2
  <2>2. QED
    BY <2>1, Least
<1>4. y \in Tree!Doomed(k, p) /\ y \in Tree!In(k) /\ msgs[y].parent < y /\ ~ (up < y)
  BY <1>3, DoomedIs DEF Tree!ParentOlder, Tree!In
<1>5. CASE y \in Tree!Versions(k, p)
  BY <1>4, <1>5 DEF Tree!Versions, Tree!Children
<1>6. CASE msgs[y].parent \in Tree!Doomed(k, p)
  <2>1. msgs[y].parent \notin bad
    BY <1>1, <1>3, <1>4, <1>6
  <2>2. QED
    BY <1>1, <1>4, <1>6, <2>1
<1>7. QED
  BY <1>4, <1>5, <1>6, DoomedIs

\* What followed the shown reply stays, newer than the turn.
LEMMA KeptStays ==
  ASSUME IsTable(msgs), Tree!ParentOlder, NEW k, NEW p \in Tree!In(k), NEW n \in Tree!KeptNext(k, p)
  PROVE  /\ n \notin Tree!Doomed(k, p)
         /\ msgs[p].parent < msgs[n].parent
         /\ msgs[p].parent < n
<1> DEFINE up == msgs[p].parent
           r == msgs[n].parent
           v == msgs[r].parent
<1>1. n \in Tree!In(k) /\ r \in Tree!In(k) /\ v \in Tree!Versions(k, p)
  BY KeptIs
<1>2. v \in Tree!In(k) /\ msgs[v].parent = up
  BY <1>1 DEF Tree!Versions, Tree!Children
<1>3. r < n /\ v < r /\ up < v
  BY <1>1, <1>2 DEF Tree!ParentOlder, Tree!In
<1>4. up \in Nat /\ v \in Nat /\ r \in Nat /\ n \in Nat
  BY <1>1, <1>2, BoundsAssumption DEF Tree!In, IsTable, Ids, None, Row
<1>5. up < r /\ up < n
  BY <1>3, <1>4
<1>6. n \notin Tree!Versions(k, p)
  BY <1>4, <1>5 DEF Tree!Versions, Tree!Children
<1>7. n \notin Tree!Doomed(k, p)
  BY <1>6, DoomedIs
<1>8. QED
  BY <1>5, <1>7

-----------------------------------------------------------------------------
(* Trees *)

\* Messages are of chats that are there, ...
Housed == \A m \in DOMAIN msgs : msgs[m].conv \in convs

\* ... and what a chat shows is of the chat.
LeafHome == \A k \in Convs : leaf[k] = None \/ leaf[k] \in Tree!In(k)

\* The invariant of the tables.
TreeRows == TreesHold /\ Housed /\ LeafHome

\* No row has the key None.
LEMMA NoneIsNoRow == ASSUME IsTable(msgs) PROVE None \notin DOMAIN msgs /\ DOMAIN msgs \subseteq Nat
BY BoundsAssumption DEF IsTable, Ids, None

\* A chat shows the leaf it has recorded, its newest message, or nothing.
LEMMA ShownHome ==
  ASSUME IsTable(msgs), TreeRows, NEW k \in convs, k \in Convs, NEW m, Tree!ShownLeaf(k, m)
  PROVE  m = None \/ m \in Tree!In(k)
BY DEF TreeRows, LeafHome, Tree!ShownLeaf, Tree!Newest, None, Tree!None

\* What removing a turn leaves of the table.
LEMMA PrunedRows ==
  ASSUME IsTable(msgs), NEW k, NEW p \in Tree!In(k), Tree!Prune(k, p)
  PROVE  /\ DOMAIN msgs' = DOMAIN msgs \ Tree!Doomed(k, p)
         /\ \A m \in DOMAIN msgs' :
              /\ msgs'[m].conv = msgs[m].conv
              /\ msgs'[m].parent = IF m \in Tree!KeptNext(k, p) THEN msgs[p].parent ELSE msgs[m].parent
         /\ \A j : Tree!In(j)' = Tree!In(j) \ Tree!Doomed(k, p)
         /\ leaf' = IF k \in convs /\ leaf[k] \in Tree!Doomed(k, p)
                    THEN [leaf EXCEPT ![k] = msgs[p].parent] ELSE leaf
<1> DEFINE up == msgs[p].parent
           gone == Tree!Doomed(k, p)
           kept == Tree!KeptNext(k, p)
<1>1. /\ msgs' = [m \in DOMAIN msgs \ gone |->
                    IF m \in kept THEN [msgs[m] EXCEPT !.parent = up] ELSE msgs[m]]
      /\ leaf' = IF k \in convs /\ leaf[k] \in gone THEN [leaf EXCEPT ![k] = up] ELSE leaf
  BY DEF Tree!Prune
<1> HIDE DEF gone, kept, up
<1>2. /\ DOMAIN msgs' = DOMAIN msgs \ gone
      /\ \A m \in DOMAIN msgs' : msgs'[m] = IF m \in kept THEN [msgs[m] EXCEPT !.parent = up] ELSE msgs[m]
  BY <1>1
<1>3. \A m \in DOMAIN msgs' :
        /\ msgs'[m].conv = msgs[m].conv
        /\ msgs'[m].parent = IF m \in kept THEN up ELSE msgs[m].parent
  BY <1>2 DEF IsTable, Row
<1>4. \A j : Tree!In(j)' = Tree!In(j) \ gone
  BY <1>2, <1>3 DEF Tree!In
<1>5. QED
  BY <1>1, <1>2, <1>3, <1>4 DEF gone, kept, up

\* What is left of the table after a turn was removed is a table of trees.
LEMMA PrunedTree ==
  ASSUME IsTable(msgs), TreeRows, leaf \in [Convs -> Ids \cup {None}], UNCHANGED convs,
         NEW k \in Convs, NEW p \in Tree!In(k), Tree!Prune(k, p)
  PROVE  TreeRows'
<1> DEFINE up == msgs[p].parent
           gone == Tree!Doomed(k, p)
           kept == Tree!KeptNext(k, p)
<1>1. Tree!ParentOlder /\ Tree!ParentPresent /\ p \in DOMAIN msgs /\ k \in convs
  BY DEF TreeRows, TreesHold, Housed, Tree!In
<1>2. /\ DOMAIN msgs' = DOMAIN msgs \ gone
      /\ \A m \in DOMAIN msgs' :
           /\ msgs'[m].conv = msgs[m].conv
           /\ msgs'[m].parent = IF m \in kept THEN up ELSE msgs[m].parent
      /\ \A j : Tree!In(j)' = Tree!In(j) \ gone
      /\ leaf' = IF k \in convs /\ leaf[k] \in gone THEN [leaf EXCEPT ![k] = up] ELSE leaf
  BY PrunedRows, ZenonT(40)
<1>3. \A m \in kept : m \in Tree!In(k) /\ up < m
  BY <1>1, KeptIs, KeptStays
<1>4. up \notin gone
  <2>1. SUFFICES ASSUME up \in gone PROVE FALSE
    OBVIOUS
  <2>2. up < up /\ up \in Nat
    BY <1>1, <2>1, DoomedNewer, BoundsAssumption DEF Tree!In, IsTable, Row, Ids, None
  <2>3. QED
    BY <2>2
<1>5. up = None \/ up \in Tree!In(k)
  BY <1>1 DEF Tree!ParentPresent, Tree!In, None, Tree!None
<1>6. \A c \in Tree!In(k) \ kept : msgs[c].parent \in gone => c \in gone
  BY <1>1, DoomedIs
<1>7. gone \subseteq Tree!In(k)
  BY <1>1, DoomedIs
<1> HIDE DEF up, gone, kept
<1>8. Tree!ParentOlder'
  BY <1>1, <1>2, <1>3 DEF Tree!ParentOlder
<1>9. Tree!ParentPresent'
  <2>1. SUFFICES ASSUME NEW m \in DOMAIN msgs', msgs'[m].parent # None
                 PROVE  /\ msgs'[m].parent \in DOMAIN msgs'
                        /\ msgs'[msgs'[m].parent].conv = msgs'[m].conv
    BY DEF Tree!ParentPresent, Tree!In, None, Tree!None
  <2>2. CASE m \in kept
    <3>1. m \in Tree!In(k) /\ msgs'[m].parent = up /\ up \in Tree!In(k) /\ up \notin gone
      BY <1>2, <1>3, <1>4, <1>5, <2>1, <2>2
    <3>2. QED
      BY <1>2, <2>1, <3>1 DEF Tree!In
  <2>3. CASE m \notin kept
    <3>1. m \in DOMAIN msgs \ gone /\ msgs'[m].parent = msgs[m].parent /\ msgs'[m].conv = msgs[m].conv
      BY <1>2, <2>1, <2>3
    <3>2. msgs[m].parent \in Tree!In(msgs[m].conv)
      BY <1>1, <2>1, <3>1 DEF Tree!ParentPresent, None, Tree!None
    <3>3. msgs[m].parent \notin gone
      <4>1. SUFFICES ASSUME msgs[m].parent \in gone PROVE FALSE
        OBVIOUS
      <4>2. m \in Tree!In(k)
        BY <1>7, <3>1, <3>2, <4>1 DEF Tree!In
      <4>3. QED
        BY <1>6, <2>3, <3>1, <4>1, <4>2
    <3>4. QED
      BY <1>2, <3>1, <3>2, <3>3 DEF Tree!In
  <2>4. QED
    BY <2>2, <2>3
<1>10. Housed'
  BY <1>2 DEF TreeRows, Housed
<1>11. LeafHome'
  <2>1. SUFFICES ASSUME NEW j \in Convs PROVE leaf'[j] = None \/ leaf'[j] \in Tree!In(j)'
    BY DEF LeafHome
  <2>2. leaf[j] = None \/ leaf[j] \in Tree!In(j)
    BY DEF TreeRows, LeafHome
  <2>3. CASE j = k
    <3>1. leaf'[j] = IF leaf[k] \in gone THEN up ELSE leaf[k]
      BY <1>1, <1>2, <2>3
    <3>2. QED
      BY <1>2, <1>4, <1>5, <2>2, <2>3, <3>1
  <2>4. CASE j # k
    <3>1. leaf'[j] = leaf[j]
      BY <1>2, <2>4
    <3>2. leaf[j] \notin gone \/ leaf[j] = None
      BY <1>7, <2>2, <2>4 DEF Tree!In
    <3>3. QED
      BY <1>2, <2>2, <3>1, <3>2
  <2>5. QED
    BY <2>3, <2>4
<1>12. QED
  BY <1>8, <1>9, <1>10, <1>11 DEF TreeRows, TreesHold

\* A message that the job knows is still in its chat.
StillKnown(m) ==
  /\ m \in Tree!In(job.conv)
  /\ msgs[m].from # 0
  /\ job.known[m].from = msgs[m].from
  /\ job.known[m].role = msgs[m].role

\* What the job knows was imported is still in its chat, if that is there.
KnownRows ==
  /\ job.at \in {"idle", "skips", "create", "tag"} => DOMAIN job.known = {}
  /\ job.at \in {"leaf", "apply"} /\ job.conv \in convs => \A m \in DOMAIN job.known : StillKnown(m)

-----------------------------------------------------------------------------
(* The merged rows *)

\* New rows have keys of their own, in the order of the branch.
LEMMA RankFacts ==
  ASSUME NEW e \in Export, NEW known, NEW s \in NewSlots(e, known)
  PROVE  /\ Rank(e, known, s) \in Nat /\ Rank(e, known, s) >= 1
         /\ \A t \in NewSlots(e, known) :
              t < s => Rank(e, known, t) \in Nat /\ Rank(e, known, t) < Rank(e, known, s)
<1> DEFINE N == NewSlots(e, known)
           upto(t) == {u \in N : u <= t}
<1>1. Len(e.branch) \in Nat /\ N \subseteq 1 .. 2 * Len(e.branch)
  BY DEF Export, NewSlots, Slots
<1>2. IsFiniteSet(N)
  <2>1. IsFiniteSet(1 .. 2 * Len(e.branch))
    BY <1>1, FS_Interval
  <2>2. QED
    BY <1>1, <2>1, FS_Subset
<1> HIDE DEF N
<1>3. \A t : IsFiniteSet(upto(t)) /\ Cardinality(upto(t)) \in Nat
  <2>1. \A t : upto(t) \in SUBSET N
    OBVIOUS
  <2>2. \A t : IsFiniteSet(upto(t))
    BY <1>2, <2>1, FS_Subset
  <2>3. QED
    BY <2>2, FS_CardinalityType
<1>4. s \in upto(s) /\ s \in N /\ N \subseteq Nat
  BY <1>1 DEF N
<1>5. Cardinality(upto(s)) # 0
  BY <1>3, <1>4, FS_EmptySet
<1>6. ASSUME NEW t \in N, t < s PROVE Cardinality(upto(t)) < Cardinality(upto(s))
  <2>1. upto(t) \in SUBSET upto(s) /\ s \notin upto(t)
    <3>1. s \in Nat /\ t \in Nat
      BY <1>4
    <3>2. \A u \in Nat : u <= t => u <= s
      BY <1>6, <3>1
    <3>3. ~ (s <= t)
      BY <1>6, <3>1
    <3>4. QED
      BY <1>4, <3>2, <3>3
  <2>2. upto(s) # upto(t)
    BY <1>4, <2>1
  <2>3. Cardinality(upto(t)) <= Cardinality(upto(s)) /\ Cardinality(upto(t)) # Cardinality(upto(s))
    BY <1>3, <2>1, <2>2, FS_Subset
  <2>4. QED
    BY <1>3, <2>3
<1>7. \A t : Rank(e, known, t) = Cardinality(upto(t))
  BY DEF Rank, N
<1> HIDE DEF upto
<1>8. QED
  BY <1>3, <1>5, <1>6, <1>7 DEF N

\* What a new row hangs on is a row of an earlier slot.
LEMMA ParentBefore ==
  ASSUME NEW e \in Export, NEW known, NEW top, NEW s \in NewSlots(e, known)
  PROVE  \/ ParentOf(e, known, top, s) = None
         \/ \E t \in Slots(e) : /\ t < s /\ InChain(e, known, t)
                                /\ ParentOf(e, known, top, s) = KeyOf(e, known, top, t)
<1>1. s \in Slots(e) /\ s \in Nat
  BY SlotFacts DEF NewSlots
<1>2. CASE s = 1
  BY <1>2 DEF ParentOf
<1>3. CASE s # 1 /\ InChain(e, known, s - 1)
  <2>1. s - 1 \in Slots(e) /\ s - 1 < s
    BY <1>1, <1>3, SlotFacts
  <2>2. QED
    BY <1>3, <2>1 DEF ParentOf
<1>4. CASE s # 1 /\ ~ InChain(e, known, s - 1)
  <2>1. s - 2 \in Slots(e) /\ s - 2 < s /\ InChain(e, known, s - 2)
    BY <1>1, <1>4, SlotFacts DEF InChain
  <2>2. QED
    BY <1>4, <2>1 DEF ParentOf
<1>5. QED
  BY <1>2, <1>3, <1>4

\* What an import's transaction writes: the rows that were there keep their
\* place, the others come after them and hang on what their slot does.
LEMMA MergeParents ==
  ASSUME TypeOK, NEW top \in 0 .. MaxMessages, Apply(top)
  PROVE  /\ DOMAIN msgs' = DOMAIN msgs \cup NewKeys(job.export, job.known, top)
         /\ \A m \in DOMAIN msgs :
              /\ msgs'[m].conv = msgs[m].conv /\ msgs'[m].parent = msgs[m].parent
              /\ msgs'[m].from = msgs[m].from /\ msgs'[m].role = msgs[m].role
         /\ \A s \in NewSlots(job.export, job.known) :
              /\ KeyOf(job.export, job.known, top, s) = top + Rank(job.export, job.known, s)
              /\ KeyOf(job.export, job.known, top, s) \notin DOMAIN msgs
         /\ \A m \in DOMAIN msgs' \ DOMAIN msgs :
              /\ msgs'[m].conv = job.conv
              /\ \E s \in NewSlots(job.export, job.known) :
                   /\ KeyOf(job.export, job.known, top, s) = m
                   /\ msgs'[m].parent = ParentOf(job.export, job.known, top, s)
                   /\ msgs'[m].from = PromptAt(job.export, s)
                   /\ msgs'[m].role = RoleAt(s)
<1> DEFINE e == job.export
           N == NewSlots(e, job.known)
           slot(m) == CHOOSE s \in N : KeyOf(e, job.known, top, s) = m
<1>1. /\ msgs' = Merged(job.conv, e, job.known, top) /\ Largest(top)
      /\ e \in Export /\ IsTable(msgs)
  BY DEF Apply, TypeOK
<1>2. DOMAIN msgs' = DOMAIN msgs \cup NewKeys(e, job.known, top)
  BY <1>1 DEF Merged
<1>3. ASSUME NEW m \in DOMAIN msgs
      PROVE  /\ msgs'[m].conv = msgs[m].conv /\ msgs'[m].parent = msgs[m].parent
             /\ msgs'[m].from = msgs[m].from /\ msgs'[m].role = msgs[m].role
  <2>1. msgs[m] \in Row
    BY <1>1 DEF IsTable
  <2>2. msgs'[m] = msgs[m] \/ msgs'[m] = [msgs[m] EXCEPT !.text = e.reply[job.known[m].from]]
    BY <1>1, <1>3 DEF Merged
  <2>3. QED
    BY <2>1, <2>2 DEF Row
<1>4. ASSUME NEW s \in N
      PROVE  /\ KeyOf(e, job.known, top, s) = top + Rank(e, job.known, s)
             /\ KeyOf(e, job.known, top, s) \notin DOMAIN msgs
  <2>1. KeyOf(e, job.known, top, s) = top + Rank(e, job.known, s)
    BY DEF KeyOf, NewSlots
  <2>2. Rank(e, job.known, s) \in Nat /\ Rank(e, job.known, s) >= 1
    BY <1>1, RankFacts
  <2>3. top \in Nat /\ \A m \in DOMAIN msgs : m \in Nat /\ m <= top
    BY <1>1, BoundsAssumption DEF Largest, IsTable, Ids
  <2>4. QED
    BY <2>1, <2>2, <2>3
<1>5. ASSUME NEW m \in DOMAIN msgs' \ DOMAIN msgs
      PROVE  /\ msgs'[m].conv = job.conv
             /\ \E s \in N : /\ KeyOf(e, job.known, top, s) = m
                             /\ msgs'[m].parent = ParentOf(e, job.known, top, s)
                             /\ msgs'[m].from = PromptAt(e, s)
                             /\ msgs'[m].role = RoleAt(s)
  <2>1. m \in NewKeys(e, job.known, top)
    BY <1>2
  <2>2. slot(m) \in N /\ KeyOf(e, job.known, top, slot(m)) = m
    BY <2>1 DEF NewKeys
  <2>3. msgs'[m] = NewRow(job.conv, e, job.known, top, slot(m))
    BY <1>1, <2>1 DEF Merged
  <2> HIDE DEF slot, e, N
  <2>4. QED
    BY <2>2, <2>3 DEF NewRow, e, N
<1> HIDE DEF N, slot, e
<1>6. QED
  BY <1>2, <1>3, <1>4, <1>5 DEF N, e

\* An import leaves trees.
LEMMA ApplyTree ==
  ASSUME TypeOK, TreeRows, KnownRows, NEW top \in 0 .. MaxMessages, Apply(top)
  PROVE  TreeRows'
<1> DEFINE e == job.export
           known == job.known
           N == NewSlots(e, known)
           key(s) == KeyOf(e, known, top, s)
<1>0. PICK k : k = job.conv
  OBVIOUS
<1>1. /\ job.at = "apply" /\ k \in convs /\ k \in Convs /\ UNCHANGED convs
      /\ e \in Export /\ IsTable(msgs) /\ Largest(top) /\ top \in Nat
      /\ leaf \in [Convs -> Ids \cup {None}]
  BY <1>0, BoundsAssumption DEF Apply, TypeOK
<1>2. DOMAIN known \subseteq Tree!In(k)
  BY <1>0, <1>1 DEF KnownRows, StillKnown
<1>3. /\ DOMAIN msgs' = DOMAIN msgs \cup {key(s) : s \in N}
      /\ \A m \in DOMAIN msgs : msgs'[m].conv = msgs[m].conv /\ msgs'[m].parent = msgs[m].parent
      /\ \A s \in N : key(s) = top + Rank(e, known, s) /\ key(s) \notin DOMAIN msgs
      /\ \A m \in DOMAIN msgs' \ DOMAIN msgs :
           /\ msgs'[m].conv = k
           /\ \E s \in N : key(s) = m /\ msgs'[m].parent = ParentOf(e, known, top, s)
  BY <1>0, MergeParents DEF NewKeys
<1>4. \A s \in N : Rank(e, known, s) \in Nat /\ Rank(e, known, s) >= 1
  BY <1>1, RankFacts
<1>5. \A m \in DOMAIN msgs : m \in Nat /\ m <= top
  BY <1>1, BoundsAssumption DEF Largest, IsTable, Ids
<1>6. \A s \in Slots(e) : InChain(e, known, s) => (HasRow(e, known, s) /\ key(s) \in DOMAIN known) \/ s \in N
  BY DEF KeyOf, HasRow, IsKnown, NewSlots
<1>7. \A m \in Tree!In(k) : m \in DOMAIN msgs
  BY DEF Tree!In
<1>8. \A s, t \in N : t < s => Rank(e, known, t) \in Nat /\ Rank(e, known, t) < Rank(e, known, s)
  BY <1>1, RankFacts
<1>9. \A s \in N : ParentOf(e, known, top, s) = None
                   \/ \E t \in Slots(e) : t < s /\ InChain(e, known, t) /\ ParentOf(e, known, top, s) = key(t)
  BY <1>1, ParentBefore
<1>10. Tree!ParentOlder /\ Tree!ParentPresent /\ Housed /\ LeafHome
  BY DEF TreeRows, TreesHold
<1> HIDE DEF e, known, N, key
<1>11. \A j \in DOMAIN msgs : j \in Tree!In(msgs[j].conv)
  BY DEF Tree!In
<1>12. \A s \in N : key(s) \in Tree!In(k)'
  <2>1. ASSUME NEW s \in N PROVE key(s) \in DOMAIN msgs' /\ msgs'[key(s)].conv = k
    BY <1>3
  <2>2. QED
    BY <2>1 DEF Tree!In
<1>13. \A j : Tree!In(j) \subseteq Tree!In(j)'
  BY <1>3 DEF Tree!In
\* what a new row hangs on
<1>14. ASSUME NEW m \in DOMAIN msgs' \ DOMAIN msgs
       PROVE  /\ msgs'[m].parent < m
              /\ msgs'[m].parent = None \/ msgs'[m].parent \in Tree!In(k)'
  <2>1. PICK s \in N : key(s) = m /\ msgs'[m].parent = ParentOf(e, known, top, s)
    BY <1>3
  <2>2. m \in Nat /\ m > top
    BY <1>1, <1>3, <1>4, <2>1
  <2>3. CASE ParentOf(e, known, top, s) = None
    BY <1>1, <2>1, <2>2, <2>3 DEF None
  <2>4. ASSUME NEW t \in Slots(e), t < s, InChain(e, known, t), ParentOf(e, known, top, s) = key(t)
        PROVE  msgs'[m].parent < m /\ msgs'[m].parent \in Tree!In(k)'
    <3>1. CASE key(t) \in DOMAIN known
      <4>1. key(t) \in Tree!In(k) /\ key(t) \in DOMAIN msgs
        BY <1>2, <1>7, <3>1
      <4>2. key(t) \in Nat /\ key(t) <= top
        BY <1>5, <4>1
      <4>3. QED
        BY <1>1, <1>13, <2>1, <2>2, <2>4, <4>1, <4>2
    <3>2. CASE t \in N
      <4>1. key(t) = top + Rank(e, known, t) /\ Rank(e, known, t) \in Nat
            /\ Rank(e, known, t) < Rank(e, known, s)
        BY <1>3, <1>8, <2>4, <3>2
      <4>2. m = top + Rank(e, known, s) /\ Rank(e, known, s) \in Nat
        BY <1>3, <1>4, <2>1
      <4>3. QED
        BY <1>1, <1>12, <2>1, <2>4, <3>2, <4>1, <4>2
    <3>3. QED
      BY <1>6, <2>4, <3>1, <3>2
  <2>5. QED
    BY <1>9, <2>3, <2>4
<1>15. Tree!ParentOlder'
  BY <1>3, <1>10, <1>14 DEF Tree!ParentOlder
<1>16. Tree!ParentPresent'
  <2>1. ASSUME NEW m \in DOMAIN msgs', msgs'[m].parent # None
        PROVE  /\ msgs'[m].parent \in DOMAIN msgs'
               /\ msgs'[msgs'[m].parent].conv = msgs'[m].conv
    <3>1. CASE m \in DOMAIN msgs
      <4>1. msgs'[m].parent \in Tree!In(msgs[m].conv) /\ msgs'[m].conv = msgs[m].conv
        BY <1>3, <1>10, <2>1, <3>1 DEF Tree!ParentPresent, None, Tree!None
      <4>2. QED
        BY <1>3, <4>1 DEF Tree!In
    <3>2. CASE m \notin DOMAIN msgs
      <4>1. msgs'[m].conv = k /\ msgs'[m].parent \in Tree!In(k)'
        BY <1>3, <1>14, <2>1, <3>2
      <4>2. QED
        BY <4>1 DEF Tree!In
    <3>3. QED
      BY <3>1, <3>2
  <2>2. QED
    BY <2>1 DEF Tree!ParentPresent, None, Tree!None, Tree!In
<1>17. Housed'
  BY <1>1, <1>3, <1>10 DEF Housed
<1>18. LeafHome'
  <2>1. CASE UNCHANGED leaf
    BY <1>10, <1>13, <2>1 DEF LeafHome
  <2>2. ASSUME NEW s \in N, leaf' = [leaf EXCEPT ![k] = key(s)] PROVE LeafHome'
    <3>1. \A j \in Convs : leaf'[j] = IF j = k THEN key(s) ELSE leaf[j]
      BY <1>1, <2>2
    <3>2. QED
      BY <1>10, <1>12, <1>13, <3>1 DEF LeafHome
  <2>3. UNCHANGED leaf \/ \E s \in N : leaf' = [leaf EXCEPT ![k] = key(s)]
    BY <1>0 DEF Apply, N, key, e, known
  <2>4. QED
    BY <2>1, <2>2, <2>3
<1>19. QED
  BY <1>15, <1>16, <1>17, <1>18 DEF TreeRows, TreesHold

\* Sending a message here adds a turn to what the chat shows.
LEMMA CarryOnTree ==
  ASSUME TypeOK, TreeRows, NEW k \in Convs, NEW top \in 0 .. MaxMessages, NEW p, CarryOn(k, top, p)
  PROVE  TreeRows'
<1>1. /\ k \in convs /\ UNCHANGED convs /\ IsTable(msgs) /\ Largest(top)
      /\ leaf \in [Convs -> Ids \cup {None}]
      /\ top \in Nat
  BY BoundsAssumption DEF CarryOn, TypeOK
<1>2. /\ DOMAIN msgs' = DOMAIN msgs \cup {top + 1, top + 2}
      /\ \A m \in DOMAIN msgs : msgs'[m] = msgs[m]
      /\ \A m \in {top + 1, top + 2} \ DOMAIN msgs :
           /\ msgs'[m].conv = k
           /\ msgs'[m].parent = IF m = top + 1 THEN p ELSE top + 1
  BY DEF CarryOn
<1>3. \A m \in DOMAIN msgs : m \in Nat /\ m <= top
  BY <1>1, BoundsAssumption DEF Largest, IsTable, Ids
<1>4. top + 1 \notin DOMAIN msgs /\ top + 2 \notin DOMAIN msgs
  BY <1>1, <1>3
<1>5. p = None \/ p \in Tree!In(k)
  BY <1>1, ShownHome DEF CarryOn
<1>6. Tree!ParentOlder /\ Tree!ParentPresent /\ Housed /\ LeafHome
  BY DEF TreeRows, TreesHold
<1>7. \A j : Tree!In(j) \subseteq Tree!In(j)'
  BY <1>2 DEF Tree!In
<1>8. /\ top + 1 \in DOMAIN msgs' /\ msgs'[top + 1].conv = k /\ msgs'[top + 1].parent = p
      /\ top + 2 \in DOMAIN msgs' /\ msgs'[top + 2].conv = k /\ msgs'[top + 2].parent = top + 1
  BY <1>1, <1>2, <1>4
<1>9. Tree!ParentOlder'
  <2>1. p < top + 1
    BY <1>1, <1>3, <1>5 DEF Tree!In, None
  <2>2. \A m \in DOMAIN msgs : msgs'[m].parent < m
    BY <1>2, <1>6 DEF Tree!ParentOlder
  <2>3. top + 1 < top + 2
    BY <1>1
  <2>4. QED
    BY <1>2, <1>8, <2>1, <2>2, <2>3 DEF Tree!ParentOlder
<1>10. Tree!ParentPresent'
  <2>1. ASSUME NEW m \in DOMAIN msgs', msgs'[m].parent # None
        PROVE  /\ msgs'[m].parent \in DOMAIN msgs'
               /\ msgs'[msgs'[m].parent].conv = msgs'[m].conv
    <3>1. CASE m \in DOMAIN msgs
      <4>1. msgs[m].parent \in Tree!In(msgs[m].conv) /\ msgs'[m] = msgs[m]
        BY <1>2, <1>6, <2>1, <3>1 DEF Tree!ParentPresent, None, Tree!None
      <4>2. QED
        BY <1>2, <4>1 DEF Tree!In
    <3>2. CASE m = top + 1
      BY <1>2, <1>5, <1>8, <2>1, <3>2 DEF Tree!In
    <3>3. CASE m = top + 2
      BY <1>8, <3>3
    <3>4. QED
      BY <1>2, <3>1, <3>2, <3>3
  <2>2. QED
    BY <2>1 DEF Tree!ParentPresent, None, Tree!None, Tree!In
<1>11. Housed'
  BY <1>1, <1>2, <1>6, <1>8 DEF Housed
<1>12. LeafHome'
  <2>1. \A j \in Convs : leaf'[j] = IF j = k THEN top + 2 ELSE leaf[j]
    BY <1>1 DEF CarryOn
  <2>2. top + 2 \in Tree!In(k)'
    BY <1>8 DEF Tree!In
  <2>3. QED
    BY <1>6, <1>7, <2>1, <2>2 DEF LeafHome
<1>13. QED
  BY <1>9, <1>10, <1>11, <1>12 DEF TreeRows, TreesHold

\* Showing another version shows a message of the chat.
LEMMA SwitchTree ==
  ASSUME TypeOK, TreeRows, NEW m, NEW n, Switch(m, n)
  PROVE  TreeRows'
<1>1. /\ UNCHANGED <<msgs, convs>> /\ IsTable(msgs) /\ leaf \in [Convs -> Ids \cup {None}]
      /\ m \in Tree!In(msgs[m].conv) /\ Tree!ParentOlder /\ LeafHome
  BY DEF Switch, TypeOK, Tree!In, TreeRows, TreesHold
<1>2. n \in Tree!In(msgs[m].conv)
  <2>1. n \in Tree!Below(msgs[m].conv, m)
    BY DEF Switch, Tree!Newest
  <2>2. QED
    BY <1>1, <2>1, BelowIs
<1>3. \A j \in Convs : leaf'[j] = IF j = msgs[m].conv THEN n ELSE leaf[j]
  BY <1>1 DEF Switch
<1>4. LeafHome'
  <2>1. \A j : Tree!In(j)' = Tree!In(j)
    BY <1>1 DEF Tree!In
  <2>2. QED
    BY <1>1, <1>2, <1>3, <2>1 DEF LeafHome
<1>5. QED
  BY <1>1, <1>4 DEF TreeRows, TreesHold, Housed, Tree!ParentOlder, Tree!ParentPresent, Tree!In

\* Deleting a chat leaves the others as they are.
LEMMA DeleteConvTree ==
  ASSUME TypeOK, TreeRows, NEW k \in Convs, DeleteConv(k)
  PROVE  /\ TreeRows'
         /\ \A j \in convs' : j \in convs /\ Tree!In(j)' = Tree!In(j)
         /\ \A m \in DOMAIN msgs' : msgs'[m] = msgs[m]
<1>1. /\ convs' = convs \ {k} /\ leaf \in [Convs -> Ids \cup {None}]
      /\ DOMAIN msgs' = DOMAIN msgs \ Tree!In(k)
      /\ \A m \in DOMAIN msgs' : msgs'[m] = msgs[m]
      /\ leaf' = [leaf EXCEPT ![k] = None]
  BY DEF DeleteConv, TypeOK
<1>2. Tree!ParentOlder /\ Tree!ParentPresent /\ Housed /\ LeafHome
  BY DEF TreeRows, TreesHold
<1>3. \A j : j # k => Tree!In(j)' = Tree!In(j)
  BY <1>1 DEF Tree!In
<1>4. Tree!ParentOlder'
  BY <1>1, <1>2 DEF Tree!ParentOlder
<1>5. Tree!ParentPresent'
  <2>1. ASSUME NEW m \in DOMAIN msgs', msgs'[m].parent # None
        PROVE  /\ msgs'[m].parent \in DOMAIN msgs'
               /\ msgs'[msgs'[m].parent].conv = msgs'[m].conv
    <3>1. m \in DOMAIN msgs /\ msgs[m].conv # k /\ msgs'[m] = msgs[m]
      BY <1>1, <2>1 DEF Tree!In
    <3>2. msgs[m].parent \in Tree!In(msgs[m].conv)
      BY <1>2, <2>1, <3>1 DEF Tree!ParentPresent, None, Tree!None
    <3>3. QED
      BY <1>1, <3>1, <3>2 DEF Tree!In
  <2>2. QED
    BY <2>1 DEF Tree!ParentPresent, None, Tree!None, Tree!In
<1>6. Housed'
  BY <1>1, <1>2 DEF Housed, Tree!In
<1>7. LeafHome'
  <2>1. \A j \in Convs : leaf'[j] = IF j = k THEN None ELSE leaf[j]
    BY <1>1
  <2>2. QED
    BY <1>2, <1>3, <2>1 DEF LeafHome
<1>8. QED
  BY <1>1, <1>3, <1>4, <1>5, <1>6, <1>7 DEF TreeRows, TreesHold

\* The tables stay trees in every step.
LEMMA TreeRowsStep ==
  ASSUME TypeOK, TreeRows, KnownRows, [Next]_vars
  PROVE  TreeRows'
<1>1. ASSUME UNCHANGED <<msgs, leaf>>, convs \subseteq convs' PROVE TreeRows'
  BY <1>1 DEF TreeRows, TreesHold, Housed, LeafHome, Tree!ParentOlder, Tree!ParentPresent, Tree!In
<1>2. ASSUME UNCHANGED tree PROVE TreeRows'
  BY <1>1, <1>2 DEF tree
<1>3. CASE Create
  BY <1>1, <1>3 DEF Create
<1>4. CASE ReadSkips \/ Tag \/ ReadKnown \/ ReadLeaf \/ Lost \/ Crash
  BY <1>2, <1>4 DEF ReadSkips, Tag, ReadKnown, ReadLeaf, Lost, Crash
<1>5. ASSUME NEW i \in DOMAIN exports, Start(exports[i]) PROVE TreeRows'
  BY <1>2, <1>5 DEF Start
<1>6. ASSUME \/ \E p \in Prompts : ContinueThere(p)
             \/ \E i \in 1 .. MaxPrompts, p \in Prompts : EditThere(i, p)
             \/ \E b \in there.others : SwitchThere(b)
             \/ ReplyThere
             \/ Exported
      PROVE  TreeRows'
  BY <1>2, <1>6 DEF ContinueThere, EditThere, SwitchThere, ReplyThere, Exported, Changes
<1>7. ASSUME NEW p \in Ids, DeleteTurn(p) PROVE TreeRows'
  <2>1. /\ IsTable(msgs) /\ leaf \in [Convs -> Ids \cup {None}] /\ UNCHANGED convs
        /\ p \in Tree!In(msgs[p].conv) /\ msgs[p].conv \in Convs
        /\ Tree!Prune(msgs[p].conv, p)
    BY <1>7 DEF DeleteTurn, TypeOK, IsTable, Row, Tree!In
  <2>2. QED
    BY <2>1, PrunedTree
<1>8. CASE UNCHANGED vars
  BY <1>2, <1>8 DEF vars, tree
<1>9. QED
  BY <1>3, <1>4, <1>5, <1>6, <1>7, <1>8, ApplyTree, CarryOnTree, SwitchTree, DeleteConvTree DEF Next, JobStep

\* What the job knows stays in its chat, as long as the user waits for the job,
\* or deletes no turn.
LEMMA KnownRowsStep ==
  ASSUME ~ UserMeanwhile \/ ~ pruned', TypeOK, TreeRows, KnownRows, [Next]_vars
  PROVE  KnownRows'
<1>1. ASSUME job' = Idle PROVE KnownRows'
  BY <1>1 DEF KnownRows, Idle
<1>2. ASSUME UNCHANGED <<job, msgs, convs>> PROVE KnownRows'
  BY <1>2 DEF KnownRows, StillKnown, Tree!In
<1>3. ASSUME NEW i \in DOMAIN exports, Start(exports[i]) PROVE KnownRows'
  <2>1. job'.at = "skips" /\ job'.known = [m \in {} |-> None]
    BY <1>3 DEF Start, Steps, Idle
  <2>2. QED
    BY <2>1 DEF KnownRows
<1>4. CASE ReadSkips
  <2>1. job' = Idle \/ (job'.known = job.known /\ job.at = "skips" /\ job'.at \in {"create", "known"})
    BY <1>4 DEF ReadSkips, Steps, TypeOK
  <2>2. QED
    BY <1>1, <2>1 DEF KnownRows
<1>5. CASE Create
  <2>1. job'.known = job.known /\ job.at = "create" /\ job'.at = "tag"
    BY <1>5 DEF Create, Steps, TypeOK
  <2>2. QED
    BY <2>1 DEF KnownRows
<1>6. CASE Tag
  <2>1. job' = Idle \/ (job'.known = job.known /\ job.at = "tag" /\ job'.at = "apply")
    BY <1>6 DEF Tag, Steps, TypeOK
  <2>2. QED
    BY <1>1, <2>1 DEF KnownRows
<1>7. CASE ReadKnown
  <2>1. /\ job'.at = "leaf" /\ job'.conv = job.conv /\ UNCHANGED msgs
        /\ job'.known = [m \in Imported(job.conv) |-> msgs[m]]
    BY <1>7 DEF ReadKnown, Steps, TypeOK, tree
  <2>2. QED
    BY <2>1 DEF KnownRows, StillKnown, Imported, Tree!In
<1>8. CASE ReadLeaf
  <2>1. /\ job.at = "leaf" /\ job'.at = "apply" /\ job'.conv = job.conv /\ job'.known = job.known
        /\ UNCHANGED <<msgs, convs>>
    BY <1>8 DEF ReadLeaf, Steps, TypeOK, tree
  <2>2. QED
    BY <2>1 DEF KnownRows, StillKnown, Tree!In
<1>9. CASE Lost \/ Crash \/ \E top \in 0 .. MaxMessages : Apply(top)
  BY <1>1, <1>9 DEF Lost, Crash, Apply, Steps
\* the messages of the job's chat stay
<1>10. ASSUME UNCHANGED job, job.conv \in convs' => job.conv \in convs,
              job.conv \in convs' => \A m \in Tree!In(job.conv) : m \in DOMAIN msgs' /\ msgs'[m] = msgs[m]
       PROVE  KnownRows'
  <2>1. job' = job
    BY <1>10
  <2>2. ASSUME job.at \in {"leaf", "apply"}, job.conv \in convs', NEW m \in DOMAIN job.known
        PROVE  /\ m \in DOMAIN msgs' /\ msgs'[m].conv = job.conv
               /\ msgs'[m].from # 0
               /\ job.known[m].from = msgs'[m].from
               /\ job.known[m].role = msgs'[m].role
    BY <1>10, <2>2 DEF KnownRows, StillKnown, Tree!In
  <2>3. QED
    BY <2>1, <2>2 DEF KnownRows, StillKnown, Tree!In
<1>11. ASSUME NEW k \in Convs, NEW top \in 0 .. MaxMessages, NEW p \in Ids \cup {None}, CarryOn(k, top, p)
       PROVE  KnownRows'
  BY <1>10, <1>11 DEF CarryOn, Changing, Acts, Tree!In
<1>14. ASSUME NEW m \in Ids, NEW n \in Ids, Switch(m, n) PROVE KnownRows'
  BY <1>2, <1>14 DEF Switch, Changing, Acts
<1>15. ASSUME NEW p \in Ids, DeleteTurn(p) PROVE KnownRows'
  <2>1. job.at = "idle" /\ UNCHANGED job
    BY <1>15 DEF DeleteTurn, Changing, Acts
  <2>2. QED
    BY <2>1 DEF KnownRows
<1>16. ASSUME NEW k \in Convs, DeleteConv(k) PROVE KnownRows'
  <2>1. UNCHANGED job /\ \A j \in convs' : j \in convs /\ Tree!In(j)' = Tree!In(j)
    BY <1>16, DeleteConvTree DEF DeleteConv, Acts
  <2>2. \A m \in DOMAIN msgs' : msgs'[m] = msgs[m]
    BY <1>16, DeleteConvTree
  <2>3. PICK j : j = job.conv
    OBVIOUS
  <2>4. j \in convs' => \A m \in Tree!In(j) : m \in DOMAIN msgs' /\ msgs'[m] = msgs[m]
    <3>1. ASSUME j \in convs' PROVE Tree!In(j)' = Tree!In(j)
      BY <2>1, <3>1
    <3>2. QED
      BY <2>2, <3>1 DEF Tree!In
  <2>5. QED
    BY <1>10, <2>1, <2>3, <2>4
<1>12. ASSUME \/ \E p \in Prompts : ContinueThere(p)
              \/ \E i \in 1 .. MaxPrompts, p \in Prompts : EditThere(i, p)
              \/ \E b \in there.others : SwitchThere(b)
              \/ ReplyThere
              \/ Exported
       PROVE  KnownRows'
  BY <1>2, <1>12 DEF ContinueThere, EditThere, SwitchThere, ReplyThere, Exported, Changes, tree
<1>13. CASE UNCHANGED vars
  BY <1>2, <1>13 DEF vars
<1>17. QED
  BY <1>3, <1>4, <1>5, <1>6, <1>7, <1>8, <1>9, <1>11, <1>12, <1>13, <1>14, <1>15, <1>16 DEF Next, JobStep

\* If the user waits for the job, the tables are always trees.
LEMMA TreeRowsHold == ASSUME ~ UserMeanwhile PROVE Spec => [](TypeOK /\ TreeRows /\ KnownRows)
<1>1. Init => TypeOK /\ TreeRows /\ KnownRows
  <2>1. Init => TreeRows
    BY DEF Init, TreeRows, TreesHold, Housed, LeafHome, Tree!ParentOlder, Tree!ParentPresent
  <2>2. Init => KnownRows
    BY DEF Init, KnownRows, Idle
  <2>3. QED
    BY <2>1, <2>2, ImportInit
<1>2. TypeOK /\ TreeRows /\ KnownRows /\ [Next]_vars => (TypeOK /\ TreeRows /\ KnownRows)'
  BY TypeStep, TreeRowsStep, KnownRowsStep
<1>3. QED
  BY <1>1, <1>2, PTL DEF Spec

-----------------------------------------------------------------------------
(* The branches of the chat in ChatGPT *)

\* Its branches now, and those that were exported.
Lines == {there.branch} \cup there.others

Branches == Lines \cup {exports[n].branch : n \in DOMAIN exports}

Tip(b) == b[Len(b)]

\* What comes before the i-th prompt of b comes before the j-th of c.
SamePlace(b, i, c, j) == (i = 1 <=> j = 1) /\ (i # 1 => b[i - 1] = c[j - 1])

\* The branches have their prompts from a tree: a prompt comes after the same
\* one in each; ...
OneTree ==
  /\ Branches \subseteq Seq(Prompts)
  /\ \A b \in Branches : \A i \in DOMAIN b : b[i] \in Written
  /\ \A b, c \in Branches : \A i \in DOMAIN b, j \in DOMAIN c : b[i] = c[j] => SamePlace(b, i, c, j)

\* ... and a prompt that others came after is never again the last.
TipsAreLast ==
  /\ \A c \in there.others : c # << >>
  /\ there.others # {} => there.branch # << >>
  /\ there.branch \notin there.others
  /\ \A c, d \in Lines : c # << >> /\ d # << >> /\ Tip(c) = Tip(d) => c = d
  /\ \A c \in Lines, b \in Branches : c # << >> => \A i \in 1 .. Len(b) - 1 : b[i] # Tip(c)

ThereTree == OneTree /\ TipsAreLast

\* So the reply to such a prompt stays as it was exported.
RepliesStay ==
  \A n \in DOMAIN exports :
    /\ \A p \in Prompts : exports[n].reply[p] <= there.reply[p]
    /\ \A i \in 1 .. Len(exports[n].branch) - 1 :
         exports[n].reply[exports[n].branch[i]] = there.reply[exports[n].branch[i]]
    /\ exports[n].time > 0

\* A branch is a sequence of prompts.
LEMMA BranchFacts == ASSUME TypeOK, NEW b \in Branches PROVE b \in Seq(Prompts)
<1>1. CASE b \in Lines
  BY <1>1 DEF TypeOK, Lines
<1>2. ASSUME NEW n \in DOMAIN exports, b = exports[n].branch PROVE b \in Seq(Prompts)
  <2>1. exports[n] \in Export
    BY DEF TypeOK
  <2>2. QED
    BY <1>2, <2>1 DEF Export
<1>3. QED
  BY <1>1, <1>2 DEF Branches

\* A prompt of a branch was written.
LEMMA LineWritten == ASSUME NEW b \in Lines, NEW i \in DOMAIN b, b[i] \in Prompts PROVE b[i] \in Written
BY DEF Lines, Written

\* A branch that goes on with a new prompt.
LEMMA ExtendedTree ==
  ASSUME ThereTree, NEW b \in Seq(Prompts), NEW p \in Prompts, p \notin Written,
         \* b is the beginning of a branch
         NEW a \in Lines, Len(b) <= Len(a), \A i \in 1 .. Len(b) : b[i] = a[i],
         NEW c \in Branches \cup {Append(b, p)}, NEW d \in Branches \cup {Append(b, p)},
         NEW i \in DOMAIN c, NEW j \in DOMAIN d, c[i] = d[j]
  PROVE  SamePlace(c, i, d, j)
<1> DEFINE w == Append(b, p)
<1>1. /\ w \in Seq(Prompts) /\ Len(w) = Len(b) + 1 /\ DOMAIN w = 1 .. Len(b) + 1
      /\ w[Len(b) + 1] = p /\ \A h \in 1 .. Len(b) : w[h] = b[h]
      /\ Len(b) \in Nat
  OBVIOUS
<1> HIDE DEF w
<1>2. /\ a \in Branches /\ a \in Seq(Prompts) /\ DOMAIN a = 1 .. Len(a) /\ Len(a) \in Nat
  BY DEF ThereTree, OneTree, Branches
<1>3. \A h \in 1 .. Len(b) : h \in DOMAIN a /\ w[h] = a[h]
  BY <1>1, <1>2
<1>4. \A e \in Branches : \A h \in DOMAIN e : e[h] # p
  BY DEF ThereTree, OneTree
<1>5. \A e, f \in Branches : \A h \in DOMAIN e, l \in DOMAIN f : e[h] = f[l] => SamePlace(e, h, f, l)
  BY DEF ThereTree, OneTree
<1>6. ASSUME NEW h \in 1 .. Len(b) PROVE SamePlace(w, h, a, h)
  BY <1>1, <1>3 DEF SamePlace
<1>7. ASSUME NEW e \in Branches, NEW h \in DOMAIN w, NEW l \in DOMAIN e, w[h] = e[l]
      PROVE  SamePlace(w, h, e, l) /\ SamePlace(e, l, w, h)
  <2>1. h \in 1 .. Len(b)
    BY <1>1, <1>4, <1>7
  <2>2. h \in DOMAIN a /\ a[h] = e[l]
    BY <1>3, <1>7, <2>1
  <2>3. SamePlace(w, h, a, h) /\ SamePlace(a, h, e, l)
    BY <1>2, <1>5, <1>6, <2>1, <2>2
  <2>4. QED
    BY <2>3 DEF SamePlace
<1>8. ASSUME NEW h \in DOMAIN w, NEW l \in DOMAIN w, w[h] = w[l]
      PROVE  SamePlace(w, h, w, l)
  <2>1. CASE h \in 1 .. Len(b)
    <3>1. h \in DOMAIN a /\ a[h] = w[l]
      BY <1>3, <1>8, <2>1
    <3>2. SamePlace(w, h, a, h) /\ SamePlace(a, h, w, l)
      BY <1>2, <1>6, <1>7, <2>1, <3>1
    <3>3. QED
      BY <3>2 DEF SamePlace
  <2>2. CASE h = Len(b) + 1
    <3>1. w[l] = p
      BY <1>1, <1>8, <2>2
    <3>2. l \notin 1 .. Len(b)
      BY <1>2, <1>3, <1>4, <3>1
    <3>3. l = Len(b) + 1
      BY <1>1, <3>2
    <3>4. QED
      BY <2>2, <3>3 DEF SamePlace
  <2>3. QED
    BY <1>1, <2>1, <2>2
<1>9. QED
  BY <1>5, <1>7, <1>8 DEF w

\* The chat goes on with a new prompt: at its end, or on a branch of its own.
Extends(b, p) ==
  /\ b \in Seq(Prompts) /\ p \in Prompts /\ p \notin Written
  /\ Len(b) <= Len(there.branch) /\ \A i \in 1 .. Len(b) : b[i] = there.branch[i]
  /\ there'.branch = Append(b, p)
  /\ \/ b = there.branch /\ there'.others = there.others
     \/ Len(b) < Len(there.branch) /\ there'.others = there.others \cup {there.branch}
  /\ UNCHANGED exports

\* A prompt that was there already has its place still.
OldPlaces ==
  \A c \in Branches' : \A i \in DOMAIN c :
    c[i] \in Written => \E d \in Branches : \E j \in DOMAIN d : d[j] = c[i] /\ SamePlace(c, i, d, j)

\* The branches come from one tree after that, too.
LEMMA ExtendsTree ==
  ASSUME TypeOK, ThereTree, NEW b, NEW p, Extends(b, p)
  PROVE  ThereTree' /\ Written \subseteq Written' /\ OldPlaces
<1> DEFINE a == there.branch
           w == Append(b, p)
<1>1. /\ b \in Seq(Prompts) /\ p \in Prompts /\ p \notin Written
      /\ Len(b) <= Len(a) /\ \A i \in 1 .. Len(b) : b[i] = a[i]
      /\ \/ b = a /\ there'.others = there.others
         \/ Len(b) < Len(a) /\ there'.others = there.others \cup {a}
      /\ UNCHANGED exports
  BY DEF Extends
<1>2. /\ w \in Seq(Prompts) /\ Len(w) = Len(b) + 1 /\ DOMAIN w = 1 .. Len(b) + 1
      /\ w[Len(b) + 1] = p /\ \A h \in 1 .. Len(b) : w[h] = b[h]
      /\ Len(b) \in Nat
      /\ there'.branch = w /\ w # << >> /\ Tip(w) = p
  BY <1>1 DEF Extends, Tip
<1>3. a \in Lines /\ Lines \subseteq Branches /\ there.others \subseteq Lines
  BY DEF Lines, Branches
<1>4. \A c \in Branches : c \in Seq(Prompts) /\ Len(c) \in Nat /\ DOMAIN c = 1 .. Len(c)
                          /\ \A i \in DOMAIN c : c[i] \in Written
  BY DEF ThereTree, OneTree
<1>5. /\ \A c \in there.others : c # << >>
      /\ there.others # {} => a # << >>
      /\ a \notin there.others
      /\ \A c, d \in Lines : c # << >> /\ d # << >> /\ Tip(c) = Tip(d) => c = d
      /\ \A c \in Lines, d \in Branches : c # << >> => \A i \in 1 .. Len(d) - 1 : d[i] # Tip(c)
  BY DEF ThereTree, TipsAreLast
<1>6. \A c, d \in Branches \cup {w} : \A i \in DOMAIN c, j \in DOMAIN d : c[i] = d[j] => SamePlace(c, i, d, j)
  BY <1>1, <1>3, ExtendedTree
<1> HIDE DEF w
<1>7. Lines' \subseteq Lines \cup {w} /\ Branches' \subseteq Branches \cup {w} /\ w \in Lines'
  <2>1. Lines' = {w} \cup there'.others
    BY <1>2 DEF Lines
  <2>2. there'.others \subseteq Lines
    BY <1>1, <1>3
  <2>3. Branches' = Lines' \cup {exports[n].branch : n \in DOMAIN exports}
    BY <1>1 DEF Branches
  <2>4. QED
    BY <2>1, <2>2, <2>3 DEF Branches
<1>8. Written \subseteq Written' /\ p \in Written'
  <2>1. p \in Written'
    <3>1. p = w[Len(b) + 1] /\ Len(b) + 1 \in DOMAIN w
      BY <1>2
    <3>2. QED
      BY <1>1, <1>2, <3>1 DEF Written
  <2>2. ASSUME NEW q \in Written PROVE q \in Written'
    <3>1. PICK c \in Lines : q \in {c[i] : i \in DOMAIN c}
      BY DEF Written, Lines
    <3>2. PICK i \in DOMAIN c : q = c[i]
      BY <3>1
    <3>3. CASE c \in {there'.branch} \cup there'.others
      BY <3>1, <3>3 DEF Written
    <3>4. CASE c \notin {there'.branch} \cup there'.others
      <4>1. c = a /\ b = a
        BY <1>1, <3>4 DEF Lines
      <4>2. i \in DOMAIN w /\ q = w[i]
        BY <1>1, <1>2, <3>2, <4>1
      <4>3. QED
        BY <1>2, <4>2 DEF Written
    <3>5. QED
      BY <3>3, <3>4
  <2>3. QED
    BY <2>1, <2>2
<1>9. OneTree'
  <2>1. Branches' \subseteq Seq(Prompts)
    BY <1>2, <1>4, <1>7
  <2>2. ASSUME NEW c \in Branches', NEW i \in DOMAIN c PROVE c[i] \in Written'
    <3>1. CASE c \in Branches
      BY <1>4, <1>8, <3>1
    <3>2. CASE c = w
      <4>1. CASE i = Len(b) + 1
        BY <1>2, <1>8, <3>2, <4>1
      <4>2. CASE i \in 1 .. Len(b)
        <5>1. w[i] = a[i] /\ i \in DOMAIN a
          BY <1>1, <1>2, <1>3, <1>4, <4>2
        <5>2. QED
          BY <1>3, <1>4, <1>8, <3>2, <5>1
      <4>3. QED
        BY <1>2, <2>2, <3>2, <4>1, <4>2
    <3>3. QED
      BY <1>7, <3>1, <3>2
  <2>3. \A c, d \in Branches' : \A i \in DOMAIN c, j \in DOMAIN d : c[i] = d[j] => SamePlace(c, i, d, j)
    BY <1>6, <1>7
  <2>4. QED
    BY <2>1, <2>2, <2>3 DEF OneTree
<1>10. w \notin Branches /\ \A c \in Lines : c # << >> => Tip(c) # p
  <2>1. \A c \in Branches : c # << >> => Len(c) \in DOMAIN c
    BY <1>4
  <2>2. \A c \in Branches : c # << >> => Tip(c) \in Written
    BY <1>4, <2>1 DEF Tip
  <2>3. QED
    BY <1>1, <1>2, <1>3, <2>2
<1>11. ASSUME NEW c \in Lines', NEW d \in Branches', c # << >>, NEW i \in 1 .. Len(d) - 1
       PROVE  d[i] # Tip(c)
  <2>1. CASE d \in Branches /\ c \in Lines
    BY <1>5, <1>11, <2>1
  <2>2. CASE d \in Branches /\ c = w
    <3>1. i \in DOMAIN d
      BY <1>4, <2>2
    <3>2. QED
      BY <1>1, <1>2, <1>4, <2>2, <3>1
  <2>3. CASE d = w
    <3>1. i \in 1 .. Len(b) /\ d[i] = a[i] /\ i \in DOMAIN a /\ Len(a) \in Nat
      BY <1>1, <1>2, <1>3, <1>4, <2>3
    <3>2. CASE c = w
      BY <1>1, <1>2, <1>3, <1>4, <3>1, <3>2
    <3>3. CASE c # w /\ i \in 1 .. Len(a) - 1
      BY <1>3, <1>5, <1>7, <1>11, <3>1, <3>3
    <3>4. CASE c # w /\ i = Len(a)
      <4>1. b = a
        BY <1>1, <3>1, <3>4
      <4>2. c \in there.others
        BY <1>1, <1>2, <3>4, <4>1 DEF Lines
      <4>3. a # << >> /\ d[i] = Tip(a)
        BY <3>1, <3>4 DEF Tip
      <4>4. QED
        BY <1>3, <1>5, <1>11, <4>2, <4>3
    <3>5. QED
      BY <3>1, <3>2, <3>3, <3>4
  <2>4. QED
    BY <1>7, <2>1, <2>2, <2>3
<1>12. TipsAreLast'
  <2>1. \A c \in there'.others : c # << >> /\ c \in Lines
    BY <1>1, <1>3, <1>4, <1>5
  <2>2. \A c, d \in Lines' : c # << >> /\ d # << >> /\ Tip(c) = Tip(d) => c = d
    BY <1>2, <1>5, <1>7, <1>10
  <2>3. there'.branch # << >> /\ there'.branch \notin there'.others
    BY <1>2, <1>3, <1>10, <2>1
  <2>4. QED
    BY <1>11, <2>1, <2>2, <2>3 DEF TipsAreLast, Tip
<1>13. OldPlaces
  <2>1. SUFFICES ASSUME NEW c \in Branches', NEW i \in DOMAIN c, c[i] \in Written
                 PROVE  \E d \in Branches : \E j \in DOMAIN d : d[j] = c[i] /\ SamePlace(c, i, d, j)
    BY DEF OldPlaces
  <2>2. CASE c \in Branches
    BY <2>2 DEF SamePlace
  <2>3. CASE c = w
    <3>1. i \in 1 .. Len(b)
      BY <1>1, <1>2, <2>1, <2>3
    <3>2. a \in Branches /\ i \in DOMAIN a /\ w[i] = a[i]
      BY <1>1, <1>2, <1>3, <1>4, <3>1
    <3>3. SamePlace(w, i, a, i)
      BY <1>6, <2>1, <2>3, <3>2
    <3>4. QED
      BY <2>3, <3>2, <3>3
  <2>4. QED
    BY <1>7, <2>2, <2>3
<1>14. QED
  BY <1>8, <1>9, <1>12, <1>13 DEF ThereTree

\* What a step leaves of the chat in ChatGPT: its prompts, their places, and
\* the replies that were followed; the others only grow.
GoesOn ==
  /\ Written \subseteq Written'
  /\ OldPlaces
  /\ \A d \in Branches : \A i \in 1 .. Len(d) - 1 : there'.reply[d[i]] = there.reply[d[i]]
  /\ \A p \in Prompts : there.reply[p] <= there'.reply[p]

\* In ChatGPT, branches come from one tree.
LEMMA ThereStep ==
  ASSUME TypeOK, ThereTree, RepliesStay, [Next]_vars
  PROVE  ThereTree' /\ RepliesStay' /\ GoesOn
<1> DEFINE Good == ThereTree' /\ RepliesStay' /\ GoesOn
<1>0. /\ \A b \in Branches : b \in Seq(Prompts) /\ Len(b) \in Nat /\ DOMAIN b = 1 .. Len(b)
      /\ there.reply \in [Prompts -> 0 .. MaxText]
      /\ \A p \in Prompts : there.reply[p] \in Nat
      /\ there.branch \in Lines /\ Lines \subseteq Branches
  <2>1. \A b \in Branches : b \in Seq(Prompts)
    BY BranchFacts
  <2>2. there.reply \in [Prompts -> 0 .. MaxText] /\ there.branch \in Lines /\ Lines \subseteq Branches
    BY DEF TypeOK, Branches, Lines
  <2>3. \A b \in Seq(Prompts) : Len(b) \in Nat /\ DOMAIN b = 1 .. Len(b)
    OBVIOUS
  <2>4. 0 .. MaxText \subseteq Nat
    BY BoundsAssumption
  <2>5. QED
    BY <2>1, <2>2, <2>3, <2>4
<1>1. \A c \in Branches : \A i : i \in DOMAIN c => SamePlace(c, i, c, i)
  BY DEF SamePlace
<1>2. ASSUME UNCHANGED <<there, exports>> PROVE Good
  <2>1. Branches' = Branches /\ Lines' = Lines /\ Written' = Written
    BY <1>2 DEF Branches, Lines, Written
  <2>2. ThereTree'
    BY <1>2, <2>1 DEF ThereTree, OneTree, TipsAreLast
  <2>3. RepliesStay'
    BY <1>2 DEF RepliesStay
  <2>4. GoesOn
    BY <1>0, <1>1, <1>2, <2>1 DEF GoesOn, OldPlaces
  <2>5. QED
    BY <2>2, <2>3, <2>4
\* the branches stay, or one is added; the replies stay
<1>3. ASSUME ThereTree', Written \subseteq Written', OldPlaces, UNCHANGED exports, there'.reply = there.reply
      PROVE  Good
  <2>1. RepliesStay'
    BY <1>3 DEF RepliesStay
  <2>2. GoesOn
    BY <1>0, <1>3 DEF GoesOn
  <2>3. QED
    BY <1>3, <2>1, <2>2
<1>4. ASSUME NEW p \in Prompts, ContinueThere(p) PROVE Good
  <2>1. /\ there'.branch = Append(there.branch, p) /\ there'.others = there.others
        /\ there'.reply = there.reply /\ UNCHANGED exports /\ p \notin Written
    BY <1>4 DEF ContinueThere, NextPrompt, Changes, TypeOK
  <2>2. there.branch \in Seq(Prompts) /\ Len(there.branch) \in Nat
    BY <1>0
  <2>3. Extends(there.branch, p)
    BY <2>1, <2>2 DEF Extends
  <2>4. QED
    BY <1>3, <2>1, <2>3, ExtendsTree
<1>5. ASSUME NEW i \in 1 .. MaxPrompts, NEW p \in Prompts, EditThere(i, p) PROVE Good
  <2> DEFINE b == SubSeq(there.branch, 1, i - 1)
  <2>1. /\ there'.branch = Append(b, p) /\ there'.others = there.others \cup {there.branch}
        /\ there'.reply = there.reply /\ UNCHANGED exports /\ p \notin Written
    BY <1>5 DEF EditThere, NextPrompt, Changes, TypeOK
  <2>2. there.branch \in Seq(Prompts) /\ Len(there.branch) \in Nat /\ i \in 1 .. Len(there.branch)
    BY <1>0, <1>5 DEF EditThere
  <2>3. b \in Seq(Prompts) /\ Len(b) = i - 1 /\ \A j \in 1 .. i - 1 : b[j] = there.branch[j]
    BY <2>2, SubSeqProperties
  <2> HIDE DEF b
  <2>4. Extends(b, p)
    BY <2>1, <2>2, <2>3 DEF Extends
  <2>5. QED
    BY <1>3, <2>1, <2>4, ExtendsTree
<1>6. ASSUME NEW b \in there.others, SwitchThere(b) PROVE Good
  <2>1. /\ there'.branch = b /\ there'.others = (there.others \ {b}) \cup {there.branch}
        /\ there'.reply = there.reply /\ UNCHANGED exports
    BY <1>6 DEF SwitchThere, Changes, TypeOK
  <2>2. Lines' = Lines
    BY <2>1 DEF Lines
  <2>3. Branches' = Branches
    BY <2>1, <2>2 DEF Branches
  <2>4. Written' = Written
    <3>1. {there'.branch} \cup there'.others = {there.branch} \cup there.others
      BY <2>1
    <3>2. QED
      BY <3>1 DEF Written
  <2>5. OneTree'
    BY <2>3, <2>4 DEF ThereTree, OneTree
  <2>6. TipsAreLast'
    <3>1. /\ \A c \in there.others : c # << >>
          /\ there.branch # << >>
          /\ there.branch \notin there.others
      BY DEF ThereTree, TipsAreLast
    <3>2. /\ \A c \in there'.others : c # << >>
          /\ there'.branch # << >>
          /\ there'.branch \notin there'.others
      BY <2>1, <3>1
    <3>3. QED
      BY <2>2, <2>3, <3>2 DEF ThereTree, TipsAreLast, Tip
  <2>7. OldPlaces
    BY <1>1, <2>3 DEF OldPlaces
  <2>8. QED
    BY <1>3, <2>1, <2>4, <2>5, <2>6, <2>7 DEF ThereTree
<1>7. ASSUME ReplyThere PROVE Good
  <2> DEFINE q == Tip(there.branch)
  <2>1. /\ there' = [there EXCEPT !.reply[q] = there.reply[q] + 1, !.time = there.time + 1]
        /\ there.branch # << >> /\ UNCHANGED exports
    BY <1>7 DEF ReplyThere, Changes, Tip, TypeOK
  <2>2. q \in Prompts
    BY <1>0, <2>1 DEF Tip
  <2> HIDE DEF q
  <2>3. /\ there'.branch = there.branch /\ there'.others = there.others
        /\ \A p \in Prompts : there'.reply[p] = IF p = q THEN there.reply[p] + 1 ELSE there.reply[p]
    BY <1>0, <2>1, <2>2 DEF TypeOK
  <2>4. Lines' = Lines /\ Branches' = Branches /\ Written' = Written
    BY <2>1, <2>3 DEF Lines, Branches, Written
  <2>5. ThereTree'
    BY <2>3, <2>4 DEF ThereTree, OneTree, TipsAreLast, Tip
  <2>6. \A p \in Prompts : there.reply[p] <= there'.reply[p] /\ there'.reply[p] \in Nat
    BY <1>0, <2>3
  <2>7. ASSUME NEW d \in Branches, NEW i \in 1 .. Len(d) - 1
        PROVE  d[i] \in Prompts /\ there'.reply[d[i]] = there.reply[d[i]]
    <3>1. d[i] \in Prompts
      BY <1>0
    <3>2. d[i] # q
      BY <1>0, <2>1 DEF ThereTree, TipsAreLast, q
    <3>3. QED
      BY <2>3, <3>1, <3>2
  <2>8. GoesOn
    BY <1>1, <2>4, <2>6, <2>7 DEF GoesOn, OldPlaces
  <2>9. ASSUME NEW n \in DOMAIN exports
        PROVE  /\ \A p \in Prompts : exports[n].reply[p] <= there'.reply[p]
               /\ \A i \in 1 .. Len(exports[n].branch) - 1 :
                    exports[n].reply[exports[n].branch[i]] = there'.reply[exports[n].branch[i]]
               /\ exports[n].time > 0
    <3>1. exports[n].branch \in Branches
      BY DEF Branches
    <3>2. exports[n] \in Export
      BY DEF TypeOK
    <3>3. \A p \in Prompts : exports[n].reply[p] \in Nat
      BY <3>2, BoundsAssumption DEF Export
    <3>4. \A p \in Prompts : exports[n].reply[p] <= there.reply[p]
      BY DEF RepliesStay
    <3>5. \A p \in Prompts : exports[n].reply[p] <= there'.reply[p]
      BY <1>0, <2>6, <3>3, <3>4
    <3>6. QED
      BY <2>7, <3>1, <3>5 DEF RepliesStay
  <2>10. RepliesStay'
    BY <2>1, <2>9 DEF RepliesStay
  <2>11. QED
    BY <2>5, <2>8, <2>10
<1>8. ASSUME Exported PROVE Good
  <2> DEFINE e == [branch |-> there.branch, reply |-> there.reply, time |-> there.time]
  <2>1. exports \in Seq(Export) /\ e \in Export /\ exports' = Append(exports, e) /\ UNCHANGED there
        /\ there.time > 0
    BY <1>8 DEF Exported, TypeOK, Export
  <2>2. e.branch = there.branch /\ e.reply = there.reply /\ e.time = there.time
    OBVIOUS
  <2> HIDE DEF e
  <2>3. /\ \A n \in DOMAIN exports : n \in DOMAIN exports' /\ exports'[n] = exports[n]
        /\ \A n \in DOMAIN exports' : exports'[n] = e \/ (n \in DOMAIN exports /\ exports'[n] = exports[n])
    BY <2>1
  <2>4. Lines' = Lines /\ Written' = Written
    BY <2>1 DEF Lines, Written
  <2>5. Branches' = Branches
    <3>1. Branches' = Lines \cup {exports'[n].branch : n \in DOMAIN exports'}
      BY <2>4 DEF Branches
    <3>2. {exports'[n].branch : n \in DOMAIN exports'} \subseteq Branches
      BY <1>0, <2>2, <2>3 DEF Branches
    <3>3. {exports[n].branch : n \in DOMAIN exports} \subseteq {exports'[n].branch : n \in DOMAIN exports'}
      BY <2>3
    <3>4. QED
      BY <3>1, <3>2, <3>3 DEF Branches
  <2>6. ThereTree'
    BY <2>1, <2>4, <2>5 DEF ThereTree, OneTree, TipsAreLast
  <2>7. GoesOn
    BY <1>0, <1>1, <2>1, <2>4, <2>5 DEF GoesOn, OldPlaces
  <2>8. RepliesStay'
    <3>1. ASSUME NEW x \in DOMAIN exports'
          PROVE  /\ \A p \in Prompts : exports'[x].reply[p] <= there.reply[p]
                 /\ \A i \in 1 .. Len(exports'[x].branch) - 1 :
                      exports'[x].reply[exports'[x].branch[i]] = there.reply[exports'[x].branch[i]]
                 /\ exports'[x].time > 0
      <4>1. CASE exports'[x] = e
        BY <1>0, <2>1, <2>2, <4>1
      <4>2. CASE x \in DOMAIN exports /\ exports'[x] = exports[x]
        BY <4>2 DEF RepliesStay
      <4>3. QED
        BY <2>3, <4>1, <4>2
    <3>2. there' = there
      BY <2>1
    <3>3. QED
      BY <3>1, <3>2 DEF RepliesStay
  <2>9. QED
    BY <2>6, <2>7, <2>8
<1>9. ASSUME JobStep PROVE Good
  BY <1>2, <1>9 DEF JobStep, ReadSkips, Create, Tag, ReadKnown, ReadLeaf, Lost, Apply, Steps, outside
<1>10. ASSUME NEW n \in DOMAIN exports, Start(exports[n]) PROVE Good
  BY <1>2, <1>10 DEF Start, Steps, outside
<1>11. ASSUME Crash \/ UNCHANGED vars PROVE Good
  BY <1>2, <1>11 DEF Crash, outside, vars
<1>12. ASSUME Acts PROVE Good
  BY <1>2, <1>12 DEF Acts, outside
<1> HIDE DEF Good
<1>13. Good
  <2>1. ASSUME \/ \E k \in Convs, top \in 0 .. MaxMessages, p \in Ids \cup {None} : CarryOn(k, top, p)
               \/ \E m, n \in Ids : Switch(m, n)
               \/ \E p \in Ids : DeleteTurn(p)
               \/ \E k \in Convs : DeleteConv(k)
        PROVE  Good
    <3>1. Acts
      BY <2>1 DEF CarryOn, Switch, DeleteTurn, DeleteConv, Changing
    <3>2. QED
      BY <1>12, <3>1
  <2>2. QED
    BY <1>4, <1>5, <1>6, <1>7, <1>8, <1>9, <1>10, <1>11, <2>1 DEF Next
<1>14. QED
  BY <1>13 DEF Good

-----------------------------------------------------------------------------
(* The messages follow the chat there *)

\* Row n of chat k is the message with these.
IsRow(n, k, p, role) == n \in Tree!In(k) /\ msgs[n].from = p /\ msgs[n].role = role

\* What comes after prompt p hangs on its reply, or on it if it has none.
HangsOn(n, k, p) ==
  \/ IsRow(n, k, p, "assistant")
  \/ IsRow(n, k, p, "user") /\ there.reply[p] = 0

\* Every imported message hangs on what comes before it in the chat there.
RowFollows(m) ==
  /\ msgs[m].from \in Written
  /\ msgs[m].role = "assistant" =>
       /\ there.reply[msgs[m].from] > 0
       /\ IsRow(msgs[m].parent, msgs[m].conv, msgs[m].from, "user")
  /\ msgs[m].role = "user" =>
       \A b \in Branches : \A i \in DOMAIN b : b[i] = msgs[m].from =>
         IF i = 1 THEN msgs[m].parent = None ELSE HangsOn(msgs[m].parent, msgs[m].conv, b[i - 1])

RowsFollow == \A m \in DOMAIN msgs : msgs[m].from # 0 => RowFollows(m)

\* A step that adds or deletes whole turns of one's own, or whole chats.
RowsKeep ==
  /\ \A m \in DOMAIN msgs' : (m \in DOMAIN msgs /\ msgs'[m] = msgs[m]) \/ msgs'[m].from = 0
  /\ \A m \in DOMAIN msgs' \cap DOMAIN msgs : \A n \in Tree!In(msgs[m].conv) :
       n \in DOMAIN msgs' /\ msgs'[n] = msgs[n]

\* Such a step, and a step in ChatGPT, leaves the messages following the chat there.
LEMMA RowsGoOn ==
  ASSUME TypeOK, TypeOK', RowsFollow, GoesOn, RowsKeep
  PROVE  RowsFollow'
<1>0. /\ \A b \in Branches : b \in Seq(Prompts)
      /\ \A b \in Seq(Prompts) : Len(b) \in Nat /\ DOMAIN b = 1 .. Len(b) /\ \A i \in 1 .. Len(b) : b[i] \in Prompts
      /\ \A p \in Prompts : there.reply[p] \in Nat
      /\ \A p \in Prompts : there'.reply[p] \in Nat
  <2>1. \A b \in Branches : b \in Seq(Prompts)
    BY BranchFacts
  <2>2. \A b \in Seq(Prompts) : Len(b) \in Nat /\ DOMAIN b = 1 .. Len(b) /\ \A i \in 1 .. Len(b) : b[i] \in Prompts
    OBVIOUS
  <2>3. \A p \in Prompts : there.reply[p] \in Nat
    BY BoundsAssumption DEF TypeOK
  <2>4. \A p \in Prompts : there'.reply[p] \in Nat
    BY BoundsAssumption DEF TypeOK
  <2>5. QED
    BY <2>1, <2>2, <2>3, <2>4
<1>1. /\ Written \subseteq Written'
      /\ OldPlaces
      /\ \A d \in Branches : \A i \in 1 .. Len(d) - 1 : there'.reply[d[i]] = there.reply[d[i]]
      /\ \A p \in Prompts : there.reply[p] <= there'.reply[p]
  BY DEF GoesOn
<1>2. SUFFICES ASSUME NEW m \in DOMAIN msgs', msgs'[m].from # 0 PROVE RowFollows(m)'
  BY DEF RowsFollow
<1>3. /\ m \in DOMAIN msgs /\ msgs'[m] = msgs[m]
      /\ \A n \in Tree!In(msgs[m].conv) : n \in DOMAIN msgs' /\ msgs'[n] = msgs[n]
      /\ RowFollows(m)
  BY <1>2 DEF RowsKeep, RowsFollow
<1>4. PICK k, p, up, role : k = msgs[m].conv /\ p = msgs[m].from /\ up = msgs[m].parent /\ role = msgs[m].role
  OBVIOUS
<1>5. \A n, q, r : IsRow(n, k, q, r) => IsRow(n, k, q, r)'
  BY <1>3, <1>4 DEF IsRow, Tree!In
<1>6. p \in Prompts
  BY <1>2, <1>3, <1>4 DEF TypeOK, IsTable, Row
<1>7. /\ p \in Written
      /\ role = "assistant" => there.reply[p] > 0 /\ IsRow(up, k, p, "user")
      /\ role = "user" => \A b \in Branches : \A i \in DOMAIN b : b[i] = p =>
           IF i = 1 THEN up = None ELSE HangsOn(up, k, b[i - 1])
  BY <1>3, <1>4 DEF RowFollows
<1>8. role = "assistant" => there'.reply[p] > 0 /\ IsRow(up, k, p, "user")'
  <2>1. there.reply[p] > 0 => there'.reply[p] > 0
    <3>1. there.reply[p] \in Nat /\ there'.reply[p] \in Nat /\ there.reply[p] <= there'.reply[p]
      BY <1>0, <1>1, <1>6
    <3>2. QED
      BY <3>1
  <2>2. QED
    BY <1>5, <1>7, <2>1
<1>9. ASSUME role = "user", NEW b \in Branches', NEW i \in DOMAIN b, b[i] = p
      PROVE  IF i = 1 THEN up = None ELSE HangsOn(up, k, b[i - 1])'
  <2>1. PICK d \in Branches : \E j \in DOMAIN d : d[j] = p /\ SamePlace(b, i, d, j)
    BY <1>1, <1>7, <1>9 DEF OldPlaces
  <2>2. PICK j \in DOMAIN d : d[j] = p /\ SamePlace(b, i, d, j)
    BY <2>1
  <2>3. IF j = 1 THEN up = None ELSE HangsOn(up, k, d[j - 1])
    BY <1>7, <1>9, <2>2
  <2>4. CASE i = 1
    BY <2>2, <2>3, <2>4 DEF SamePlace
  <2>5. CASE i # 1
    <3>1. j # 1 /\ b[i - 1] = d[j - 1]
      BY <2>2, <2>5 DEF SamePlace
    <3>2. PICK q : q = d[j - 1]
      OBVIOUS
    <3>3. HangsOn(up, k, q)
      BY <2>3, <3>1, <3>2
    <3>4. j - 1 \in 1 .. Len(d) - 1
      BY <1>0, <3>1
    <3>5. there'.reply[q] = there.reply[q]
      BY <1>1, <3>2, <3>4
    <3>6. HangsOn(up, k, q)'
      BY <1>5, <3>3, <3>5 DEF HangsOn
    <3>7. QED
      BY <2>5, <3>1, <3>2, <3>6
  <2>6. QED
    BY <2>4, <2>5
<1>10. /\ msgs'[m].from = p /\ msgs'[m].role = role /\ msgs'[m].parent = up /\ msgs'[m].conv = k
       /\ p \in Written'
  BY <1>1, <1>3, <1>4, <1>7
<1>11. QED
  BY <1>8, <1>9, <1>10 DEF RowFollows

\* The job imports an export there is.
JobExport == job.at # "idle" => \E n \in DOMAIN exports : job.export = exports[n]

\* After an import's transaction, each slot with something in it has its row.
LEMMA ApplySlots ==
  ASSUME TypeOK, KnownRows, NEW top \in 0 .. MaxMessages, Apply(top),
         NEW e, e = job.export, NEW k, k = job.conv, NEW known, known = job.known,
         NEW s \in Slots(e), InChain(e, known, s),
         NEW n, n = KeyOf(e, known, top, s), NEW q, q = PromptAt(e, s), NEW r, r = RoleAt(s)
  PROVE  IsRow(n, k, q, r)'
<1> DEFINE key(t) == KeyOf(job.export, job.known, top, t)
<1>1. /\ job.at = "apply" /\ k \in convs
      /\ e \in Export /\ IsTable(msgs) /\ Len(e.branch) \in Nat
  BY DEF Apply, TypeOK, Export
<1>2. /\ \A m \in DOMAIN msgs : /\ m \in DOMAIN msgs'
                                /\ msgs'[m].conv = msgs[m].conv /\ msgs'[m].parent = msgs[m].parent
                                /\ msgs'[m].from = msgs[m].from /\ msgs'[m].role = msgs[m].role
      /\ \A w \in NewSlots(e, known) : key(w) \in DOMAIN msgs' \ DOMAIN msgs
                                       /\ key(w) = top + Rank(e, known, w)
      /\ \A m \in DOMAIN msgs' \ DOMAIN msgs :
              /\ msgs'[m].conv = k
              /\ \E w \in NewSlots(e, known) :
                   /\ key(w) = m
                   /\ msgs'[m].parent = ParentOf(e, known, top, w)
                   /\ msgs'[m].from = PromptAt(e, w)
                   /\ msgs'[m].role = RoleAt(w)
  <2>1. /\ DOMAIN msgs' = DOMAIN msgs \cup {key(w) : w \in NewSlots(e, known)}
        /\ \A m \in DOMAIN msgs :
              /\ msgs'[m].conv = msgs[m].conv /\ msgs'[m].parent = msgs[m].parent
              /\ msgs'[m].from = msgs[m].from /\ msgs'[m].role = msgs[m].role
        /\ \A w \in NewSlots(e, known) : key(w) = top + Rank(e, known, w) /\ key(w) \notin DOMAIN msgs
    BY MergeParents DEF NewKeys
  <2>2. \A m \in DOMAIN msgs' \ DOMAIN msgs :
              /\ msgs'[m].conv = k
              /\ \E w \in NewSlots(e, known) :
                   /\ key(w) = m
                   /\ msgs'[m].parent = ParentOf(e, known, top, w)
                   /\ msgs'[m].from = PromptAt(e, w)
                   /\ msgs'[m].role = RoleAt(w)
    BY MergeParents
  <2> HIDE DEF key
  <2>3. QED
    BY <2>1, <2>2
<1>3. \A u, t \in NewSlots(e, known) : key(u) = key(t) => u = t
  <2>1. SUFFICES ASSUME NEW u \in NewSlots(e, known), NEW t \in NewSlots(e, known), t < u, key(u) = key(t)
                 PROVE  FALSE
    <3>1. NewSlots(e, known) \subseteq Nat
      BY <1>1 DEF NewSlots, Slots
    <3>2. QED
      BY <2>1, <3>1
  <2>2. /\ Rank(e, known, u) \in Nat /\ Rank(e, known, t) \in Nat /\ Rank(e, known, t) < Rank(e, known, u)
    BY <1>1, <2>1, RankFacts
  <2>3. top \in Nat
    BY BoundsAssumption
  <2>4. QED
    BY <1>2, <2>1, <2>2, <2>3
<1>4. IsRow(n, k, q, r) \/ s \in NewSlots(e, known)
  <2>1. CASE HasRow(e, known, s)
    <3>1. key(s) \in DOMAIN known /\ IsKnown(e, known, s, key(s))
      BY <2>1 DEF KeyOf, HasRow, IsKnown
    <3>2. StillKnown(key(s))
      BY <1>1, <3>1 DEF KnownRows
    <3>3. QED
      BY <3>1, <3>2 DEF StillKnown, IsKnown, IsRow
  <2>2. CASE ~ HasRow(e, known, s)
    BY <2>2 DEF NewSlots
  <2>3. QED
    BY <2>1, <2>2
<1>5. \A m \in DOMAIN msgs : IsRow(m, k, q, r) => IsRow(m, k, q, r)'
  BY <1>2 DEF IsRow, Tree!In
<1>6. CASE IsRow(n, k, q, r)
  BY <1>5, <1>6 DEF IsRow, Tree!In
<1>7. CASE s \in NewSlots(e, known)
  <2>1. n \in DOMAIN msgs' \ DOMAIN msgs
    BY <1>2, <1>7
  <2>2. PICK t \in NewSlots(e, known) : key(t) = n /\ msgs'[n].from = PromptAt(e, t) /\ msgs'[n].role = RoleAt(t)
    BY <1>2, <2>1
  <2>3. t = s
    BY <1>3, <1>7, <2>2
  <2>4. QED
    BY <1>2, <2>1, <2>2, <2>3 DEF IsRow, Tree!In
<1>8. QED
  BY <1>4, <1>6, <1>7

\* What an import writes follows the chat there.
LEMMA ApplyFollows ==
  ASSUME TypeOK, ThereTree, RepliesStay, JobExport, KnownRows, RowsFollow,
         NEW top \in 0 .. MaxMessages, Apply(top)
  PROVE  RowsFollow'
<1> DEFINE key(s) == KeyOf(job.export, job.known, top, s)
<1>0. PICK e, k, known : e = job.export /\ k = job.conv /\ known = job.known
  OBVIOUS
<1>1. /\ job.at = "apply" /\ k \in convs /\ UNCHANGED <<there, exports>>
      /\ e \in Export /\ IsTable(msgs)
  BY <1>0 DEF Apply, TypeOK, Steps, outside
<1>2. PICK x \in DOMAIN exports : e = exports[x]
  BY <1>0, <1>1 DEF JobExport
<1>3. e.branch \in Branches /\ e.branch \in Seq(Prompts) /\ Len(e.branch) \in Nat
  BY <1>1, <1>2 DEF Branches, Export
<1>4. /\ \A p \in Prompts : e.reply[p] \in Nat /\ there.reply[p] \in Nat /\ e.reply[p] <= there.reply[p]
      /\ \A i \in 1 .. Len(e.branch) - 1 : e.reply[e.branch[i]] = there.reply[e.branch[i]]
  <2>1. \A p \in Prompts : e.reply[p] \in Nat /\ there.reply[p] \in Nat
    BY <1>1, BoundsAssumption DEF Export, TypeOK
  <2>2. QED
    BY <1>2, <2>1 DEF RepliesStay
<1>5. Branches' = Branches /\ Written' = Written
  BY <1>1 DEF Branches, Lines, Written
<1>6. /\ \A m \in DOMAIN msgs : /\ m \in DOMAIN msgs'
                                /\ msgs'[m].conv = msgs[m].conv /\ msgs'[m].parent = msgs[m].parent
                                /\ msgs'[m].from = msgs[m].from /\ msgs'[m].role = msgs[m].role
      /\ \A s \in NewSlots(e, known) : key(s) \in DOMAIN msgs' \ DOMAIN msgs
                                       /\ key(s) = top + Rank(e, known, s)
      /\ \A m \in DOMAIN msgs' \ DOMAIN msgs :
              /\ msgs'[m].conv = k
              /\ \E s \in NewSlots(e, known) :
                   /\ key(s) = m
                   /\ msgs'[m].parent = ParentOf(e, known, top, s)
                   /\ msgs'[m].from = PromptAt(e, s)
                   /\ msgs'[m].role = RoleAt(s)
  <2>1. /\ DOMAIN msgs' = DOMAIN msgs \cup {key(s) : s \in NewSlots(e, known)}
        /\ \A m \in DOMAIN msgs :
              /\ msgs'[m].conv = msgs[m].conv /\ msgs'[m].parent = msgs[m].parent
              /\ msgs'[m].from = msgs[m].from /\ msgs'[m].role = msgs[m].role
        /\ \A s \in NewSlots(e, known) : key(s) = top + Rank(e, known, s) /\ key(s) \notin DOMAIN msgs
    BY <1>0, MergeParents DEF NewKeys
  <2>2. \A m \in DOMAIN msgs' \ DOMAIN msgs :
              /\ msgs'[m].conv = k
              /\ \E s \in NewSlots(e, known) :
                   /\ key(s) = m
                   /\ msgs'[m].parent = ParentOf(e, known, top, s)
                   /\ msgs'[m].from = PromptAt(e, s)
                   /\ msgs'[m].role = RoleAt(s)
    BY <1>0, MergeParents
  <2> HIDE DEF key
  <2>3. QED
    BY <2>1, <2>2
<1>7. \A m \in DOMAIN msgs : \A j, q, r : IsRow(m, j, q, r) => IsRow(m, j, q, r)'
  BY <1>6 DEF IsRow, Tree!In
<1>8. ASSUME NEW s \in Slots(e), InChain(e, known, s), NEW n, n = key(s), NEW q, q = PromptAt(e, s),
              NEW r, r = RoleAt(s)
       PROVE  IsRow(n, k, q, r)'
  BY <1>0, <1>8, ApplySlots
<1> HIDE DEF key
<1>9. SUFFICES ASSUME NEW m \in DOMAIN msgs', msgs'[m].from # 0 PROVE RowFollows(m)'
  BY DEF RowsFollow
<1>10. CASE m \in DOMAIN msgs
  <2>1. PICK j, p, up, role : j = msgs[m].conv /\ p = msgs[m].from /\ up = msgs[m].parent /\ role = msgs[m].role
    OBVIOUS
  <2>2. msgs'[m].conv = j /\ msgs'[m].from = p /\ msgs'[m].parent = up /\ msgs'[m].role = role
    BY <1>6, <1>10, <2>1
  <2>3. RowFollows(m)
    BY <1>9, <1>10, <2>1, <2>2 DEF RowsFollow
  <2>4. \A n, q, r : IsRow(n, j, q, r) => IsRow(n, j, q, r)'
    BY <1>7 DEF IsRow, Tree!In
  <2>5. \A n, q : HangsOn(n, j, q) => HangsOn(n, j, q)'
    BY <1>1, <2>4 DEF HangsOn
  <2>6. /\ p \in Written
        /\ role = "assistant" => there.reply[p] > 0 /\ IsRow(up, j, p, "user")
        /\ role = "user" => \A b \in Branches : \A i \in DOMAIN b : b[i] = p =>
             IF i = 1 THEN up = None ELSE HangsOn(up, j, b[i - 1])
    BY <2>1, <2>3 DEF RowFollows
  <2>7. /\ p \in Written'
        /\ role = "assistant" => there'.reply[p] > 0 /\ IsRow(up, j, p, "user")'
        /\ role = "user" => \A b \in Branches' : \A i \in DOMAIN b : b[i] = p =>
             IF i = 1 THEN up = None ELSE HangsOn(up, j, b[i - 1])'
    BY <1>1, <1>5, <2>4, <2>5, <2>6
  <2>8. QED
    BY <2>2, <2>7 DEF RowFollows
<1>11. CASE m \notin DOMAIN msgs
  <2>1. PICK s \in NewSlots(e, known) :
          /\ msgs'[m].parent = ParentOf(e, known, top, s)
          /\ msgs'[m].from = PromptAt(e, s)
          /\ msgs'[m].role = RoleAt(s)
    BY <1>6, <1>9, <1>11
  <2>2. PICK p, up : p = PromptAt(e, s) /\ up = ParentOf(e, known, top, s)
    OBVIOUS
  <2>3. msgs'[m].conv = k /\ msgs'[m].from = p /\ msgs'[m].parent = up /\ msgs'[m].role = RoleAt(s)
    BY <1>6, <1>9, <1>11, <2>1, <2>2
  <2>4. /\ s \in Slots(e) /\ s \in Nat /\ InChain(e, known, s) /\ ~ HasRow(e, known, s)
        /\ (s + 1) \div 2 \in 1 .. Len(e.branch)
        /\ p \in Prompts
        /\ RoleAt(s) \in {"user", "assistant"}
        /\ s # 1 => s - 1 \in Slots(e)
        /\ s # 1 /\ RoleAt(s) = "user" => s - 2 \in Slots(e) /\ RoleAt(s - 2) = "user"
        /\ RoleAt(s) = "assistant" => s # 1 /\ RoleAt(s - 1) = "user"
    BY <1>1, <2>2, SlotFacts DEF NewSlots
  <2> DEFINE j == (s + 1) \div 2
  <2>5. p \in Written
    <3>1. p = e.branch[j] /\ j \in DOMAIN e.branch
      BY <1>3, <2>2, <2>4 DEF PromptAt
    <3>2. QED
      BY <1>3, <3>1 DEF ThereTree, OneTree
  <2>6. ASSUME RoleAt(s) = "assistant" PROVE there.reply[p] > 0 /\ IsRow(up, k, p, "user")'
    <3>1. e.reply[p] > 0
      BY <2>2, <2>4, <2>6 DEF InChain
    <3>2. there.reply[p] > 0
      BY <1>4, <2>4, <3>1
    <3>3. s - 1 \in Slots(e) /\ RoleAt(s - 1) = "user" /\ InChain(e, known, s - 1)
      BY <2>4, <2>6 DEF InChain
    <3>4. up = key(s - 1)
      BY <1>0, <2>2, <2>4, <2>6, <3>3 DEF ParentOf, key
    <3>5. PromptAt(e, s - 1) = p
      <4>1. (s - 1 + 1) \div 2 = (s + 1) \div 2
        BY <2>4, <2>6 DEF RoleAt
      <4>2. QED
        BY <2>2, <4>1 DEF PromptAt
    <3>6. QED
      BY <1>8, <3>2, <3>3, <3>4, <3>5
  <2>7. ASSUME RoleAt(s) = "user", NEW b \in Branches, NEW i \in DOMAIN b, b[i] = p
        PROVE  IF i = 1 THEN up = None ELSE HangsOn(up, k, b[i - 1])'
    <3>1. j \in DOMAIN e.branch /\ e.branch[j] = p
      BY <1>3, <2>2, <2>4 DEF PromptAt
    <3>2. SamePlace(b, i, e.branch, j)
      BY <1>3, <2>7, <3>1 DEF ThereTree, OneTree
    <3>3. s = 1 <=> j = 1
      BY <2>4, <2>7 DEF RoleAt
    <3>4. CASE s = 1
      BY <2>2, <3>2, <3>3, <3>4 DEF SamePlace, ParentOf
    <3>5. CASE s # 1
      <4>1. i # 1 /\ b[i - 1] = e.branch[j - 1]
        BY <3>2, <3>3, <3>5 DEF SamePlace
      <4>2. PICK q : q = e.branch[j - 1]
        OBVIOUS
      <4>3. (s - 1 + 1) \div 2 = j - 1 /\ (s - 2 + 1) \div 2 = j - 1 /\ RoleAt(s - 1) = "assistant"
            /\ j - 1 \in 1 .. Len(e.branch) - 1
        BY <1>3, <2>4, <2>7, <3>5 DEF RoleAt
      <4>4. PromptAt(e, s - 1) = q /\ PromptAt(e, s - 2) = q
        BY <4>2, <4>3 DEF PromptAt
      <4>5. CASE InChain(e, known, s - 1)
        <5>1. up = key(s - 1)
          BY <1>0, <2>2, <3>5, <4>5 DEF ParentOf, key
        <5>2. IsRow(up, k, q, "assistant")'
          BY <1>8, <2>4, <3>5, <4>3, <4>4, <4>5, <5>1
        <5>3. QED
          BY <4>1, <4>2, <5>2 DEF HangsOn
      <4>6. CASE ~ InChain(e, known, s - 1)
        <5>1. up = key(s - 2) /\ s - 2 \in Slots(e) /\ RoleAt(s - 2) = "user" /\ InChain(e, known, s - 2)
          BY <1>0, <2>2, <2>4, <2>7, <3>5, <4>6 DEF ParentOf, key, InChain
        <5>2. IsRow(up, k, q, "user")'
          BY <1>8, <4>4, <5>1
        <5>3. ~ (e.reply[q] > 0)
          BY <4>4, <4>6 DEF InChain
        <5>4. q \in Prompts
          BY <1>3, <4>2, <4>3
        <5>5. e.reply[q] = 0 /\ there.reply[q] = e.reply[q]
          BY <1>4, <4>2, <4>3, <5>3, <5>4
        <5>6. QED
          BY <1>1, <4>1, <4>2, <5>2, <5>5 DEF HangsOn
      <4>7. QED
        BY <4>5, <4>6
    <3>6. QED
      BY <3>4, <3>5
  <2>8. QED
    BY <1>1, <1>5, <2>3, <2>5, <2>6, <2>7 DEF RowFollows
<1>12. QED
  BY <1>10, <1>11

\* Everything of export e is in chat k.
AllThere(k, e) ==
  \A s \in Slots(e) : RoleAt(s) = "user" \/ e.reply[PromptAt(e, s)] > 0 =>
    \E m \in Tree!In(k) : Holds(k, e, s, m)

\* Messages that follow the chat there are in the order of each of its branches.
InOrder ==
  \A k, e : TypeOK /\ ThereTree /\ RowsFollow /\ e \in Export /\ e.branch \in Branches /\ AllThere(k, e)
              => CaughtUp(k, e)

\* The rows of a branch's prompts are each after the one before.
LEMMA FollowInOrder == InOrder
<1> SUFFICES ASSUME NEW k, NEW e, TypeOK, ThereTree, RowsFollow, e \in Export, e.branch \in Branches,
                    AllThere(k, e)
             PROVE  CaughtUp(k, e)
  BY DEF InOrder
<1> DEFINE here == {s \in Slots(e) : \E m \in Tree!In(k) : Holds(k, e, s, m)}
           After(s, n) == \E t \in here : /\ t < s /\ Holds(k, e, t, n)
                                          /\ \A u \in here : u <= t \/ u >= s
<1>1. \A s \in Slots(e) : RoleAt(s) = "user" \/ e.reply[PromptAt(e, s)] > 0 => s \in here
  BY DEF AllThere
<1>2. e.branch \in Seq(Prompts) /\ Len(e.branch) \in Nat /\ DOMAIN e.branch = 1 .. Len(e.branch)
  BY DEF Export
<1>3. ASSUME NEW s \in here, NEW m \in Tree!In(k), Holds(k, e, s, m)
      PROVE  IF s = 1 THEN msgs[m].parent = None ELSE After(s, msgs[m].parent)
  <2> DEFINE j == (s + 1) \div 2
             p == PromptAt(e, s)
  <2>1. /\ s \in Slots(e) /\ s \in Nat /\ j \in DOMAIN e.branch
        /\ p \in Prompts /\ p = e.branch[j]
        /\ RoleAt(s) \in {"user", "assistant"}
        /\ s # 1 => s - 1 \in Slots(e)
        /\ s # 1 /\ RoleAt(s) = "user" => s - 2 \in Slots(e) /\ RoleAt(s - 2) = "user"
        /\ RoleAt(s) = "assistant" => s # 1 /\ RoleAt(s - 1) = "user"
    BY <1>2, SlotFacts DEF PromptAt
  <2>2. \A u \in here : u \in Nat
    BY DEF Slots
  <2>3. /\ m \in DOMAIN msgs /\ msgs[m].conv = k /\ msgs[m].from = p /\ msgs[m].role = RoleAt(s)
        /\ RowFollows(m)
    <3>1. m \in DOMAIN msgs /\ msgs[m].conv = k /\ msgs[m].from = p /\ msgs[m].role = RoleAt(s)
      BY <1>3 DEF Holds, Tree!In
    <3>2. p # 0
      BY <2>1 DEF Prompts
    <3>3. QED
      BY <3>1, <3>2 DEF RowsFollow
  <2>4. CASE RoleAt(s) = "assistant"
    <3>1. IsRow(msgs[m].parent, k, p, "user")
      BY <2>3, <2>4 DEF RowFollows
    <3>2. PromptAt(e, s - 1) = p
      <4>1. (s - 1 + 1) \div 2 = (s + 1) \div 2
        BY <2>1, <2>4 DEF RoleAt
      <4>2. QED
        BY <4>1 DEF PromptAt
    <3>3. Holds(k, e, s - 1, msgs[m].parent) /\ msgs[m].parent \in Tree!In(k)
      BY <2>1, <2>4, <3>1, <3>2 DEF IsRow, Holds
    <3>4. s - 1 \in here /\ s # 1
      BY <2>1, <2>4, <3>3
    <3>5. \A u \in here : u <= s - 1 \/ u >= s
      BY <2>1, <2>2
    <3>6. s - 1 < s
      BY <2>1
    <3> HIDE DEF here
    <3>7. QED
      BY <3>3, <3>4, <3>5, <3>6
  <2>5. CASE RoleAt(s) = "user" /\ s = 1
    <3>1. j = 1
      BY <2>5
    <3>2. QED
      BY <2>1, <2>3, <2>5, <3>1 DEF RowFollows
  <2>6. CASE RoleAt(s) = "user" /\ s # 1
    <3>1. /\ (s - 1 + 1) \div 2 = j - 1 /\ (s - 2 + 1) \div 2 = j - 1 /\ RoleAt(s - 1) = "assistant"
          /\ j # 1
      BY <2>1, <2>6 DEF RoleAt
    <3>2. PICK q : q = e.branch[j - 1]
      OBVIOUS
    <3>3. PromptAt(e, s - 1) = q /\ PromptAt(e, s - 2) = q
      BY <3>1, <3>2 DEF PromptAt
    <3>4. q # 0
      BY <2>1, <3>3, SlotFacts, <2>6 DEF Prompts
    <3>5. HangsOn(msgs[m].parent, k, q)
      BY <2>1, <2>3, <2>6, <3>1, <3>2 DEF RowFollows
    <3>6. CASE IsRow(msgs[m].parent, k, q, "assistant")
      <4>1. Holds(k, e, s - 1, msgs[m].parent) /\ msgs[m].parent \in Tree!In(k)
        BY <3>1, <3>3, <3>6 DEF IsRow, Holds
      <4>2. s - 1 \in here
        BY <2>1, <2>6, <4>1
      <4>3. \A u \in here : u <= s - 1 \/ u >= s
        BY <2>1, <2>2
      <4>4. s - 1 < s
        BY <2>1
      <4> HIDE DEF here
      <4>5. QED
        BY <2>6, <4>1, <4>2, <4>3, <4>4
    <3>7. CASE IsRow(msgs[m].parent, k, q, "user") /\ there.reply[q] = 0
      <4>1. Holds(k, e, s - 2, msgs[m].parent) /\ msgs[m].parent \in Tree!In(k)
        BY <2>1, <2>6, <3>3, <3>7 DEF IsRow, Holds
      <4>2. s - 2 \in here
        BY <2>1, <2>6, <4>1
      <4>3. s - 1 \notin here
        <5>1. SUFFICES ASSUME NEW n \in Tree!In(k), Holds(k, e, s - 1, n) PROVE FALSE
          OBVIOUS
        <5>2. n \in DOMAIN msgs /\ msgs[n].from = q /\ msgs[n].role = "assistant"
          BY <3>1, <3>3, <5>1 DEF Holds, Tree!In
        <5>3. there.reply[q] > 0
          BY <3>4, <5>2 DEF RowsFollow, RowFollows
        <5>4. QED
          BY <3>7, <5>3
      <4>4. \A u \in here : u <= s - 2 \/ u >= s
        BY <2>1, <2>2, <4>3
      <4>5. s - 2 < s
        BY <2>1
      <4> HIDE DEF here
      <4>6. QED
        BY <2>6, <4>1, <4>2, <4>4, <4>5
    <3>8. QED
      BY <3>5, <3>6, <3>7 DEF HangsOn
  <2>7. QED
    BY <2>1, <2>4, <2>5, <2>6
<1>4. \A s \in here : s \in Nat /\ s >= 1
  BY <1>2 DEF Slots
<1>5. ASSUME NEW s \in here, NEW m \in Tree!In(k), Holds(k, e, s, m)
      PROVE  IF \E t \in here : t < s
             THEN \E t \in here : /\ Holds(k, e, t, msgs[m].parent)
                                 /\ \A u \in here : u <= t \/ u >= s
             ELSE msgs[m].parent = None
  <2> HIDE DEF here
  <2>1. CASE s = 1
    <3>1. ~ \E t \in here : t < s
      BY <1>4, <2>1
    <3>2. msgs[m].parent = None
      BY <1>3, <1>5, <2>1
    <3>3. QED
      BY <3>1, <3>2
  <2>2. CASE s # 1
    BY <1>3, <1>5, <2>2
  <2>3. QED
    BY <2>1, <2>2
<1>6. QED
  BY <1>1, <1>5 DEF CaughtUp

\* The same of the state after a step.
LEMMA FollowInOrderNext == InOrder'
<1>1. InOrder
  BY FollowInOrder
<1>2. QED
  BY <1>1, PTL

\* An import's transaction brings the chat up to its export.
LEMMA ApplyCatchesUp ==
  ASSUME TypeOK, TypeOK', ThereTree, ThereTree', RepliesStay, JobExport, KnownRows, RowsFollow,
         NEW top \in 0 .. MaxMessages, Apply(top),
         NEW k, k = job.conv, NEW e, e = job.export
  PROVE  CaughtUp(k, e)'
<1>1. RowsFollow'
  BY ApplyFollows
<1>2. job.at = "apply" /\ e \in Export /\ UNCHANGED <<there, exports>>
  BY DEF Apply, TypeOK, Steps, outside
<1>3. e.branch \in Branches'
  BY <1>2 DEF Branches, JobExport
<1>4. AllThere(k, e)'
  <2>1. SUFFICES ASSUME NEW s \in Slots(e), RoleAt(s) = "user" \/ e.reply[PromptAt(e, s)] > 0
                 PROVE  \E m \in Tree!In(k)' : Holds(k, e, s, m)'
    BY DEF AllThere
  <2>2. InChain(e, job.known, s)
    BY <2>1 DEF InChain
  <2>3. PICK n, q, r, known : /\ known = job.known
                              /\ n = KeyOf(e, known, top, s) /\ q = PromptAt(e, s) /\ r = RoleAt(s)
    OBVIOUS
  <2>4. IsRow(n, k, q, r)'
    BY <2>2, <2>3, ApplySlots
  <2>5. QED
    BY <2>3, <2>4 DEF IsRow, Holds
<1>5. InOrder'
  BY FollowInOrderNext
<1>6. QED
  BY <1>1, <1>2, <1>3, <1>4, <1>5 DEF InOrder

\* The job's export was not imported yet, and it is not until the job's own
\* transaction.
FreshStamp ==
  /\ job.at = "skips" /\ job.conv # None => job.stamp = stamp[job.conv]
  /\ job.at \in {"tag", "known", "leaf", "apply"} => stamp[job.conv] # job.export.time
  /\ \A k \in Convs : k > opened => stamp[k] = 0

\* Exports stay where they are, and the job keeps the one it imports.
LEMMA JobExportStep == ASSUME TypeOK, JobExport, [Next]_vars PROVE JobExport'
<1>1. exports \in Seq(Export) /\ DOMAIN exports = 1 .. Len(exports) /\ Len(exports) \in Nat
  BY DEF TypeOK
<1>2. \A n \in DOMAIN exports : n \in DOMAIN exports' /\ exports'[n] = exports[n]
  <2>1. CASE Exported
    <3>1. PICK e : e = [branch |-> there.branch, reply |-> there.reply, time |-> there.time]
      OBVIOUS
    <3>2. exports' = Append(exports, e)
      BY <2>1, <3>1 DEF Exported
    <3>3. e \in Export
      BY <3>1 DEF TypeOK, Export
    <3>4. QED
      BY <1>1, <3>2, <3>3
  <2>2. CASE UNCHANGED exports
    BY <2>2
  <2>3. CASE JobStep \/ Crash \/ \E n \in DOMAIN exports : Start(exports[n])
    BY <2>3 DEF JobStep, ReadSkips, Create, Tag, ReadKnown, ReadLeaf, Lost, Apply, Start, Crash, Steps, outside
  <2>4. ASSUME Acts PROVE UNCHANGED exports
    BY <2>4 DEF Acts, outside
  <2>5. ASSUME NEW chat, Changes(chat) PROVE UNCHANGED exports
    BY <2>5 DEF Changes
  <2>6. QED
    BY <2>1, <2>2, <2>3, <2>4, <2>5
    DEF Next, ContinueThere, EditThere, SwitchThere, ReplyThere, CarryOn, Switch, DeleteTurn, DeleteConv,
        Changing, vars
<1>3. CASE UNCHANGED job \/ job' = Idle
  BY <1>2, <1>3 DEF JobExport, Idle
<1>4. ASSUME NEW n \in DOMAIN exports, Start(exports[n]) PROVE JobExport'
  <2>1. job'.export = exports[n]
    BY <1>4 DEF Start, Steps, Idle
  <2>2. QED
    BY <1>2, <2>1 DEF JobExport
<1>5. CASE JobStep
  <2>1. job' = Idle \/ (job.at # "idle" /\ job'.export = job.export)
    BY <1>5 DEF JobStep, ReadSkips, Create, Tag, ReadKnown, ReadLeaf, Lost, Apply, Steps, TypeOK
  <2>2. QED
    BY <1>2, <1>3, <2>1 DEF JobExport
<1>6. CASE Crash \/ UNCHANGED vars
  BY <1>3, <1>6 DEF Crash, vars
<1>7. ASSUME Acts PROVE JobExport'
  BY <1>3, <1>7 DEF Acts
<1>8. ASSUME NEW chat, Changes(chat) PROVE JobExport'
  BY <1>3, <1>8 DEF Changes
<1>9. CASE Exported
  BY <1>3, <1>9 DEF Exported
<1>10. QED
  BY <1>4, <1>5, <1>6, <1>7, <1>8, <1>9
  DEF Next, ContinueThere, EditThere, SwitchThere, ReplyThere, CarryOn, Switch, DeleteTurn, DeleteConv, Changing

\* The job's chat has another stamp than the export until the transaction.
LEMMA FreshStampStep ==
  ASSUME TypeOK, RepliesStay, JobExport, FreshStamp, [Next]_vars
  PROVE  FreshStamp'
<1>0. opened \in Nat /\ opened <= MaxConvs /\ MaxConvs \in Nat /\ stamp \in [Convs -> 0 .. MaxTime]
      /\ Convs = 1 .. MaxConvs
  BY BoundsAssumption DEF TypeOK, Convs
<1>1. ASSUME UNCHANGED <<job, stamp, opened>> PROVE FreshStamp'
  BY <1>1 DEF FreshStamp
<1>2. ASSUME job' = Idle, UNCHANGED <<stamp, opened>> PROVE FreshStamp'
  BY <1>2 DEF FreshStamp, Idle, None
<1>3. ASSUME NEW n \in DOMAIN exports, Start(exports[n]) PROVE FreshStamp'
  <2>1. /\ UNCHANGED <<stamp, opened>> /\ job'.at = "skips"
        /\ job'.conv # None => job'.stamp = stamp[job'.conv]
    BY <1>3 DEF Start, Steps, Idle
  <2>2. QED
    BY <2>1 DEF FreshStamp
<1>4. CASE ReadSkips
  <2>1. \/ job' = Idle
        \/ job'.at = "create"
        \/ /\ job'.at = "known" /\ job'.conv = job.conv /\ job'.export = job.export
           /\ job.conv # None /\ job.stamp # job.export.time /\ job.at = "skips"
    BY <1>4 DEF ReadSkips, Steps, TypeOK
  <2>2. UNCHANGED <<stamp, opened>>
    BY <1>4 DEF ReadSkips
  <2>3. QED
    BY <1>2, <2>1, <2>2 DEF FreshStamp
<1>5. CASE Create
  <2>1. /\ opened' = opened + 1 /\ opened < MaxConvs /\ UNCHANGED stamp
        /\ job'.at = "tag" /\ job'.conv = opened + 1 /\ job'.export = job.export /\ job.at = "create"
    BY <1>5 DEF Create, Steps, TypeOK
  <2>2. opened + 1 \in Convs /\ opened + 1 > opened /\ \A k \in Convs : k > opened + 1 => k > opened
    BY <1>0, <2>1
  <2>3. stamp[opened + 1] = 0
    BY <2>2 DEF FreshStamp
  <2>4. job.export.time > 0
    BY <2>1 DEF JobExport, RepliesStay
  <2>5. job.export.time # 0
    BY <2>4
  <2>6. \A k \in Convs : k > opened + 1 => stamp[k] = 0
    BY <2>2 DEF FreshStamp
  <2>7. QED
    BY <2>1, <2>3, <2>5, <2>6 DEF FreshStamp
<1>6. CASE Tag \/ ReadKnown \/ ReadLeaf
  <2>1. /\ UNCHANGED <<stamp, opened>>
        /\ \/ job' = Idle
           \/ /\ job.at \in {"tag", "known", "leaf"} /\ job'.at \in {"leaf", "apply"}
              /\ job'.conv = job.conv /\ job'.export = job.export
    BY <1>6 DEF Tag, ReadKnown, ReadLeaf, Steps, TypeOK
  <2>2. QED
    BY <1>2, <2>1 DEF FreshStamp
<1>7. CASE Lost \/ Crash
  BY <1>2, <1>7 DEF Lost, Crash, Steps
<1>8. ASSUME NEW top \in 0 .. MaxMessages, Apply(top) PROVE FreshStamp'
  <2>1. /\ stamp' = [stamp EXCEPT ![job.conv] = job.export.time] /\ job' = Idle /\ UNCHANGED opened
        /\ job.conv \in 1 .. opened
    BY <1>8 DEF Apply, Steps, TypeOK
  <2>2. \A k \in Convs : k > opened => k # job.conv
    BY <1>0, <2>1
  <2>3. \A k \in Convs : k > opened => stamp'[k] = 0
    BY <1>0, <2>1, <2>2 DEF FreshStamp
  <2>4. QED
    BY <2>1, <2>3 DEF FreshStamp, Idle, None
<1>9. ASSUME Acts PROVE FreshStamp'
  BY <1>1, <1>9 DEF Acts
<1>10. ASSUME NEW chat, Changes(chat) PROVE FreshStamp'
  BY <1>1, <1>10 DEF Changes
<1>11. CASE Exported \/ UNCHANGED vars
  BY <1>1, <1>11 DEF Exported, vars
<1>12. QED
  <2>1. CASE JobStep
    BY <1>4, <1>5, <1>6, <1>7, <1>8, <2>1 DEF JobStep
  <2>2. QED
    BY <1>3, <1>7, <1>9, <1>10, <1>11, <2>1
    DEF Next, ContinueThere, EditThere, SwitchThere, ReplyThere, CarryOn, Switch, DeleteTurn, DeleteConv, Changing

\* As long as no turn was deleted here, what was imported follows the chat there.
FollowInv ==
  /\ TypeOK
  /\ ThereTree /\ RepliesStay
  /\ JobExport /\ FreshStamp
  /\ pruned \/ (TreeRows /\ KnownRows /\ RowsFollow)

\* What was imported follows the chat there after every step that deletes no turn.
LEMMA RowsFollowStep ==
  ASSUME TypeOK, TypeOK', ThereTree, RepliesStay, JobExport, TreeRows, KnownRows, RowsFollow, GoesOn,
         ~ pruned', [Next]_vars
  PROVE  RowsFollow'
<1>1. ASSUME UNCHANGED msgs PROVE RowsFollow'
  <2>1. RowsKeep
    BY <1>1 DEF RowsKeep, Tree!In
  <2>2. QED
    BY <2>1, RowsGoOn
<1>2. ASSUME NEW k \in Convs, NEW top \in 0 .. MaxMessages, NEW p \in Ids \cup {None}, CarryOn(k, top, p)
      PROVE  RowsFollow'
  <2>1. RowsKeep
    BY <1>2 DEF CarryOn, RowsKeep, Tree!In
  <2>2. QED
    BY <2>1, RowsGoOn
<1>3. ASSUME NEW k \in Convs, DeleteConv(k) PROVE RowsFollow'
  <2>1. RowsKeep
    BY <1>3 DEF DeleteConv, RowsKeep, Tree!In
  <2>2. QED
    BY <2>1, RowsGoOn
<1>4. ASSUME NEW p \in Ids, DeleteTurn(p) PROVE FALSE
  BY <1>4 DEF DeleteTurn
<1>5. ASSUME NEW m \in Ids, NEW n \in Ids, Switch(m, n) PROVE UNCHANGED msgs
  BY <1>5 DEF Switch
<1>6. ASSUME NEW chat, Changes(chat) PROVE UNCHANGED msgs
  BY <1>6 DEF Changes, tree
<1>7. ASSUME NEW n \in DOMAIN exports, Start(exports[n]) PROVE UNCHANGED msgs
  BY <1>7 DEF Start, tree
<1>8. CASE Exported \/ Crash \/ UNCHANGED vars
  BY <1>1, <1>8 DEF Exported, Crash, vars, tree
<1>9. CASE JobStep
  <2>1. ASSUME NEW top \in 0 .. MaxMessages, Apply(top) PROVE RowsFollow'
    BY <2>1, ApplyFollows
  <2>2. CASE ReadSkips \/ Create \/ Tag \/ ReadKnown \/ ReadLeaf \/ Lost
    BY <1>1, <2>2 DEF ReadSkips, Create, Tag, ReadKnown, ReadLeaf, Lost, tree
  <2>3. QED
    BY <1>9, <2>1, <2>2 DEF JobStep
<1>10. QED
  BY <1>1, <1>2, <1>3, <1>4, <1>5, <1>6, <1>7, <1>8, <1>9
  DEF Next, ContinueThere, EditThere, SwitchThere, ReplyThere

\* The history is kept.
LEMMA PrunedStays == ASSUME [Next]_vars PROVE pruned => pruned'
<1>1. ASSUME NEW chat, Changes(chat) PROVE UNCHANGED pruned
  BY <1>1 DEF Changes
<1>2. ASSUME JobStep PROVE UNCHANGED pruned
  BY <1>2 DEF JobStep, ReadSkips, Create, Tag, ReadKnown, ReadLeaf, Lost, Apply, Steps
<1>3. ASSUME NEW n \in DOMAIN exports, Start(exports[n]) PROVE UNCHANGED pruned
  BY <1>3 DEF Start, Steps
<1>4. QED
  BY <1>1, <1>2, <1>3 DEF Next, ContinueThere, EditThere, SwitchThere, ReplyThere, Exported, Crash, vars,
     CarryOn, Switch, DeleteTurn, DeleteConv

\* FollowInv holds of every reachable state.
LEMMA FollowInvInit == Init => FollowInv
<1> SUFFICES ASSUME Init PROVE FollowInv
  OBVIOUS
<1>1. /\ there.branch = << >> /\ there.others = {} /\ exports = << >> /\ msgs = [m \in {} |-> None]
      /\ job = Idle /\ stamp = [k \in Convs |-> 0] /\ leaf = [k \in Convs |-> None] /\ convs = {}
  BY DEF Init
<1>2. Lines = {<< >>} /\ Branches = {<< >>}
  BY <1>1 DEF Lines, Branches
<1>3. ThereTree
  BY <1>1, <1>2 DEF ThereTree, OneTree, TipsAreLast
<1>4. RepliesStay /\ JobExport
  BY <1>1 DEF RepliesStay, JobExport, Idle
<1>5. FreshStamp
  BY <1>1 DEF FreshStamp, Idle, None
<1>6. TreeRows /\ KnownRows /\ RowsFollow
  BY <1>1 DEF TreeRows, TreesHold, Housed, LeafHome, Tree!ParentOlder, Tree!ParentPresent, KnownRows, RowsFollow, Idle
<1>7. QED
  BY <1>3, <1>4, <1>5, <1>6, ImportInit DEF FollowInv

LEMMA FollowInvStep == FollowInv /\ [Next]_vars => FollowInv'
<1> SUFFICES ASSUME FollowInv, [Next]_vars PROVE FollowInv'
  OBVIOUS
<1>1. TypeOK' /\ JobExport' /\ FreshStamp'
  BY TypeStep, JobExportStep, FreshStampStep DEF FollowInv
<1>2. ThereTree' /\ RepliesStay' /\ GoesOn
  BY ThereStep DEF FollowInv
<1>3. CASE pruned'
  BY <1>1, <1>2, <1>3 DEF FollowInv
<1>4. CASE ~ pruned'
  <2>1. TreeRows /\ KnownRows /\ RowsFollow
    BY <1>4, PrunedStays DEF FollowInv
  <2>2. TreeRows' /\ KnownRows' /\ RowsFollow'
    BY <1>1, <1>2, <1>4, <2>1, TreeRowsStep, KnownRowsStep, RowsFollowStep DEF FollowInv
  <2>3. QED
    BY <1>1, <1>2, <2>2 DEF FollowInv
<1>5. QED
  BY <1>3, <1>4

LEMMA FollowInvHolds == Spec => []FollowInv
BY FollowInvInit, FollowInvStep, PTL DEF Spec

\* The step that brings the stamp is the job's transaction.
LEMMA FollowStep ==
  ASSUME FollowInv, FollowInv', [Next]_vars, NEW k \in convs, NEW e, e = job.export,
         job.at = "apply", job.conv = k, job' # job, stamp'[k] = e.time, ~ pruned
  PROVE  CaughtUp(k, e)'
<1>1. ASSUME UNCHANGED stamp PROVE FALSE
  BY <1>1 DEF FollowInv, FreshStamp
<1>2. ASSUME NEW top \in 0 .. MaxMessages, Apply(top) PROVE CaughtUp(k, e)'
  BY <1>2, ApplyCatchesUp DEF FollowInv
<1>3. ASSUME NEW chat, Changes(chat) PROVE FALSE
  BY <1>3 DEF Changes
<1>4. ASSUME Acts PROVE FALSE
  BY <1>4 DEF Acts
<1>5. CASE Exported \/ UNCHANGED vars
  BY <1>5 DEF Exported, vars
<1>6. ASSUME NEW n \in DOMAIN exports, Start(exports[n]) PROVE FALSE
  BY <1>6 DEF Start
<1>7. CASE Crash \/ Lost \/ ReadSkips \/ Create \/ Tag \/ ReadKnown \/ ReadLeaf
  BY <1>1, <1>7 DEF Crash, Lost, ReadSkips, Create, Tag, ReadKnown, ReadLeaf
<1>8. QED
  BY <1>2, <1>3, <1>4, <1>5, <1>6, <1>7
  DEF Next, JobStep, ContinueThere, EditThere, SwitchThere, ReplyThere, CarryOn, Switch, DeleteTurn, DeleteConv,
      Changing

-----------------------------------------------------------------------------
(* What is shown *)

\* When the job is to show the branch's end, its chat shows no message written here.
ShowsRead ==
  /\ job.at = "tag" => leaf[job.conv] = None
  /\ job.at = "apply" /\ job.conv \in convs /\ job.show /\ leaf[job.conv] \in DOMAIN msgs =>
       msgs[leaf[job.conv]].from # 0

\* Nothing but the job changes what its chat shows.
LEMMA ShowsReadStep ==
  ASSUME ~ UserMeanwhile, TypeOK, TreeRows, KnownRows, ShowsRead, [Next]_vars
  PROVE  ShowsRead'
<1>0. IsTable(msgs) /\ None \notin DOMAIN msgs
  BY NoneIsNoRow DEF TypeOK
<1>1. ASSUME UNCHANGED <<job, msgs, convs, leaf>> PROVE ShowsRead'
  BY <1>1 DEF ShowsRead
<1>2. ASSUME job'.at \notin {"tag", "apply"} PROVE ShowsRead'
  BY <1>2 DEF ShowsRead
<1>3. CASE Create
  <2>1. job'.at = "tag" /\ job'.conv = opened + 1 /\ UNCHANGED leaf /\ opened < MaxConvs
    BY <1>3 DEF Create, Steps, TypeOK
  <2>2. opened + 1 \in Convs /\ opened + 1 \notin convs
    BY <2>1, BoundsAssumption DEF TypeOK, Convs
  <2>3. leaf[opened + 1] = None
    BY <2>2 DEF TreeRows, LeafHome, Housed, Tree!In
  <2>4. QED
    BY <2>1, <2>3 DEF ShowsRead
<1>4. CASE Tag
  <2>1. \/ job' = Idle
        \/ job.at = "tag" /\ job'.at = "apply" /\ job'.conv = job.conv
    BY <1>4 DEF Tag, Steps, TypeOK
  <2>2. UNCHANGED <<msgs, leaf>>
    BY <1>4 DEF Tag, tree
  <2>3. QED
    BY <1>0, <1>2, <2>1, <2>2 DEF ShowsRead, Idle
<1>5. CASE ReadLeaf
  <2>1. PICK m : /\ Tree!ShownLeaf(job.conv, m)
                 /\ job' = [job EXCEPT !.at = "apply", !.show = (m = None \/ m \in DOMAIN job.known)]
    BY <1>5 DEF ReadLeaf, Steps
  <2>2. /\ job.at = "leaf" /\ job'.at = "apply" /\ job'.conv = job.conv
        /\ job'.show = (m = None \/ m \in DOMAIN job.known)
        /\ UNCHANGED <<msgs, convs, leaf>>
    BY <1>5, <2>1 DEF ReadLeaf, TypeOK, tree
  <2>3. ASSUME job.conv \in convs, job'.show, leaf[job.conv] \in DOMAIN msgs
        PROVE  msgs[leaf[job.conv]].from # 0
    <3>1. m = leaf[job.conv]
      BY <2>1, <2>3 DEF Tree!ShownLeaf
    <3>2. m \in DOMAIN job.known
      BY <1>0, <2>2, <2>3, <3>1
    <3>3. StillKnown(m)
      BY <2>2, <2>3, <3>2 DEF KnownRows
    <3>4. QED
      BY <3>1, <3>3 DEF StillKnown
  <2>4. QED
    BY <2>2, <2>3 DEF ShowsRead
<1>6. CASE ReadSkips \/ ReadKnown \/ Lost \/ Crash \/ \E top \in 0 .. MaxMessages : Apply(top)
  <2>1. job' = Idle \/ job'.at \in {"create", "known", "leaf"}
    BY <1>6 DEF ReadSkips, ReadKnown, Lost, Crash, Apply, Steps, TypeOK
  <2>2. QED
    BY <1>2, <2>1 DEF Idle
<1>7. ASSUME NEW n \in DOMAIN exports, Start(exports[n]) PROVE ShowsRead'
  <2>1. job'.at = "skips"
    BY <1>7 DEF Start, Steps, Idle
  <2>2. QED
    BY <1>2, <2>1
<1>8. ASSUME Changing PROVE ShowsRead'
  <2>1. job'.at = "idle"
    BY <1>8 DEF Changing, Acts
  <2>2. QED
    BY <1>2, <2>1
<1>9. ASSUME NEW k \in Convs, DeleteConv(k) PROVE ShowsRead'
  <2>1. /\ UNCHANGED job /\ convs' = convs \ {k} /\ leaf' = [leaf EXCEPT ![k] = None]
        /\ DOMAIN msgs' \subseteq DOMAIN msgs /\ \A m \in DOMAIN msgs' : msgs'[m] = msgs[m]
        /\ leaf \in [Convs -> Ids \cup {None}]
    BY <1>9 DEF DeleteConv, Acts, TypeOK
  <2>2. job.at = "tag" => job.conv \in Convs
    <3>1. job.at = "tag" => job.conv \in 1 .. opened
      BY DEF TypeOK
    <3>2. opened \in 0 .. MaxConvs /\ MaxConvs \in Nat
      BY BoundsAssumption DEF TypeOK
    <3>3. QED
      BY <3>1, <3>2 DEF Convs
  <2>3. job'.at = "tag" => leaf'[job'.conv] = None
    BY <2>1, <2>2 DEF ShowsRead
  <2>4. job.conv \in convs' => leaf'[job.conv] = leaf[job.conv] /\ job.conv \in convs
    BY <2>1 DEF TypeOK
  <2>5. QED
    BY <2>1, <2>3, <2>4 DEF ShowsRead
<1>10. ASSUME NEW chat, Changes(chat) PROVE ShowsRead'
  BY <1>1, <1>10 DEF Changes, tree
<1>11. CASE Exported \/ UNCHANGED vars
  BY <1>1, <1>11 DEF Exported, vars, tree
<1>12. QED
  BY <1>3, <1>4, <1>5, <1>6, <1>7, <1>8, <1>9, <1>10, <1>11
  DEF Next, JobStep, ContinueThere, EditThere, SwitchThere, ReplyThere, CarryOn, Switch, DeleteTurn

LEMMA ShowsReadHolds == ASSUME ~ UserMeanwhile PROVE Spec => []ShowsRead
<1>1. Init => ShowsRead
  BY DEF Init, ShowsRead, Idle
<1>2. TypeOK /\ TreeRows /\ KnownRows /\ ShowsRead /\ [Next]_vars => ShowsRead'
  BY ShowsReadStep
<1>3. QED
  BY <1>1, <1>2, TreeRowsHold, PTL DEF Spec

\* A job's last step keeps the shown message if it was written here.
LEMMA ShowStep ==
  ASSUME ShowsRead, [Next]_vars, NEW k \in convs, job.at = "apply", job.conv = k,
         leaf[k] \in DOMAIN msgs, msgs[leaf[k]].from = 0
  PROVE  leaf'[k] = leaf[k] \/ job' = job
<1>1. ~ job.show
  BY DEF ShowsRead
<1>2. ASSUME NEW top \in 0 .. MaxMessages, Apply(top) PROVE UNCHANGED leaf
  BY <1>1, <1>2 DEF Apply
<1>3. CASE ReadSkips \/ Create \/ Tag \/ ReadKnown \/ ReadLeaf \/ Lost \/ Crash
  BY <1>3 DEF ReadSkips, Create, Tag, ReadKnown, ReadLeaf, Lost, Crash, tree
<1>4. ASSUME NEW n \in DOMAIN exports, Start(exports[n]) PROVE UNCHANGED leaf
  BY <1>4 DEF Start, tree
<1>5. ASSUME Acts PROVE UNCHANGED job
  BY <1>5 DEF Acts
<1>6. ASSUME NEW chat, Changes(chat) PROVE UNCHANGED job
  BY <1>6 DEF Changes
<1>7. CASE Exported \/ UNCHANGED vars
  BY <1>7 DEF Exported, vars
<1>8. QED
  BY <1>2, <1>3, <1>4, <1>5, <1>6, <1>7
  DEF Next, JobStep, ContinueThere, EditThere, SwitchThere, ReplyThere, CarryOn, Switch, DeleteTurn, DeleteConv,
      Changing

-----------------------------------------------------------------------------
(* Theorems *)

\* Rows, exports and the job keep a valid shape.
THEOREM ImportTypeCorrect == Spec => []TypeOK
<1>1. ImportInv => TypeOK
  BY DEF ImportInv
<1>2. QED
  BY <1>1, ImportInvHolds, PTL

\* However often a chat is exported and imported, whatever branch it shows then,
\* whatever the user does here meanwhile (UserMeanwhile is any), and wherever the
\* job dies, none of its messages is in a chat twice, and it has one chat: the
\* job's lookup of what was imported before stays complete until its transaction.
THEOREM ImportedOnce == Spec => []NothingTwice
<1>1. ImportInv => NothingTwice
  BY DEF ImportInv, NothingTwice
<1>2. QED
  BY <1>1, ImportInvHolds, PTL

\* A chat deleted here stays deleted, even when it is deleted while it is being
\* imported.
THEOREM DeletedStaysDeleted == Spec => []DeletedStays
<1>1. ImportInv => DeletedStays
  BY DEF ImportInv
<1>2. QED
  BY <1>1, ImportInvHolds, PTL

\* What imports leave are trees whose walks end: parents are older and in the
\* same chat.  It needs the job to be alone with the messages: a turn deleted
\* between its reads and its transaction takes away what the new rows hang on.
THEOREM ImportedTreesHold == ASSUME ~ UserMeanwhile PROVE Spec => []TreesHold
<1>1. TypeOK /\ TreeRows /\ KnownRows => TreesHold
  BY DEF TreeRows
<1>2. QED
  BY <1>1, TreeRowsHold, PTL

\* After each import, whatever was imported, in whatever order, whatever branch
\* was shown there each time, and whatever the user does here meanwhile short of
\* deleting a turn, the exported branch is a branch of the chat: a prompt comes
\* after the same one wherever it was exported, and its reply is final by then.
THEOREM ImportsFollow == Spec => FollowsThere
<1>1. FollowInv /\ FollowInv' /\ [Next]_vars =>
        [\A k \in convs, e \in {job.export} :
           job.at = "apply" /\ job.conv = k /\ job' # job /\ stamp'[k] = e.time /\ ~ pruned
             => CaughtUp(k, e)']_vars
  BY FollowStep
<1>2. QED
  BY <1>1, FollowInvHolds, PTL DEF Spec, FollowsThere

\* An import brings the chat up to its export, and does not take the user from a
\* message written here.
THEOREM ImportsAreWell == ASSUME ~ UserMeanwhile PROVE Spec => ImportsWell
<1>1. ShowsRead /\ [Next]_vars =>
        [\A k \in convs :
           job.at = "apply" /\ job.conv = k /\ leaf[k] \in DOMAIN msgs /\ msgs[leaf[k]].from = 0
             => leaf'[k] = leaf[k] \/ job' = job]_vars
  BY ShowStep
<1>2. Spec => KeepsShowing
  BY <1>1, ShowsReadHolds, PTL DEF Spec, KeepsShowing
<1>3. QED
  BY <1>2, ImportsFollow, PTL DEF ImportsWell

=============================================================================
