# A TLA+ model of pollo-api

pollo-api is a chat studio: a FastAPI server, a SQLite database and a Vue
frontend. A user writes prompts, a reply thread per prompt calls a language
model, and the replies may come with generated images and videos. These modules
model the parts of the server in which several threads and requests meet, TLC
checks them on small instances, and TLAPS proves the theorems listed below for
every value of the constants.

## Inventory

| Component | State | Operations | Who else touches it |
| --- | --- | --- | --- |
| Chat tree (`core/metadata/messages.py`, `chat/routes_turns.py`, `chat/routes.py`, `chat/helpers.py`) | `chat_messages` rows with `parent_id`, `current_leaf_id` of the chat, `_cancel_events` | send, retry, edit, switch branch, delete a turn, delete a chat, fork | reply threads write their row; the restart fails streaming rows |
| Turn engine (`chat/turn.py`, `chat/tools.py`) | one `Turn` per reply: content, cost, media | up to `MAX_TOOL_ROUNDS` model calls, tool calls, title, last write | Stop sets the cancel flag |
| Generated media (`chat/polling.py`, `chat/routes_turns.py`, `media.py`, `core/metadata/library.py`) | `media_json` of a message, `chat_library` rows, cost of the message | generate, regenerate, poll, delete, move to the library | reply thread, regenerate workers, pollers, Media page, restart |
| Conversation lists (`characters.py`, `chat/turn.py`, `chat/routes.py`, `core/metadata/spaces.py`, `characters.py`, `instructions.py`) | the id lists of chats, spaces, groups and the defaults; characters' images and files | attach, create mid-turn, hide, pause, promote, delete, fork | composer, reply thread, character page |
| Media library (`media.py`, `uploads.py`, `chat/routes.py`) | cached list, files on disk, entries that outlive their messages | attach, copy, discard, delete, clear blocked, list, find orphans | every handler that adds, removes or moves a file or drops the list |
| ChatGPT import (`chatgpt_import.py`, `core/metadata/imports.py`) | the upload's part file, the job, import and skip rows | chunks, start, import again | the browser's retries; every operation on the chat while the job runs |
| Sign-in (`api.py`, `users.py`, `dev_login.py`, `user_keys.py`, `core/metadata/users.py`) | log-in attempts in a window, users, sessions, stored provider keys | log in, admit, dev sign-in, set keys, provision | the provisioning command is a process of its own; `PUT /api/keys` reads its user in the thread pool |
| Prompt building (`chat/generation.py`) | none: pure | plan references, window of the history, pixels | the turn engine |
| Frontend (`useStudio.js`, `useMessagePolling.js`, `useGenQueue.js`) | the shown thread, `sending`, the queue | open, send, stop, poll | responses and server events that arrive late |
| Provider clients (`providers/`, `pollo_engine`, `chat/polling.py`) | a job at the provider, temporary files, `_download_urls` | submit, poll, retrieve, download | pollers, the restart |
| Request log, SSE, VPN, network guard | tables | calls | nobody |
| Schema and migrations | the tables | migrate at start | every method runs under one lock |

How they meet. Each method of the metadata manager opens a session under one
lock (`core/metadata/_base.py:156-165`): a method is one atomic step, and a
handler that calls several of them can be interleaved between any two. Each
reply, each regeneration and each video runs in a thread of its own. The server
starts by calling `startup_resume_chat` (`api.py:61`) before it serves.

What is hard here: handlers that check in one call and act in another; threads
that outlive what they work on, because chats, turns and media may be deleted
meanwhile; keys that SQLite hands out again (`INTEGER PRIMARY KEY` without
`AUTOINCREMENT`); lists and costs that are read, changed and written back;
errors that skip the code marking an item as failed; and the restart, after
which nobody works on what was being made. PROJECT.json lists each at its line.

What makes the parts correct:

- the tree: every message reaches its chat's first message through older
  messages, prompts and replies alternate, the shown branch is shown to its end,
  deleting a turn takes exactly that turn from it;
- replies: one that says "streaming" has a thread that will end it, the thread
  writes its own row, and it does end;
- media: a card that renders has exactly one thread that will end it, an item
  follows the life a user expects, a reply never costs more than what was made
  for it; a video that is shown is whole, one that Venice handed over is lost
  only in its move, and a poller that ran out of time had no answer while the
  video was ready. (A ready video may be lost all the same: see "What the models
  made visible".)
- the library: a recorded file is there until someone removes what records it, a
  list is at most `LIST_TTL` behind, and offers nothing as an orphan that is in use;
- lists: what is attached exists, what is sent was attached by someone, an ad-hoc
  character goes with its chat, and a branch has its own copies;
- imports: nothing is imported twice, what was deleted stays deleted, and an
  uploaded export is the browser's, byte for byte;
- accounts: no window has more log-ins than its limit in a run of the server, an address and a provider's
  id have one account each, encrypted keys stay encrypted.

## Modules

**ChatTree** models the tables of messages and chats, the requests on them and
the reply threads. `msgs` is `chat_messages` (key to row), `convs` and `leaf`
are `chat_conversations` and its `current_leaf_id`, `cancelEvents` is
`_cancel_events`, `turns` the reply threads, and `reqs` the handlers that are
between two database calls; `at` in a request names its next call. Adding a
message picks the largest key plus one, as SQLite does. `born` is a history
field that tells apart two rows that had the same key, and so is `orphaned`: a chat
was deleted under its reply since the server was started, which `DeleteConv` allows
as the code does. A handler that meets a
refusal (no such chat, busy, wrong role) changes nothing and is not an action;
where the refusal comes after a first step, it ends the request (`CheckIdle`,
`Read`, `Delete`). `Below`, `Branch`, `Versions`, `KeptNext` and `Doomed` are
the loops of `api_switch_branch`, `_branch_to` and `_chat_exchange_plan`,
written as recursive functions over the finite key range. What a thread does
between `Begin` and `Write` is the turn engine's business; it never touches the
tree.

**MediaItems** models one reply and the media items it may come to have. An
item is in its message's list, in the library (after its turn was deleted) or
gone. `turn` is the reply thread inside `_generate_image` and
`_generate_video`; `workers` are the regenerate workers and the pollers; `reqs`
the handlers of Retry and of the Media page, with the list they read (`snap`).
`try` numbers an item's tries, so that two threads of one item stay two.
A successful generation costs 1 and is counted in `billed`, which is history.

**GeneratedMedia** is the abstract life of an item: none, pending, done, error,
removed, with the fairness that what is pending does not stay pending.
`MediaItems!Lifecycle` and `ProviderJobs!Lifecycle` are its specification under
the mapping `Shown` of each.

**ProviderJobs** looks closer at what MediaItems' pollers wait for: one video,
its job at the provider (`remote`) and the thread that submits and polls
(`poller` is where it is). `kind` is who the provider is, for an answer means
something else with each: OpenRouter and Pollo give a link, Venice's queue gives
the file itself, its private models a link that was given at submission and is
kept in memory (`links` is `_download_urls`); Pollo's images are tasks whose
thread waits. `polls` and `errors` count from the thread's start, towards the
deadline and towards `VIDEO_MAX_POLL_ERRORS`. `temp` and `file` are the copies in
the temporary folder and in the chat's: none, a `.part`, torn or whole. A
crash may fall between any two steps; `startup_resume_chat` is part of `Restart`.
A failed video is not always one that failed: `PolloSays` lets any job be called
failed, for Pollo's client takes every error but a bare HTTP status, and every
answer that makes no sense, for one; `VeniceSays` does, for Venice's takes every
4xx but 429. `found` (this thread had an answer while the video was ready) is
history.

**MediaLibrary** models the Media page over the chats' folders and its own
(`Shelf`). `disk` is what is in each folder, `since` when a file was written or
last removed, `rows` the messages with media, `entries` the table `chat_library`,
`waiting` the composers' attachments, `kept` is `_list_cache`. A picture records
its own file and those it was made from (`refs`); `Uses` is both. `reqs` are the
handlers between two calls: one that sends has looked at its files, one that
deletes has read the messages it will write (`todo`), one that links files for a
branch has made the branch's chat, one that clears what is black goes from file to
file, removing each and then its entry or its row's item (`AskClear`, `ClearFile`,
`ClearEntry`, `ClearRow`, `EndClear`). The handler that lists, `Lister`, reads the
messages, reads the entries, looks at the folders, and keeps the list; `had` is history, what
was recorded when it was asked for (`Lasting` is what of it the list owes). Which
rows a deletion takes is ChatTree's business, so `DeleteExchange` takes any.

**ChatLists** models what is attached where. `items` are the rows of characters,
instructions and groups by key; `lists` the id lists of each chat, each space and
the settings' defaults; `snippets` the groups'; `hidden` and `paused` what a chat
has switched off; `owner` the chat of an ad-hoc character; `images` and `disk` a
character's list of images and its folder. `Effective`, `Cast` and `Sent` are what a
chat inherits, and the characters and snippets it sends. A list takes any character
there is, another chat's ad-hoc ones included, as the server does. `reqs` are the handlers,
and the reply thread's tools, between two calls, with what they read: a tool that
attaches has the list (`Look`, then `Attach`), a delete has the row, then the
folder, then the chats' lists to do (`DeleteRow`, `RemoveFolder`, `DetachAgain`),
a fork copies the chat's own characters one after the other and writes the
branch's list at the end.

**SignIn** models accounts and who gets in. `accounts` is the users table, with
the password as an opaque word, whether it was hashed with older parameters
(`weak`), and the encrypted keys as `blob`: under which secret, and whose keys.
`policy` is the environment the server was started with, which a restart may
change; `cookies` are signed sessions, `attempts` is `_login_attempts`. The
handlers are coroutines and do not yield, so one at a time is in `loop`, between
its calls to the database, where only the provisioning command comes in. `puts`
are the requests about keys whose user has been read and whose handler has yet to
run. The dev sign-in is its three calls (`DevSignIn`, `FindDevUser`, `AddDevUser`),
in a request and at startup, and the command may come in between. `let` (the
log-ins that got as far as the password, which a restart does not undo), `restarts`
(when the server was restarted) and `joined` (the accounts made while nothing was
configured) are history.

**ReplyTurn** models what `Turn.run` does between a thread's start and its last
write, which ChatTree leaves open: the modes, the rounds with the chat model,
the tools of a round one by one, the loop's exits, and the title. `pc` is where
the thread is; `round`, `offer` and `offered` are `round_no`, `offer_tools` and
whether `round_tools` is set; `left` and `results` are the calls of the round
still to run and what the others returned. `titler` is the title's job, whose
thread answers at any time or never. Stop, and renaming, clearing the title of
or deleting the chat, may come between any two steps. `late` and `served` are
history. A tool's inner life is MediaItems'; here it returns one of four results.

**ChatImport** models the import of one ChatGPT chat, again and again. `there` is
the chat in ChatGPT, which grows, is edited and switched; an export is a snapshot
of its shown branch. Here, `msgs`, `convs` and `leaf` are those of ChatTree, and
the module takes ChatTree's operators for them (`Tree == INSTANCE ChatTree WITH
...`): which message is shown, what is below a message, what deleting a turn
does. `job` is the import that runs: `at` is its next database call, `known`
what `get_chat_import_ids` returned, `show` the decision to show what is
imported. A message's `from` is its `import_id`: the prompt's, with the row's
role telling the prompt from its reply. `Slots` are the prompts and replies of a
branch in order, and `ParentOf` is `_Merge.parent` when it gets to a slot.
Texts are version numbers, images are part of them, and replies before the first
prompt are left out. What the user does here is `CarryOn`, `Switch`, `DeleteTurn`
and `DeleteConv`, whole requests of ChatTree as one step each.

**ChunkUpload** models one upload of an export: the browser's loop
(`ImportChatsModal.vue`) and the handlers. `client` is the chunk it sends and
which try it is; `calls` are the requests that were sent and not ended, each with
the step its handler takes next (`at`); a request whose connection broke stays in
`calls` and may reach the server at any later time, as a proxy that buffers
requests delivers it. `file` is what `_write_chunk` writes: its bytes are those
of the export or were never written, so its length and its holes are enough.
`place` is its name, which handlers look up again and again while DELETE removes
it and a rename moves it. A zip's directory is at its end, so the zip check only
finds a hole in the last chunk.

**MCChatTree**, **MCMediaItems**, **MCReplyTurn**, **MCChatImport**,
**MCChunkUpload**, **MCChatLists**, **MCMediaLibrary**, **MCSignIn** and
**MCProviderJobs** give TLC its values and symmetry. **ChatTreeProofs**,
**MediaItemsProofs**, **ThreadProofs**, **ChatImportProofs**,
**ChunkUploadProofs**, **ChatListsProofs**, **MediaLibraryProofs** and
**SignInProofs** hold the proofs; ThreadProofs those of ReplyTurn and of ProviderJobs,
whose names differ so that one module can extend both. In each component module, operators under
a comment that begins "Mutant" are faulty variants of the operator they stand
before; no specification uses them, and each shows that a property is sensitive
to the code it is about.

## Runs

| Run | Instance | Shows |
| --- | --- | --- |
| `chat_serial` | 1 chat, 1 tab, 6 messages | `TreeHolds`: chats stay trees of alternating prompts and replies whose walks end, shown along a whole branch. `RewritesWell`: deleting a turn leaves the rest reading on, switching shows what was asked for, and neither touches a chat whose reply runs, unless a chat was deleted under its own (`orphaned`) |
| `chat_restart` | 2 chats, 1 tab, keys 1..3, 4 messages ever, 1 restart, fair | `NoAbandonedReply`, `ThreadOwnsItsReply`, `ReplyEnds`: what streams has a thread, the thread writes its own row though keys are used again, until a chat was deleted under its reply, and it ends |
| `media_serial` | 2 items, 1 tab, 3 polls, 2 errors in a row, 2 retries, 1 restart, fair | `OneThreadEach`, and `Lifecycle`: the refinement of GeneratedMedia, its liveness included |
| `media_any` | 2 items, 2 tabs, every error, the Media page at any time, 1 restart | `NeverOvercharged` |
| `turn` | 4 rounds (`MAX_TOOL_ROUNDS`), 2 calls in a round, every mode, Stop and renaming at any time, fair | `EveryResultRead`, `StopTakesHold`, `NoSecondHelping`, `EndsTitled` |
| `import` | 2 prompts in ChatGPT, 4 changes, 2 exports, 2 chats and 6 keys here, 1 crash | `NothingTwice`, `DeletedStays`, `TreesHold`, `ImportsWell` |
| `import_gap` | as `import`, one export, one chat | a finding: `DeletesOneTurn` fails |
| `upload` | 5 units in chunks of 2, 3 tries, 1 crash, fair | `WholeFile`, `DoneIsThere`, `UploadEnds` |
| `lists` | 2 chats, 1 space, 2 keys of each kind, 2 pictures, 1 image each, 1 handler, 7 requests | `TypeOK`, `ListsHold`, `NothingUnasked`, `BranchHasCopies`, `ImagesThere`, `ImageLimit` |
| `library` | 2 chats and the library's folder, 1 upload, 1 picture (a black one), 2 messages, a list kept for 1 tick, files new for 2, time to 2, 1 handler besides the one that lists, 5 requests | `TypeOK`, `FilesThere`, `StaleAtMostTTL`, `NothingMissed`, `OrphansUnused` |
| `signin` | 2 accounts, 2 addresses, Google and X, 2 people, 1 password, 2 secrets, keys of 2 providers, 4 environments, 1 tab, 2 client addresses, 1 attempt in 2 ticks, 2 keys remembered, sessions of 1 tick, time to 2, 5 requests and restarts | `WindowHolds` (the limit once for each run of the server in the window), `AccountsDistinct`, `SoleNewcomer`, `NeverDowngraded`, `KeysKept` |
| `jobs` | 1 video or image of any of the five kinds, 4 polls, 2 errors in a row, 2 restarts, fair | `JobsTypeOK`, `DoneIsWhole`, `HandedOverIsKept`, `TimedOutUnseen`, `Lifecycle` |

Several properties are the conjunction of named parts, each with its own comment in
the module: `TreeHolds` is `ParentOlder`, `ParentPresent`, `Alternates` and
`LeafChildless`; `RewritesWell` is `ReadsOn`, `SwitchShowsTarget` and
`RewriteWaits`; `OneThreadEach` is `RenderingHasWorker` and `OneWorker`;
`NothingTwice` is `OneChat` and `OnceEach`; `ImportsWell` is `FollowsThere` and
`KeepsShowing`; `EndsTitled` is `TurnEnds` and `Titled`.

Why the bounds are enough. Six messages give a tree with three turns in a line,
a turn with three replies, and a prompt in three versions with a reply each;
deleting the middle turn of three, with one of two replies shown, needs five.
With keys 1..3 and four messages ever, a deleted key is handed out again, in
the same chat and in the other. Two polls suffice for an error followed by an
answer and for the deadline after an answer; the third lets errors be counted in
a row. Two items are needed because a message's list is written as a whole, and
because one item may be in the library while the other is being made. Two retries
let a second try meet the threads of the first. Four rounds are the code's own
number, and two calls in a round allow every mix of two results and a Stop
between them. Two prompts in ChatGPT suffice for a branch that is edited and
switched back, a reply that comes after its prompt was exported, and a prompt
imported under another one; two exports, imported in any order and as often as
wanted, for the older after the newer one; six keys for the four messages there
and a turn written here. An export of two chunks and a half has a first, a middle
and a shorter last chunk, a write that stops half-way stops inside a chunk, and
with three tries two copies of a chunk may still be on their way when the third
succeeds.

Two keys of each kind are enough for one to be deleted and handed out again while
the other is attached; with seven requests a character can be made in a chat,
attached, given an image, copied by a fork, promoted and deleted, or the chat with it, and its
key used again. A limit of one image is reached by the first. In the library, one
picture made from one upload is all that `Uses` tells apart, two messages let a
file be recorded twice, in one chat or in a chat and its fork, and two ticks let a
file grow old enough to be an orphan and a list out-live what it shows. One
attempt in a window of two ticks has attempts that count, that are about to expire
and that have; four keys with two remembered make the map drop some. The four
environments are two secrets with nothing configured, one of the two in dev mode
and the other open to all, so that a restart may go between any of these; lists of
allowed addresses and administrators are in the module, and in its proofs, but in
no run's environments. One job is enough: jobs share nothing but the restart.

`CHECK_DEADLOCK FALSE`: the models stop when the bounds are used up and no
client asks for anything, and a real server idles too.

### Assumptions, and what happens without them

*One tab, one handler at a time.* This is an assumption about how the studio is used,
not one that the code sees to. The frontend's `sending` keeps a second send, retry or
edit of its tab from starting while one is answered; deleting a chat
(`useStudio.js:596-605`), making media again (510-521), what the composer attaches,
and the Media page are not kept. So in ChatTree, MediaItems and SignIn one tab means
that its requests come one after the other, while threads run beside them; and in
ChatLists and MediaLibrary, where a reply's tools and its pictures are steps of
handlers too, `Serial` keeps also these from coming between a handler's steps.
`Clients`, `Threads`, `Handlers`, `Tabs` and `Serial` lift it. What then fails can be
seen by changing the named run's configuration:

| Change | Fails | What happens |
| --- | --- | --- |
| `chat_serial`, two tabs | `TreeHolds` (`ParentOlder`) | `_start_turn` adds the reply in a second call (`routes_turns.py:142`); the prompt was deleted in between and the reply takes its key: it is its own parent, and `_branch_to` does not return |
| the same | `RewritesWell` (`RewriteWaits`) | a reply starts in the chat between another request's idle check and its rewrite |
| `media_serial`, two tabs | `OneThreadEach` (`OneWorker`) | both requests see the failed item before either resets it (`routes_turns.py:234-239`): it is made, and paid for, twice |
| `lists`, `TwoThreads`, not `Serial` | `ListsHold` | a snippet is deleted between the check of a group's ids and its save; the id dangles, and its key goes to the next snippet |
| the same | `NothingUnasked` | the next snippet with the key is sent |
| the same | `BranchHasCopies` | an ad-hoc character of the old chat is made or attached after the fork read what to copy |
| the same | `ImagesThere` | two uploads go by one read of the character's images; the list of the second lacks the file of the first (`characters.py:300-307`) |
| `library`, two handlers, not `Serial`, 4 requests | `FilesThere` | a message is sent with an attachment between the check that nothing uses it and its removal; or a picture is recorded, or a list of media written back as it was read (`media.py:407-409`), while its file is removed |
| `signin`, two tabs, not `Serial` | `KeysKept` | two requests set a key each, and the second writes the blob without the first's (`user_keys.py:86-97`) |

A tool, or the end of a fork, also writes the list it read over what the composer
attached meanwhile; no property says that it should not. `ImageLimit`,
`StaleAtMostTTL`, `NeverOvercharged` and `NoAbandonedReply` hold without the
assumption and are proved so. `NothingMissed` and `OrphansUnused` hold without it as
far as TLC looked; the proof of the first uses it.

*A chat that is deleted under its reply* is in the models: `DeleteConv` asks for
nothing, as `routes.py:521-525` asks for nothing. The deleted reply's key then goes to
the next reply of any chat, to which the old thread writes, and which it marks done
while its own thread still runs. `ThreadOwnsItsReply` and `RewriteWaits` say what
holds until that has happened (`orphaned`, which a restart ends, for it ends the
threads): without that exception both fail, the first in `chat_restart`, the second in
`chat_serial` with two chats.

*No medium is deleted while something is made, and the server does not die inside a
handler.* `DeleteWhileBusy` and `MaxRestarts` lift this:

| Change | Fails | What happens |
| --- | --- | --- |
| `chat_serial`, one restart | `RewritesWell` (`ReadsOn`) | a crash between the prompt's and the reply's insert leaves a prompt alone; the next prompt hangs on it and is taken for its reply |
| `media_serial`, `DeleteWhileBusy` | `OneThreadEach` (`RenderingHasWorker`) | `api_delete_media` writes the message's list back as it was read, over an item that finished meanwhile |

*Only errors the handlers catch.* `_generate_image` and `_generate_video` mark an item
failed for an `OpenRouterError`, and `_connection_guard` converts three of httpx's
errors. A time-out or a refused connection to OpenRouter, or an image that cannot
be written, ends the reply and leaves the card rendering until the next restart:
`media_serial` with `OtherErrors`, one item is enough, violates `OneThreadEach`.

*A reply's cost may be less than what was made.* A video that is done while its
reply still runs has its cost added to the message; `Turn.run`'s last write then
sets the cost to the thread's own total, without it. `CostIncludesMedia`, in no
run, fails under `media_serial`; `NeverOvercharged` is what does hold.

*Nobody changes an imported chat while its import runs.* `UserMeanwhile` lifts
this. `NothingTwice` and `DeletedStays` hold all the same (and are proved
so); `TreesHold` does not, because what the job read is old by the time it writes:
a new message may hang on one that was deleted. Nor does `ImportsWell`: whether to
show what is imported is decided before the images are copied, and a chat carried
on meanwhile is switched away from the user's message (`KeepsShowing`). Its other half,
`FollowsThere`, holds all the same (and is proved so).

*Two copies of a chunk are not written at the same time.* Nothing in the code
keeps a late request out while another is in `_write_chunk`; `Overlap` lifts this.
`WholeFile` fails then: a late copy of an earlier chunk truncates the file between
another request's look at its size and its own truncate
(`chatgpt_import.py:548-552`), which fills the gap with zeros; the zip check does
not read there. `DoneIsThere` does not need the assumption (and is proved without
it). What `UploadEnds` does not say is that the upload succeeds: when the answer to
the last chunk is lost, the retry finds no upload and the browser says "Upload
failed" of an export that is in the folder.

*A chat's own pictures are not attached to its next prompt by their own name.* With
`Reattach` they are: the same file is then a generated picture's and an
attachment's, the library's deletions take it from one of the two, and `FilesThere`
fails of the other.

An import also lifts what ChatTree relies on. An exported branch may have a
prompt after a prompt, so `Alternates` does not hold of imported trees, nor does
`LeafChildless` (a prompt without reply is imported and carried on here; a later
export adds its reply; deleting the local turn leaves the leaf on the prompt).
`FollowsThere` is about chats no turn was deleted from: importing again brings a
deleted turn back, as a branch of its own.

### Findings

- `import_gap`. `_chat_exchange_plan` takes every child of the turn's prompts for a
  reply. An imported prompt without a reply has the next prompt as its child, and
  deleting its turn deletes that prompt, and its replies, too.

### What the models made visible

These are consequences of the code as it is, each of which a definition above
carries; no property says that they should be otherwise.

- Venice's private models: the link, and the quoted price, are in memory only. After
  a restart a completed video is reported as running until the deadline, and one
  that completes costs nothing that is known. `TimedOutUnseen` names the exception.
- The download is tried once (`polling.py:49-53`): unlike the polls, it has no
  error budget, and a ready video ends in an error with it. A crash between the move
  of the file and its record leaves the file; the next poller finds nothing in the
  temporary folder and asks again, which for a video that Venice handed over is in vain.
- Venice's answers of 4xx, 429 apart, are taken for a failed video
  (`venice.py:868-873`): a key that was revoked or has no credit left ends one that is
  being rendered. So does an error in Pollo's answer: `_task_state` says that HTTP trouble
  is transient (`pollo.py:371-372`), but only a bare status is, for an HTTP error that
  comes with a message is raised as a failure (`get_task.py:26-28,50-58`).
- An import that dies between making its chat and giving it its `import_id`
  (`chatgpt_import.py:342-348`) leaves a chat without one, and the next import makes
  another. `NothingTwice` is about chats that have one.
- A list that takes longer than `LIST_TTL` to build is still answered with by the
  request that built it (`media.py:318-328`); `StaleAtMostTTL` is about what is served
  from the cache.
- The log-in throttle is in memory (`api.py:167`): a restart lets the limit through
  once more, which `WindowHolds` counts.
- A chat's paused snippets and hidden defaults are not cleared of what is deleted
  (`_detach_id`): when the key is handed out again, what has it starts paused, or hidden.
- A list takes any character that is there (`routes.py:145,203-205,500-501`): an ad-hoc
  one may be in the defaults, in a space or in another chat, and goes from there when its
  chat is deleted.
- A submission whose answer is lost leaves a job that is rendered, billed, and
  tracked by nobody. Pollo's image tasks run on after a restart that marks
  their card "interrupted".
- The module comment of `media.py` (10-11) has the folders of gone chats among the
  orphans; `_chat_orphans` looks at those of chats there are. A fork's links have
  the age of their files, and what is uploaded again the age it had: the grace
  for new files does not cover them.
- With `ALLOWED_EMAILS` set and no administrators, whoever comes first to an empty
  database counts as one, and is admitted though not on the list (`users.py:54-59`).
- X's handles keep their capitals in the users table (`core/metadata/users.py:42`), while
  the command lower-cases the address it is given: the two are two accounts.
- Keys stored under another secret are read as none, and the next request about
  one key writes the blob without them.
- A log-in that rehashes a password writes it over one that the command set after the
  log-in read the account (`api.py:246-254`). `PasswordStays` says so, and needs a
  second password to fail.

## Fairness

`ChatTree`: weak fairness of each handler and of each reply thread. A handler
runs to its end once started, and the only waits of a thread are calls to the
providers, which have timeouts; a cancelled thread ends early, at the same last
write. Clients owe nothing, nor does a restart happen. `MediaItems`: weak fairness of the
reply thread and, per item, of its workers. The pollers' loop is bounded by a
deadline (`MaxPolls` stands for it) and by `VIDEO_MAX_POLL_ERRORS`. That the
reply thread makes finitely many items is the finiteness of `Items`; in the code
it is `MAX_TOOL_ROUNDS`. `ReplyTurn`: weak fairness of the reply's thread. Nothing
is owed by the title's thread, and `TurnEnds` holds because `_finish_title` waits
for it at most `TITLE_WAIT_SECONDS`; a tool returns because its calls have
timeouts.

`ChunkUpload`: weak fairness of the browser's sending (its timer fires) and of a
broken connection being noticed, which nginx's `proxy_read_timeout` and the
browser's own errors see to. Nothing is owed by the server or the network.

`ProviderJobs`: weak fairness of each job's thread. It sleeps between polls and every
request it makes is answered or times out; the deadline bounds the loop. Nothing is
owed by the provider, which may never finish the video.

`ChatLists`, `MediaLibrary` and `SignIn` state safety only: nothing in them has to
happen.

`ReplyTurn` takes one thing from the provider: a model calls tools only in a
round that offers them. The code runs what it is sent; a model that called tools
in the last round would have them run and never see the results.

## Proofs

`ChatTreeProofs`, the first two from the assumptions on the bounds and nothing else:

- `TypeCorrect`: `Spec => []TypeOK`. `TypeOK` is inductive: besides the shapes
  it says that a request at "launch" names a key and a serial, without which
  `Launch` could not be typed.
- `NoReplyAbandoned`: `Spec => []NoAbandonedReply`, for any number of tabs and
  chats, deletions mid-reply and restarts. It is inductive together with
  `TypeOK`: a row becomes streaming only in `AddReply`, which leaves its request
  at "launch"; `Launch` hands over to a thread; only `Write` takes a thread from
  those that will still write, and it ends the row with that key, whichever
  reply that is now; `Restart` ends all. The lemma `KeepsRunning` carries the
  witness through the steps that leave requests at "launch" and threads alone.
- `ThreadsOwnTheirReplies`: `Spec => []ThreadOwnsItsReply`, from one tab. The
  inductive invariant (`Owned`) is that a chat was deleted under its reply, or `OwnInv`,
  which says that one request is under way at a time, that each thread that will still write
  has a streaming row to itself, that a reply about to be launched has no thread
  yet, and that a chat found idle stays idle until the deletion.
- `TreesHold`: `Spec => []TreeHolds`, from one tab and no restart (`Undisturbed`: a
  restart between a prompt and its reply leaves a prompt without one, and the next prompt
  hangs on it). The inductive invariant `TreeInv` adds to `TreeHolds` that a chat's
  recorded leaf ends a branch of the chat (`LeafHolds`), that a prompt has an answer
  or its request is about to add it (`Answered`; it is why the shown leaf is a reply, and
  why the turn that is deleted leaves no prompt bare), that what a handler read of the
  tree is still so when it acts on it (`Remembers`), and that messages are of chats that
  are there (`Housed`). What the walks over the tree compute is proved for any
  `MaxMessages`: that a recursive function is what its steps say (`Steps`) comes from the
  longest prefix that is, and what it finds from a least or greatest counterexample
  (`Least`, `Greatest`). `GrownIs`, `BelowIs` and `BranchIs` then say what the
  walks find, without recursion: everything that grows from a set of messages, everything
  below a message, the messages from one up to the first. `DoomedIs`, `KeptStays` and
  `LeafGoes` say what deleting a turn takes and what stays.
- `RewritingIsWell`: `Spec => RewritesWell`, from the same. The invariant (`HistoryInv`)
  joins `TreeInv` and, until a chat was deleted under its reply, `OwnInv`, and adds that threads answer in
  their own chat (`ThreadsHome`), that a chat found idle stays so until it is rewritten
  (`StaysIdle`), and that what is about to be shown is on a branch through the message
  asked for (`ShowsAsked`). That the shown branch loses the turn and nothing else
  (`PrunedBranch`) compares the branch before with the branch after from the greatest
  message on which they differ.

`MediaItemsProofs`, the first two from the assumptions on the bounds and nothing else:

- `MediaTypeCorrect`: `Spec => []TypeOK`. The thread's item is one of `Items`
  while it makes it, which `TypeOK` says because `TurnAddsImage` needs it.
- `ReplyNeverOvercharged`: `_add_message_cost` reads the cost in one call and
  writes it in another, so adding may lose money but never makes any. The
  inductive invariant, `ChargesCovered`, counts the threads that were billed and
  have not added their charge yet (`Due`, the cardinality of a finite set): the
  row's cost, the turn's own total and every cost a thread has read are each at
  most what was billed minus what is due. `NothingNewDue` and `OneMoreDue` say
  what steps do to that count.
- `EachHasOneThread`: any number of tabs, every error and deletion at any time, but a
  premise about what happened: a retry's reset finds its item still failed, and a
  deletion's list is still the message's when it is written back
  (`[][AsItWasRead]_vars`). These two checks made in one call and relied on in another
  are the only places where nothing in the code keeps others out. Then no item has two
  threads and every video that was submitted has one, and `OneThreadEach` holds unless
  `OtherErrors` let an error pass the reply by. The invariant, `MediaInv`, says of the
  threads and their items (`Threads`), besides `OneWorker`, that what renders has a thread or
  was left by such an error before it had a job (`Attended`), that what a thread makes was
  put up before and has no outcome yet (`InTheMaking`), and that what moved to the library
  while it rendered had its job (`LibraryHasJob`).
- `MediaAreGenerated`: from the same premise, every step is a step of GeneratedMedia or
  shows nothing of it, which is
  the safety part of `Lifecycle`. The proof goes step by step (`StepShows`): a step either
  leaves what an item shows as it was (`SameItemShows`) or is the abstract step of the
  one item that it changes.

`ThreadProofs`, of a reply's thread, for every number of rounds and of calls in a round:

- `TurnTypeCorrect`, `ResultsAreRead`, `StopHolds`, `MediaMadeOnce`: `TypeOK`,
  `EveryResultRead`, `StopTakesHold` and `NoSecondHelping`. The inductive
  invariant `TurnInv` adds where the thread is to each of them: tools only run
  in a round that is not the last (`RoundsLeft`), so the loop always ends in a
  round without tools, with everything read (`NothingUnread`); where the thread
  still decides what to begin, nothing was begun after Stop (`LateOnce`); and
  once the media was made no round offers tools (`ServedOnce`).
- `TitleIsGiven`: `Titled`, from the steps alone: only `GiveTitle`, and a check that found
  a title, lead to the last write.

And of the threads that submit and poll, for any jobs, budgets, deadlines and restarts:

- `JobsTypeCorrect` and `ShownIsWhole`: `JobsTypeOK` and `DoneIsWhole`. The inductive
  invariant `JobsInv` says of each job (`JobOK`) that the temporary file is a `.part` or
  whole when it is looked for, that the chat's file is whole before it is recorded, and
  that what is done has no thread that writes to it any more (`WholeFirst`).
- `HandedOverStays` and `TimesOutUnseen`: `HandedOverIsKept` and `TimedOutUnseen`.
  `Handed` says that a thread never waits to its deadline, nor retrieves, with Venice's
  file in the temporary folder, but for one that a restart has started again, which
  has its polls before it; `GivenUpIsLeft` that what was given up has no thread.
  `SeenReady` says that a thread which had an answer while its video was ready waits no
  more, unless the link was lost in a restart (`LinkLost`).
- `JobsAreGenerated`: `JobsSpec => Abstract!Spec`, with no assumption: a job's thread
  leaves its item alone or ends it (`RunsEnd`), which is one abstract step or none.

`ChatImportProofs`, for chats and branches of any length, any number of exports,
imports and restarts, and, but for two, whether or not the user acts while an import
runs:

- `ImportTypeCorrect`, `ImportedOnce`, `DeletedStaysDeleted`: `TypeOK`,
  `NothingTwice` and `DeletedStays`. The inductive invariant
  `ImportInv` adds why the job may rely on what it read. A job about to make a
  chat found none with the `import_id`, and none can appear or be deleted
  meanwhile (`FreshJob`). What it knows of the chat's imported messages stays
  complete until it writes (`KnownAll`): only a job adds such messages, and a new
  chat has none (`RowsOpened`). No prompt is on a branch twice (`BranchesOnce`),
  so the new rows differ from each other. `Kept` says what all other steps do to
  the messages; `MergeRows` what the transaction does.
- `ImportedTreesHold`: `Spec => []TreesHold`, from `~ UserMeanwhile`. The invariant
  (`TreeRows`) adds that messages are of chats that are there and that a recorded leaf is
  of its chat; and it needs that what the job knows is still in the table when it writes
  (`KnownRows`), which a turn deleted meanwhile breaks. New rows have the keys after the
  largest, in the order of the slots (`RankFacts`), and hang on an earlier slot's row
  (`ParentBefore`). That `DeleteTurn` leaves trees rests on what the walks of ChatTree
  compute, proved again for the operators of the instance `Tree` (`GrownIs`, `BelowIs`,
  `DoomedIs`, `KeptStays`): the prover cannot cite a theorem of a module that is
  instantiated.
- `ImportsFollow`: `Spec => FollowsThere`, with no assumption. It says why importing any
  export, in any order, is right. In ChatGPT, now and in every export, a prompt comes
  after the same one (`OneTree`), and a prompt that another came after is never again the
  last of a branch (`TipsAreLast`), so its reply is final (`RepliesStay`). So
  a row imported for such a prompt hangs on its reply's row, or on the
  prompt's own and then no export will ever have a reply (`HangsOn`); `RowsFollow` says so
  of all imported rows, and a merge keeps it (`ApplyFollows`). `FollowInOrder` derives
  `CaughtUp` from it. A stamp changes in the job's own transaction alone (`FreshStamp`), so
  no other step passes for an import. The invariant, `FollowInv`, says all this as
  long as no turn was deleted here.
- `ImportsAreWell`: `Spec => ImportsWell`, from `~ UserMeanwhile`: when the job is to show
  what it imported, its chat shows no message written here (`ShowsRead`).

`ChunkUploadProofs`, for exports and chunks of any size and any number of tries
and crashes:

- `UploadTypeCorrect` and `DoneMeansThere`: `TypeOK` and `DoneIsThere`; and
  `WholeWhenThere`, which is `WholeFile` from `~ Overlap`, and so says no more than that
  two copies writing at once are the only way to a file that is not the browser's. The inductive invariant `UploadInv` adds
  that one request writes at a time (`OneWrites`), that the part has no holes and
  ends where the request that writes it left it (`PartGrows`), and that a request
  past the zip check is the last chunk's (`Renamed`).

`ChatListsProofs`, for any number of chats, cards, spaces, pictures and threads:

- `ListsTypeCorrect` and `LimitHolds`: `TypeOK` and `ImageLimit`, whatever runs at once.
  The invariant of the second says of what an upload read what it says of what is
  stored, that it is within the limit (`Requested`), and that the writer adds to what
  it read and to nothing newer: two uploads at the limit may lose a picture, and never
  exceed it.
- `ListsAreHeld`: `ListsHold`, from `Serial`. It is said of the rows at rest and does not
  hold between the calls of a handler, so the inductive invariant (`SerialInv`) also
  says what each handler has read and done by then: a list about to be saved names
  cards that are there (`Attaches`); a branch's list names rows, and what in it is
  the old chat's own is still to be copied (`Copies`); a deleted card has no row, its folder
  is the one that may still hold files, and a chat goes after all its cards (`Deletes`);
  an upload or a removal goes by the images the card has (`Pictured`). `Settled(t)` says
  all this of the one thread that is under way, and `OneAtATime` that there is one. That
  ids are handed out anew rests on the least free
  number existing (`Least`, by well-founded induction), and on a key that is reused
  finding neither a list that names it nor a folder (`NextIdNew`).
- `NothingIsSentUnasked`: `NothingUnasked`, from `Serial`. What a chat uses are rows
  (`EffectiveThere`, for which its space must be one that is there, `Filed`), and a
  key that is handed out is that of none; so nothing new comes into what is sent but through
  a list, a group, the space or a switch.
- `BranchesHaveCopies`: `BranchHasCopies`, from `Serial` and `Copies`.
- `ImagesAreThere` is `ImagesThere` with `Serial`, and so says no more than that a card's
  row and its folder, removed and made in separate calls, agree when nobody else
  comes in between; two uploads at once are what breaks it.

`MediaLibraryProofs`, for any folders, files, clocks and handlers:

- `LibraryTypeCorrect`: `TypeOK`, with the shapes of what is in flight.
- `StaleBounded`: `StaleAtMostTTL`, whatever runs beside the list. The invariant
  (`ListInv`) follows what was seen: once the folders were looked at, each thing in
  the list is there or went no earlier than the list's time (`Seen`); `Ages` says what
  every change of the folders does to these times. The list's time is that of its
  first read, which is why the age of what it shows is bounded at all. That each file comes from the oldest
  message that has it needs a minimum of a finite set (`Oldest`).
- `FilesAreThere`: `FilesThere`, from `Serial` and `~ Reattach` (`Orderly`). The invariant
  `ThereInv` has three parts. `Tables`: within a chat a picture is in one row or in one
  entry, uploads are in no entry, and all are of chats that are there; this is why
  taking an item from one place takes it from everywhere. `InHand`: what a request is
  about to record is on disk and shown by nothing yet, and what it is about to remove is
  shown by nothing any more, or only by rows it is about to write. `FilesHeld`: every
  item's file is there, but for those that a clearing has found and not yet taken from
  their entry or row, for it removes each file first, call by call.
- `NothingIsMissed`: `NothingMissed`, from the same. The invariant (`ListWhole`) says of
  each pair of chat and file that the list was asked about and will not have (`Overlooked`)
  that it is a picture that moved to the entries before the list was asked for, whose
  entry is gone, and that no row shows it (`Settled`); and that what is about to be
  recorded is younger than the list or in a chat that was not there (`Newer`). That a file
  as old was there before each step is `OldFiles`; how a row comes to show a picture,
  `NewlyShown`. That nothing in use is offered as an orphan (`OrphansUnused`) is only
  model-checked.

`SignInProofs`, for any environments, accounts, limits and clocks:

- `SignInTypeCorrect`, `LoginWindowHolds`, `AccountsStayDistinct`, `OneNewcomer`,
  `KeysStayEncrypted`: `TypeOK`, `WindowHolds`, `AccountsDistinct`, `SoleNewcomer`
  and `NeverDowngraded`. The invariant `SignInInv` adds that what was let through
  since the last restart is remembered as long as it counts (`Remembered`: a key is
  dropped from the map only when all its attempts are out of the window); that
  what a window holds from before its last restart is at most the limit for each
  restart in it, and what it holds since at most the limit (`Counted`, over the halves
  `Before` and `After`; a restart turns the second into part of the first,
  `CountedRestart`, and `WindowCounts` adds them up), for which log-ins and restarts
  must be in one order of counts and times (`Past`); that requests name accounts
  there are (`Known`); and that a handler which admits while nothing is configured
  does so when nobody has joined yet (`Newcomer`). The lemma `AccountsStep`
  says that a step changes one account at most, and which.
- `KeysAreKept`: `KeysKept`, from `Serial`. The keys a request read are the keys
  stored until it writes (`ReadNow`), so that a write changes one key
  (`OneKeyChanges`).

The type invariants of ChatTree, MediaItems, ReplyTurn, ChatImport, ChunkUpload and
SignIn are proved, and are in no run.

Only model-checked: `OrphansUnused`, `ReplyEnds`, `UploadEnds`, the `TurnEnds` half of `EndsTitled`, and
the liveness part of both `Lifecycle`s. Fairness and ENABLED are out of the prover's
reach.

## Not modelled

- *Frontend*. `useStudio.js` may show a thread that was opened earlier, when its
  response is late (241-270), and gives streamed events to whichever thread is shown
  (301-447); `useMessagePolling.js:28` and `useGenQueue.js:56` poll and overwrite.
  The server's models take the browser's requests in any order instead.
- *A fork's rows*. ChatLists has what the branch's lists hold and MediaLibrary its
  files; the copied messages' parents and statuses are left out. A reply that begins
  after the idle check is copied as streaming (`routes.py:411`) and stays so until the
  next start.
- *Prompt building* (`chat/generation.py`) and finding characters' names in a text:
  pure functions on strings and images, with no state, tested by examples.
- *Rest of the provider clients*: the chat's stream, the tables of models and prices,
  image hosting, and the catalogue, whose one cache is filled with whichever user's
  key comes first (`catalogue.py:17`).
- *Media*: thumbnails (two workers may share one `.part`, `media.py:161-164`), pins,
  favourites, posters, Pollo's credits; a second handler that lists.
- *Sign-in*: hashing, the OAuth exchange, and what one tenant sees of another's data,
  which is a filter in every query. The order of an id list, and texts, models and
  settings everywhere.
- *Turn*: a rename between the two adjacent calls with which `_finish_title` checks and
  sets the title (`turn.py:658-661`; it is `CheckTitle` and `GiveTitle` in ReplyTurn, and
  the user's title may be lost there); a Stop that reaches `api_cancel_message` after the
  flag was removed, which does nothing.
- *Upload*: unfinished parts, which are cleared after a day, and the choice of a free
  name for the export (two uploads of one name may choose the same).
- *Request log, SSE framing, VPN status, network guard, schema and migrations*: pure
  I/O, tables, or run before the server serves.

What would come next: the studio's late responses; the fork's rows in ChatTree.
