# light-discord in TLA+

A verification project for light-discord: a chat and voice server (tokio, PostgreSQL or in-memory
storage), a desktop client (egui) and the crates they share. The modules here model the code under
`src/crates`; TLC checks them on small instances and TLAPS proves their safety properties for every
value of the constants. `PROJECT.json` maps each definition to the lines it models.

All paths below are relative to `src/crates/light-discord-`, for example `server/src/main.rs` is
`src/crates/light-discord-server/src/main.rs`.

## The system

| part | state | operations | talks to |
|---|---|---|---|
| connection hub (`server/src/main.rs`) | `InnerState`: users, voice_rooms, voice_addrs, screen_shares behind one `RwLock` | register/disconnect, join/leave voice, start/stop/relay a screen share, broadcasts | one task and one unbounded channel per connection; storage |
| message store (`storage/src/lib.rs`) | messages, audit_log (tables, or maps behind a lock) | save, recent, soft delete, purge, read the log | handlers, the hourly retention task |
| accounts (`storage/src/lib.rs`, `authenticate_first_frame`, `bootstrap_auth`) | users, members, invite_codes, sessions | register with invite, login, resume, hello, create invite, bootstrap | first frame of a connection, start of the server |
| voice relay (`run_voice_relay`) | learned UDP addresses (in the hub) | learn the source, forward to the room | UDP only |
| voice worker (`client/src/voice.rs`) | sequence counter, one jitter buffer and decoder per remote user, mute/deafen flags | capture-encode-send, heartbeat, receive, drain | audio backend, relay |
| jitter buffer (`platform/src/voice.rs`) | pending packets, next_expected, primed | push, pop | voice worker |
| client session (`client/src/net.rs`, `client/src/app.rs`) | window state, network thread, command channel | connect, disconnect, fold of server frames | server over TCP, one JSON object per line |
| screen-share worker (`client/src/screen_share.rs`) | stop flag, event queue | capture, encode, stop | client session |
| token store (`platform/src/session_token.rs`) | keyring entry, fallback file | load, save, delete | client session |
| audio backend, screen capture, signal processing (`platform/src`) | device streams, playback queue | start, stop, mix, resample | voice worker, screen-share worker |

What is hard here:

* **Concurrency in the server.** A handler takes the lock several times and works with what it read
  before: broadcasts collect, target and send in three steps, `start_screen_share` checks in one
  section and inserts in another, and several connections may belong to one account.
* **Failure between statements.** `PostgresStorage` uses no transaction: registration is five
  statements, a deletion three, retention two, bootstrap three, and each can fail or be the last one
  before the server stops.
* **Unreliable delivery.** Voice is UDP: loss, repetition, reordering, and counters that start anew.
* **Ordering at the client.** History and live messages, share frames and stops, user lists.
* **Shared stores outside the program.** Client processes share a keyring that may stop to answer and files
  that are truncated before they are written.
* **Threads of the client.** The window, a network thread per connection and a capture thread per share
  only talk over channels and flags, and each learns in its own way, and at its own time, that a
  connection or a share is over.

## Modules

| module | models | lines |
|---|---|---|
| `Hub` | the connection hub | `server/src/main.rs` 56-197, 384-747, 794-982; fold of frames `client/src/app.rs` 443-568 |
| `Chat` | delivery of messages and histories, the list each client shows | `server/src/main.rs` 111-311, 794-895; `storage/src/lib.rs` 291-326, 527-564, 622-637, 936-965; `client/src/app.rs` 227-231, 437-457, 691-702 |
| `MessageStore` | what the storage promises about messages: `MemoryStorage`, atomic | `storage/src/lib.rs` 285-326, 514-601 |
| `PgMessages` | the same operations of `PostgresStorage`, statement by statement; refines `MessageStore` | `storage/src/lib.rs` 914-1065, `server/src/main.rs` 267-311, 1171-1179 |
| `AccountStore` | what the storage promises about accounts, invites and sessions: `MemoryStorage`, atomic | `storage/src/lib.rs` 285-512, `server/src/main.rs` 984-1137 |
| `PgAccounts` | bootstrap and authentication against `PostgresStorage`, statement by statement; refines `AccountStore` | `storage/src/lib.rs` 639-912, `server/src/main.rs` 313-344, 984-1137 |
| `VoiceRelay` | joining the room, learned addresses, forwarding, ports of the workers | `server/src/main.rs` 56-139, 384-457, 794-907, 1154-1169; `client/src/voice.rs` 313-375; `client/src/app.rs` 247-305 |
| `VoiceWorker` | the loop of the voice worker between microphone, socket and output device | `client/src/voice.rs` 42-92, 219-422, `platform/src/voice.rs` 108-162, 308-321, `platform/src/audio.rs` 366-549 |
| `JitterBuffer` | `push` and `pop` of one buffer | `platform/src/voice.rs` 195-306 |
| `VoiceStream` | speaker, network and listener around a `JitterBuffer` | `client/src/voice.rs` 188-514 |
| `ClientSession` | the window, its network threads and the handlers behind them | `client/src/net.rs` 18-142, `client/src/app.rs` 46-190, 247-314, 408-568 |
| `ScreenShareSession` | the client's own shares: window, capture threads, command queue, server's entry | `client/src/screen_share.rs` 75-189, `client/src/app.rs` 348-406, `server/src/main.rs` 540-640 |
| `TokenStore` | session tokens in the keyring and in files, call by call | `platform/src/session_token.rs` 15-63, 127-168, `client/src/app.rs` 89-188, 408-428, 575-668 |
| `*_proofs` | theorems about the module of that name; `VoiceStream_proofs` also about `JitterBuffer` and `VoiceRelay`, `ClientSession_proofs` about `ScreenShareSession` | |
| `MC*` | instances for TLC: constants, symmetry | |

The exact lines of every definition are in the `map` of `PROJECT.json`.

Definitions named `X_Something` are mutants of `X`: the form the code would have with a plausible
bug. They are used by no specification; each property is known to fail when one of them replaces `X`.

### Hub

One action per lock section or per channel send. `phase[c]` is where the task of connection `c` is,
`owner[c]` the user it authenticated as, `todo[c]` the broadcasts its handler has still to do: a list
of `userList`, `voiceStates` (the rooms to announce), `cast` (a frame whose targets are not collected
yet) and `send` (a frame and the channels it still goes to). A handler's action changes the shared
maps and leaves its broadcasts in `todo`; `SnapshotUsers`, `SnapshotRoom`, `CollectTargets` and
`SendOne` work them off one section at a time, and a task reads its next frame only when `todo` is
empty. A channel is FIFO, so a queued frame is folded at once into `view[c]`, what the client will
show after it: the shares it shows (lists of users and of room members are broadcast by the same steps, and no
property reads them). `RememberVoiceAddr` is the relay's insertion. `ReadError` is the `?` on `next_line`: the task ends, the shared maps stay.

Names, dimensions and codecs are left out: a share is the fact that it is there. A request whose
fields are refused (an empty source name, a bad size) is answered with an `Error` frame and changes
nothing. Chat has a module of its own. `users[u]` is the connection whose channel is stored.

### Chat

Messages are numbered by `unix_ms`. A request leaves its storage call in `todo`, and the call leaves what it
has to send: `reply` is one `send_to` of a history, `cast` a broadcast whose channels are not collected yet,
`send` one that still goes to some. `Save`, `Delete` and `LoadHistory` are the storage calls, with the outcomes
either storage has: with PostgreSQL each may fail, and a deletion may fail after its UPDATE (`silent`: gone
from every later history, announced to nobody). `Recent` is where the two storages differ once there are more
messages than the limit. `Shown` is the client's fold. Two history variables name what the code does not
promise: `crossed`, the messages of which a frame overtook another one or a history, and `outside`, what the
last history left out.

### MessageStore and PgMessages

A message is `unsent`, `visible`, `deleted` or `purged`; `deletedBy`, `audit`, and the two sets of
what lies beyond the cutoffs (`expired`, `oldEntries`) grow as time passes. `MessageStore` is only
instantiated by `PgMessages`. In `PgMessages` a task
runs SELECT, UPDATE, INSERT (`pc`), retention deletes table by table (`purging`), a statement fails
with or without effect, and the server restarts. The refinement takes the UPDATE as the moment of the
deletion and counts the entry a task is about to insert as written; `ImplementsPromise` asks it of
every step until the first fault (`faults' = 0`), since a fault between UPDATE and INSERT breaks it.

### AccountStore and PgAccounts

Rows are sets of user ids, `name` holds the unique column. `boot` is where `main` is,
`pc` which statement a connection's authentication runs next. A wrong password is one outcome of
`FindByName`, an unknown token one of `ValidateSession`. Not modelled: `disabled_at`,
`revoked_at` (no code sets them), `last_seen`, role names.

`AccountStore` is the same of `MemoryStorage`: an operation is one section of its lock, `at` is the call a
connection is about to make, and a registration checks its code and its name, creates the account and uses the
code up in one step. It is only instantiated by `PgAccounts`. In the refinement an operation takes effect with the
row it inserts: from there its remaining statements are stutters (`Stage`), and the code of a registration counts as
consumed by that row (`Consumer`), although `invite_codes` says so two statements later. That is true of the code
until a statement fails or the server stops, and until a row is inserted with a code that another registration has
consumed, or inserted its row with, since the check; the history variable `raced` has those codes.
`KeepsAccountPromise` asks the promise of every step before either (`faults' = 0 /\ raced' = {}`). Guests are the
one place where the storages differ without a failure: `MemoryStorage` accepts a second guest of the name of an
account, and leaves guests out of `display_name_index`; in PostgreSQL the unique index refuses the name, and holds
guests too. `Greet` and `Refuse` of `AccountStore` allow both.

### VoiceRelay

The room is `members`; `phase[c]`, `requests[c]` and `current[u]` are a connection seen from the server, its
unread frames, and the connection a client uses, so that a user can be back before `DisconnectUser` of the older
connection has run, by user id (`displaced`). `uplink` is a set: datagrams overtake one another, and one that is
never received is lost. The relay task takes one datagram (`Receive` learns its address), looks its targets up
(`Route`) and sends to one after the other (`Arrive`, `Vanish`). A worker binds any port nobody holds, so an
address the relay still knows may be another user's. `RelayEnds` is the `?` on `recv_from`.

### VoiceWorker

Five parties: the loop (`pc`: capture, frames, send, receive, drain), the callback of the input device, the thread
that feeds the playback queue, the callback of the output device, and the buttons. Samples are numbers, so that
losing or repeating one is visible; a frame is loud, in the middle or low against the two thresholds of the gate.
`Process` gates a frame and drops it when muted or gated; `SendAudio` follows after a gap in which the button may
be pressed. `Feed` prepares a frame for the device and applies the cap, `Play` takes one period. One module serves
two runs, with the constants of one side made empty: the sides meet only in `deafened`, which mutes, and in `pc`.

### TokenStore

`keyring` and `file` are the two stores by address, shared by the processes; `answering` says whether the keyring
does. `busy[p]` is the call a process is in: a save that fell back to the file goes through create-and-truncate,
write and `set_permissions`; a removal in between takes the name from a file that is open (`linked`). `Welcome`
saves under `addr[p]`, the text field, while the token is of `network[p]`. `newest`, `last` and `strayed` are
history: what the last save or forget of an address left, provided no other process was at the same address
meanwhile, whether the keyring answered it, and the tokens that arrived after the field was edited.

### JitterBuffer and VoiceStream

`pending` is a function from sequence numbers to payloads; `out` and `accepted` are histories that
the properties use and no guard reads. `VoiceStream` extends the module: payloads are datagrams that
know their session and number, `sent` is everything the relay was given, and `Receive` takes any of
it, in any order, any number of times. `Drain` pops until the buffer is empty or a frame does not
decode, like the `while let` of the worker; `failures` counts the latter, because each leaves a batch
of backlog behind; `CapIsSlack` says that the cap evicts nothing before the first. `phase` separates the receive loop of up to `Batch`
datagrams from the drain, and `deaf` is the flag as read at the top of the round.

### ClientSession

A handle is a value of `Handle`, and stands for its connection, its thread and the user of its `Welcome`.
`net[h]` is where the thread is, `commands[h]` and `wire[h]` are its two queues, `events` the queue of
the current handle: the window that drops a handle drops its receiver. `Click` is what the buttons can
do (`app.rs` 671-676, 731-740 enable them), `Poll` takes one event: `poll_network` takes all of them
before a click, and events that are taken one by one with a click between them are events of which the
later ones came later. `TimeoutInLine` is the read timeout in the middle of a line: `read_line` has
consumed its beginning, the next round starts with a new buffer, and the rest becomes an `Error`.
`EndOfStream` is the end of the stream or a reset, which may take unread lines with it. The frames that
matter are `Welcome` and the three of another user's share.

Its properties name four ways in which the code falls short of the plain statement, each confirmed by
the counterexample TLC gives when the exception is taken out:

* `replaced`: Connect can be clicked again until `Connected` arrives, and the first handle is dropped
  without a `Disconnect`. Its thread ignores that nobody receives its events and reads on for ever, so
  the server keeps a user that nobody is.
* `dropped`: a connection that ends by itself leaves `user_id`, so Join works between the next
  `Connected` and its `Welcome`, with the old user id.
* `lost`: a torn line may be a `Welcome` or a `ScreenShareStopped`, which is then never applied.
* `unsent`: a failed write is an `Error`, so the window stays "connected" with a thread that is gone.

### ScreenShareSession

`job[w]` is where the worker of share `w` is, `running[w]` its flag, `reported[w]` whether an event waits
in its channel; `commands` is the queue of the one network thread, `sharing` the worker whose
`StartScreenShare` made the server's entry. The flag is read before a capture, so a frame may be queued
after the user stopped; the queue keeps it before the `StopScreenShare`. `overlapped` marks shares whose
workers lived at the same time: a share started before the worker of the last one is through can lose
its entry to the late `StopScreenShare` of that one, and the rest of its frames are refused.

## What the runs check

| run | bounds | shows |
|---|---|---|
| `Hub` | 2 connections, the second of the account of the first or of one of its own; 2 rooms, 1 address; 4 requests or datagrams | what is stored belongs to a connection that was not cleaned up, the registered channel is a current one, nobody is in two rooms (`StateIsSound`); `NoEcho`; ended shares disappear from every client (`NoGhostShare`, `EndedSharesDisappear`) |
| `Chat` | 2 users, one of them administrator; 2 messages, a limit of 1; both storages | lists converge to what is stored (`ListsConverge`) and keep its order (`ListsInOrder`), the newest message is shown (`NewestIsShown`, in memory), a saved message is shown in time (`SavedIsShown`) |
| `PgDeletes` | 2 messages, 2 callers, 1 fault | audit entries tell the truth, deletions had permission and happen once (`DeletionsAreSound`); no deletion without entry while nothing fails, no announced one ever (`AuditIsComplete`); `ImplementsPromise`; `RequestsAnswered` |
| `PgAccounts` | 2 tasks, 3 rows, 3 names, 2 invites, 1 fault, symmetry | unique names, foreign keys, complete registrations, named administrators (`AccountsAreSound`); used invites stay used (`InviteStaysUsed`); before a failure or a race the statements implement `AccountStore` (`KeepsAccountPromise`), and every account with a password has its code (`AccountsAreInvited`) |
| `PgInviteOnce` | the same, 1 invite, no fault | the finding below |
| `Relay` | a talker with 1 connection, a listener with 2, 2 ports, 1 and 2 workers, 1 request unread | `VoiceIsHeard` in spite of losses, reordering and reused ports; `GoneGetsNothing`; `NoOwnVoice` |
| `Mic` | 8 samples in chunks of 3 and 5, frames of 2, hangover 1, 2 presses of a button | no sample lost or repeated (`MicIsWhole`), words sent whole (`WordsAreWhole`), at most one frame after muting (`MuteStopsSending`), heartbeats (`StaysKnown`) |
| `Speaker` | 2 peers with 2 frames of 2 samples each, stereo, cap 6, period 2, 2 presses | channels stay together, each voice in its order, the last word is heard |
| `VoiceStream` | 6 frames in 2 sessions, batch 2, depths 2 and 3, 1 failing decode | right frame in each slot and once (`PlaysTheRightFrame`); slots in order, window, nothing accepted forgotten (`BufferIsSound`); `CapIsSlack`; `PreRollEnds` |
| `Client` | 2 connections, 5 clicks or lines, 1 line or event waiting | `OwnsItsResources`: an offline window is quiet, its connections were told to end, it speaks as its own user; `SettledWindow`; `DisconnectsEnd`; `EndIsNoticed` |
| `Share` | 2 shares of one connection | the server serves the frames of a share that was alone; shares end, with their worker and with their connection |
| `Tokens` | 2 processes, 2 addresses, 2 tokens, symmetry in the processes | a load finds the newest token, a forgotten one is gone, a token stays with its server |

A property with several parts (`StateIsSound`, `DeletionsAreSound`, ...) is a conjunction of named ones, each with
its own comment in the module.

Two connections suffice to displace one another, and to be sender and bystander. `MaxOps` counts the
requests and datagrams of both together; four are a share started, used and stopped while the other connection
does something, or two rooms joined by both. Two messages are one deletion between two histories, and with a
limit of one the second pushes the first out. One fault reaches every gap between two statements, since a fault
ends the operation it hits. In `Relay` three workers over two ports make a reused port, with the relay still
knowing it for somebody else; the second connection of the listener is one that is back before the first has been
cleaned up. Chunks of 3 and 5 over frames of 2 leave a remainder each time, and 8 samples are 4 frames: loud, the
hangover, and two after it. Two peers with two frames of two stereo samples are 16 samples for a cap of 6. In
`VoiceStream` three frames are a hole between two packets, a fourth makes the hole two wide; a batch of two over a
target depth of two is a backlog that is not drained in one pop; and the depths are the tightest for which a batch
fits (2 - 1 + 2 <= 3, in the code 3 - 1 + 16 <= 20), so that one failing decode is enough for the cap to evict. Two
handles are a connection and the one that replaces or follows it; five clicks are connect, join, disconnect,
connect and join. Two shares are one and its restart. Two tokens are an older and a newer one of an address, or
one of each.
The bounds `MaxOps`, `MaxMsgs`, `MaxFaults`, `MaxFrames`, `MaxSessions`, `MaxFailures`, `MaxQueue`, `MaxJoins`,
`MaxPending`, `MaxMic`, `MaxToggles` and `MaxTokens` are constants named in the modules; `MaxDepth`, `TargetDepth`,
`Batch`, `Limit`, `FrameLen`, `Hangover` and `Cap` are constants of the code (20, 3, 16, 200, 960, 6 and 96000) made
small.

The runs of `Hub`, `Relay`, `Client` and `Share` switch the deadlock check off: every connection may end, and the
models accept no new ones. Elsewhere it is on.

### Disagreements with documents

`PgInviteOnce` ends in a counterexample, and its property states the document: one invite admits two
registrations that race, although docs/architecture.md 44 calls it one-time.

The properties of the passing runs name their exceptions. Each exception is a way in which the code falls short of
the plain statement, and TLC gives a counterexample when it is taken out:

* `leaked` (`Hub`): after a read error, `main.rs` 861, a user stays registered, in the room and sharing.
* `SoleConnection`, `displaced` (`Hub`, `VoiceRelay`): of two connections of an account the older one is no longer
  reached, and when it ends it removes the newer one's registration, membership and address, `main.rs` 113.
* `raced` (`KeepsAccountPromise`, `AccountsAreInvited` in `PgAccounts`): the race of `PgInviteOnce`. It leaves an
  account behind which no code stands, and so does a failure before the code is consumed, with the code still open.
* `silent` (`Chat`), faults (`AuditedUnlessFailed` in `PgMessages`): a failure between UPDATE and INSERT leaves a
  deletion that is not audited, which docs/requirements-ja.md 88 asks for, and not announced.
* `crossed` (`Chat`): a deletion that overtakes its message leaves the message on the screen, where
  docs/how-to-use-ja.md 165 says that it disappears from everybody's; and a broadcast among the frames of a history is
  out of order or shown twice.
* `backend = "memory"` (`NewestIsShown`): with PostgreSQL the history is the oldest 200 messages.
* frames of a second session (`VoiceStream`): after leaving and joining again a speaker's frames are dropped as
  stale until their numbers pass the old ones. The properties are about frames that are accepted.
* `strayed` (`TokenStore`): a token is stored under the address in the text field, which may have been edited since
  Connect; docs/architecture.md 40 says it belongs to the server.
* `last` (`TokenStore`): Forget answers Ok while the keyring is locked, and the token is back when it is unlocked;
  docs/how-to-use-ja.md 152.
* `replaced`, `dropped`, `lost`, `unsent` (`ClientSession`, above) and `overlapped` (`ScreenShareSession`).

Met while reading, and without a property: an older user list can arrive last and stay; `join_voice` does not
announce the room that was left; Deafen stops what is drained, but what is in the playback queue (up to a second) is
still played (docs/how-to-use-ja.md 180); a lost slot is handed out with the first pending packet, which with two slots
missing is not the "*next* packet" of the comment at `platform/src/voice.rs` 201; voices of several peers are queued
one after the other, not mixed.

### Fairness

`Hub!FairSpec`: a handler that has begun goes on (the runtime polls every task that can run, the lock
is fair, sends do not block on an unbounded channel). No client is obliged to send or to disconnect.
`PgMessages!FairSpec`: the database answers or fails. `VoiceStream!FairSpec`: the worker thread keeps
looping; nothing is assumed of the network or the speaker. `ClientSession!FairSpec`: threads are
scheduled, connecting succeeds or fails, a network thread empties its commands before it reads
(`net.rs` 95), a server that is there answers the first frame, the end of a stream is seen, and the
window repaints every 100 ms (`app.rs` 1031). Reading is not fair: nothing forces a line through, and no
property needs it. `ScreenShareSession!FairSpec`: the same, and the capture threads run.
`Chat!FairSpec`: a handler that has begun goes on, as in `Hub`, and every storage call returns. `VoiceRelay!FairSpec`:
the server's tasks and the workers run; of the datagrams of a user some are received, and some of those come through
(strong fairness: any of them may be lost, not all for ever, the least that hearing somebody over UDP can mean).
`VoiceWorker!FairSpec`: the loop and the playback thread run and the output device asks for samples; nothing is assumed
of the input device, the peers and the buttons. `Spec` of `PgAccounts` and `TokenStore` is without fairness: their
properties are safety.

## What is proved

Every safety property that a passing run checks is also a theorem, for every value of the constants. Assumptions
are the named `ASSUME`s of the modules, which every run evaluates. `VoiceRelay` and `ScreenShareSession` are
instantiated by the proof modules that speak about them (`Relay`, `Share`), so what they assume of their
constants is a hypothesis of those theorems: `RelaySetup`, the conjuncts of `RelayAssumption`, and
`None \notin Worker`.

* `Hub_proofs`. `TypeCorrect` proves `TypeOK` with `OwnerKnown` (a connection that is open, sharing
  or leaked has an owner), without which `users[owner[c]]` is untyped. `Ownership` proves
  `StateHasOwner /\ ChannelIsCurrent`: the second is needed because a disconnect clears everything of
  its user, and the connection that keeps the rest alive is one that was not cleaned up; the
  invariant is inductive only with the pair. `VoiceExclusion` and `NoEchoEver` follow, the latter from a
  strengthening that no pending `cast` or `send` of a share reaches its owner's connections. `SoundState` is
  `StateIsSound`. `NoGhosts` is `NoGhostShare`, from `GhostInv`. The property speaks of a state in which nothing is
  pending; the invariant says of every state that when a client shows a share that has ended, the *next* work of the
  owner's task is the stop, and it still goes to that client (`Banished`). For that to survive a step, a task
  must broadcast its own user's share only, to everybody or to everybody else, and what shows a share must be
  pending only while the share is stored (`OwnWork`).
* `Chat_proofs`. One inductive invariant, `Inv`, carries `TypeCorrect`, `Converges` (`ListsConverge`),
  `InOrderAndTwice` (`ListsInOrder`) and `NewestShown` (`NewestIsShown`). The properties but the second are about
  channels with no handler at work, the invariant says what a handler at work still owes. `HandlersOK` lists the
  forms a `todo` can have, and what the request has done before each. `VisibleOK`: a visible message is on a client's
  list, in the part of a history it is receiving, or in a frame on its way to it; `DeletedOK`: of a deleted message that
  a client shows or will show, the frame that takes it off is on its way. Both fail at once for a message whose
  frames crossed, so `crossed` is an exception in them and not only in the property. `CopiesOK` bounds the copies: the
  second comes from a history, and a broadcast that is due adds one only to a list that has one at most. `AheadOK`
  and `OrderOK` are about order: what a client shows of a history it is receiving is older than the rest of it.
  `OutsideOK` is why `NewestShown` needs the memory storage: that one leaves out only what is older than another.
* `PgMessages_proofs`. `DeletionIsSound` rests on an invariant that says what each `pc` knows: a task
  past its UPDATE is the deleter of a message that no other task owes or has audited. `Announced` adds
  that the entry of an answered deletion stays until it is old. `KeepsPromise` is the refinement: as long
  as nothing has failed, every statement maps to an operation of `MessageStore` or to a stutter.
  `Audited` (`AuditedUnlessFailed`) is carried over through it: the promise keeps every deleted message
  covered by an entry, and a store without running requests has no entry outstanding. `AuditComplete` joins the two.
* `PgAccounts_proofs`. `TypeCorrect` and `SoundAccounts` (`AccountsAreSound`), inductive together with what the
  statements of a task have established: `OwnsRow` (a registration works with a row of its own until it has consumed
  the code, with a complete one after that), `RowsApart` (two of them never with the same row, or one consumption
  would break what the other knows), `Presented` (the code exists once it was checked), and `BootOrder` (nobody is
  served during the bootstrap, so the administrator it did not find is still not there when it inserts it, and the
  one it found is still there when it promotes it). `UsedForGood` is `InviteStaysUsed`.
  `KeepsPromise` is the refinement `KeepsAccountPromise`: every statement maps to an operation of `AccountStore` or to
  a stutter. The invariant is not enough for it; it takes `ClaimsAlone`, that until the first race a code for which an
  account was inserted is open and no other task has inserted one for it. So the mapped consumer of a code is a row
  of one task (`ConsumerIs`), the UPDATE that consumes the code finds it open and changes nothing of the promise
  (`ConsumeMaps`), and a check that refuses a code refuses one that is consumed in the promise too. Before
  the insertion nothing is claimed: that a code checked two statements ago is still free is exactly what `raced`
  denies (`RegisterMaps`). `EveryoneInvited` (`AccountsAreInvited`) is then carried over: in the promise an account with
  a password is the administrator's or a consumer (`PromiseCovers`), and a consumer is a row in `consumed_by_user_id`
  or that of a task that is about to write it there.
* `VoiceStream_proofs`. About `JitterBuffer`: `WindowHolds`, `InOrder` and `NothingForgotten`, for every depth,
  payload and sequence; `InOrder` needs that `next_expected` is one past the last slot handed out.
  `CallsBuffer` shows that every step of the stream is a call of the buffer or leaves it alone, so the invariant of
  the buffer carries over (`StreamIsBuffer`). To it come
  that a packet waits in the slot of its number (`FrameInSlot`), that slots are numbered from the end of
  `out` (`InStep`), which together give `RightFrames`, and `Backlog`: a round begins below the target
  depth and only what it received comes on top. `NothingEvicted` is `Backlog` with `DepthAssumption`,
  `MaxDepth >= TargetDepth - 1 + Batch`, which the constants of the code satisfy. `TypeCorrect` needs
  that the speaker's counter is bounded by what it sent (`SentOK`).
  About `VoiceRelay`: `RelayTypeCorrect` needs `Coupled` (a busy relay has a datagram, a worker has a connection).
  `OwnVoiceNeverPlayed` is the check of the worker: the relay cannot promise it, since the port it knows for one user
  may be another's by now. `NothingForTheGone`: a membership is made only while a connection of the user is served,
  and each end of a connection takes it away.
* `VoiceWorker_proofs`. `NoSampleLost` (`MicIsWhole`): the frames processed, the frames sliced, what is left over and
  what the callback captured since are one run of consecutive samples (`MicInv`), whatever the sizes of chunks and
  frames. `WholeWords` (`WordsAreWhole`) needs what the gate's counter means (`WordInv`): while the gate is open,
  what has been used up of the hangover is the number of low frames at the end of the history, and a frame above the
  threshold is right before them. `MuteSilences` (`MuteStopsSending`): since the button nothing was sent, or
  one frame is being encoded (`MuteInv`). `InStep` (`ChannelsTogether`) and `SpeakersInOrder` (`HeardInOrder`) share
  `VoiceInv`: what the device has played and what is queued are two sequences of samples, each sample once for every
  channel, in which each peer's samples rise; and there are three marks per peer, fed, popped and received, that
  separate the frames at the device, before the playback thread, in the jitter buffer and in the socket, each part
  rising above its mark. The cap drops samples from the front of the queue; since it is a multiple of the channels
  (`WorkerAssumption`; 96000 is one for up to eight channels but seven) it drops whole device frames, which is what `InStep` rests on.
* `ClientSession_proofs`. `EventsOK` says what the queue of the current handle may hold: before
  `Connected` there is nothing to take but the `Error` of a connection that was not made, and
  `Disconnected` is a thread's last event. Without it a frame could reach an offline window, and
  `QuietOffline` is not inductive; `UserOK` gives `OwnVoice`. `NoneLeftOpen` is inductive given the types,
  which in turn need that a voice session has a connected handle. `OwnResources` is the three of them.
  `Settles` (`SettledWindow`) looks through the two queues at once: for a connection that lost no line, the `Welcome`
  was polled or is among `events \o wire`, and the last of those lines that speaks of the share leaves the window
  showing it only if the server has it (`WillSettle`); a queue that is empty makes that the property. `Tidings` adds that
  nothing is written before the server's answer and that a window learns nothing of a connection that was not answered.
  About `ScreenShareSession`: `SharesTyped`, and `AloneIsServed` (`FramesAreServed`). `Served` is about the whole
  command queue: at the place where a frame of a share that was alone waits, and at the end of the queue while its
  worker may still send, the last start or stop before it is the start of that share. It needs `Apart`: a second
  worker that lives makes both `overlapped`.
* `TokenStore_proofs`. `NewestIsLoaded` and `ForgottenForGood` follow from `StoresHold`, which is inductive with
  `HalfDone` (what a call that is alone has done so far is still there) and `CallsAreApart` (nothing is claimed of an
  address while a call is in progress there). `TokensAtHome` needs besides that a token on its way to a store is one
  of that address.

Two of the modules use recursive functions (`Only` for the list of a client, `FlattenSeq` of the library for the
captured chunks). What they return is proved from their defining equations: a set of naturals that is not empty has a
least element (`Least`, `SetInduction`, from the well-foundedness of `<`), so there is no shortest counterexample.

Left to TLC: liveness, since fairness and `ENABLED` are outside the prover's reach: `EndedSharesDisappear`,
`SavedIsShown`, `RequestsAnswered`, `VoiceIsHeard`, `StaysKnown`, `LastWordIsHeard`, `PreRollEnds`, `DisconnectsEnd`,
`EndIsNoticed`, `SharesEnd` and `SharesEndWithConnection`; and the counterexample of `PgInviteOnce`, which is a behaviour and not a theorem.

## Not modelled, and the plan

1. The rest of the client session: user and invite lists, composed with `Hub` over the wire.
2. Pure algorithms: resampler with 32-bit arithmetic, high-pass and ducking, binary voice packet, fit of dimensions,
   device names.
3. Proofs: for `Hub`, that a client that missed nothing shows exactly the shares that are stored (the other half of
   `NoGhostShare`). The model has to remember for it what a client missed before it was registered.

Out of reach or without logic of its own: Opus, argon2 and sha2, cpal and capture back-ends, egui
layout, fonts, deployment files.
