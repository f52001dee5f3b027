# Realtime Docs in TLA+

A collaborative text editor: browser tabs hold a Yjs document, a Go backend relays
binary frames between the tabs of a document over WebSockets, Redis carries them
between backend replicas, PostgreSQL keeps one snapshot per document. This
directory holds TLA+ models of that program, the TLC configurations that check them
on small instances, and TLAPS proofs of the theorems that matter most for every
instance. Paths below are relative to the repository.

Contents: 1 inventory · 2 modules and code · 3 runs · 4 fairness · 5 proofs ·
6 where code and documentation disagree · 7 what is not modelled · 8 what is left.

## 1. Inventory

### Parts, their state and their operations

| Part | Where | State | Operations |
|---|---|---|---|
| Hub | `backend/internal/ws/hub.go` | `rooms` map under `mu` | `Run` (subscriber callback), `room`, `ServeWS` |
| Room | `backend/internal/ws/room.go` | `clients` set under an RWMutex | `Join`, `Leave`, `Broadcast` |
| Conn | `backend/internal/ws/conn.go` | `out` (256), `saveQ` (64), both channels | `Read`, `WriteLoop`, `QueueSave` |
| RedisBus | `backend/internal/ws/redis_bus.go` | the pattern subscription | `Publish`, `Subscribe` |
| Document store | `backend/internal/store/postgres.go`, `migrations/0001_init.sql` | table `documents`: `bytes`, `version` | `CreateDoc`, `ListDocs`, `GetDoc`, `SaveDoc` |
| Accounts | `store/users.go`, `http/auth_handlers.go`, `pkg/auth/jwt.go`, `http/middleware.go` | table `users`; tokens that expire after 24 hours | `Register`, `Login`, `Me`, `Auth` |
| Accounts, in the browser | `frontend/src/app/auth.service.ts`, `app.config.ts`, `app.component.ts` | `jwt_token` and `user_email` in localStorage, shared by the tabs of a browser; `userEmail` in each tab | `doRegister`, `doLogin`, `doLogout`, the interceptor |
| Documents API | `http/docs_handlers.go`, `frontend/src/app/docs.service.ts` | none | create, list, get |
| Rate limiter | `pkg/ratelimit/ratelimit.go` | a bucket per remote host, under `mu` | `Middleware` |
| Server life cycle | `cmd/server/main.go`, `store/migrate.go` | the process | start, migrate, serve, shut down |
| Sync service | `frontend/src/app/ws-sync.service.ts` | socket, `connectionState`, retry timer and counter, Y.Doc, snapshot timer, Awareness | `connect`, `resetDocument`, `updateLocal`, `loadSnapshot`, socket and timer callbacks |
| Awareness | `y-protocols`, vendored under `frontend/17.3.17/vite/deps/y-protocols_awareness.js` | `states`, `meta` (a clock per tab) | set the local entry, apply an update, check for old entries, destroy |
| Text | `ws-sync.service.ts:193-202`, `app.component.ts:47-49`, Yjs | the Y.Doc, and the text area, which may differ from it | `updateLocal`, applied updates, emptying the text area |
| App component | `frontend/src/app/app.component.ts` | `docId`, `docs`, login, text area, cursors on screen | login, logout, list, create, select, edit |

### How they interact

1. The tab selects a document (`onDocChange`), resets its Y.Doc if the document is
   not the one it was last connected to, asks the Documents API for the stored
   snapshot, applies it and calls `connect`.
2. `ServeWS` accepts, finds or makes the document's `Room`, joins it, starts the
   writer and the save loop, and reads frames. For each frame it publishes on
   Redis, broadcasts in the room (the sender included) and, for a full-state frame
   (type 3), queues the bytes for saving.
3. The subscriber goroutine of every replica, the publisher's own included,
   broadcasts what Redis delivers in the room of the same document.
4. On open a tab asks for the full state (type 2); every tab of the room, the one
   that asked included, answers with its own (type 3).
5. A tab that has applied or made a change sends its full state 250 ms after the last
   of them; the save loop of its connection writes the latest one to the row after
   another 250 ms.
6. Who is in a document goes the same way: each tab sends its entry when it changes
   or is 15 seconds old, and passes on every entry it learns of or removes, whoever
   told it. Entries that are 30 seconds old are removed.
7. A broken socket starts a retry after 2, 4, ... seconds, at most five times.
8. Each edit deletes the whole text of the Y.Doc and inserts the text area's in its
   place; an applied update puts the text of the Y.Doc into the text area. A logout and
   a failed request empty the text area only.
9. A registration or a login stores token and email in localStorage, from where every
   later request of every tab of the browser takes the token; a tab shows the email it
   read at its start or stored itself. The WebSocket route asks for no token.

### What makes it hard

- Shared state between goroutines: rooms and their members are read by every
  handler and the subscriber while other connections come and go.
- Two paths to the same client (room and Redis), each of which may drop frames.
- Three bounded or lossy stages before the row: `saveQ`, the debounce, an UPDATE
  whose error is ignored and whose caller may be cancelled.
- Processes that stop without waiting for WebSocket handlers; Redis connections
  that are lost and made again with nothing redelivered; a PUBLISH that gets no answer,
  which go-redis sends again although Redis may have run it.
- In the tab: responses, events of sockets that were replaced, and timers arrive in
  any order, and every callback works on the service's state of that moment.
- Convergence over a transport that may drop a frame or repeat it, with
  last-writer-wins snapshots.
- Edits that cross, although each replaces the whole text.
- Tabs that share localStorage but not what they show, and change it in two writes,
  responses that come late or not at all, and emails whose uniqueness the database alone
  decides.

### What makes each part correct

- Hub and rooms: connections of a document on a replica share one room; the room has
  exactly those that are joined; nothing is left of a connection that closed; frames stay
  in their document, are not made up, arrive at most once from another replica and at most
  twice on the sender's own, in order as far as the transport can keep it, all this but
  for frames whose PUBLISH got no answer; a slow reader harms nobody else; snapshots reach
  the row in order, and the last one gets there when nothing breaks and its sender stays.
- Browser session: one live socket; "connected" is true or about to be corrected; a
  dropped connection is retried; text of different documents does not mix.
- Collaboration: tabs that stay converge on all the text, and so does the row; what a
  full buffer or a failing UPDATE can make them miss is the last of it only.
- Text: no letter is lost, and none comes twice but by edits made apart.
- Accounts: an email has one account, nobody gets into an account without its password,
  storage is of one account when the tabs have done, and a document belongs to whom the
  tab showed.
- Presence: a tab has the last word on its own entry, gossip about an entry ends,
  entries of tabs that left go for good and those of tabs that stay come back.
- Limiter: no window above its budget, bounded bursts across windows, no lock-out.

`PROJECT.json` lists the hazards this code is exposed to line by line, with the
property that watches each one, or the reason why none does.

## 2. Modules and code

Definitions keep the names of the code where TLA+ allows it. A definition whose comment
starts with `Fault` is *not* part of the model: it is the neighbour it precedes with a
plausible bug, kept there so that each property can be shown to notice it (`mutants` in
`PROJECT.json`).

**`Hub`** — `hub.go`, `room.go`, `conn.go`, `redis_bus.go`, and the UPDATE of
`SaveDoc`. A `Conn` is one call of `ServeWS`; `pc[c]` is where that call is. One
action is what a goroutine does between two points where another can interfere:

| Action | Code |
|---|---|
| `Accept` (with `GetRoom`), `Join` | `hub.go:62-70`, `hub.go:41-51` under `h.mu`, `room.go:17-21` under `r.mu` |
| `ReadFrame`, `Publish`, `StartBroadcast`, `Offer`, `QueueSave` | one turn of the loop `hub.go:106-120`; `Offer` is one turn of the loop in `room.go:34-38` |
| `Unanswered`, `ServeLate` | a PUBLISH that gets no answer: the client of `redis_bus.go:23-28` sends it again (go-redis does so three times unless told otherwise), then `redis_bus.go:37` returns an error that `hub.go:113` ignores; Redis may run each of them at once, later or never |
| `ReadFails`, `Leave`, `Return` | `hub.go:108-110`, `122-123`, and the end of the request context |
| `WriteLoop` | `conn.go:50-67` |
| `TakeSave`, `SaveTick`, `SaveCommits`, `SaveFails` | the save loop `hub.go:82-102`; the UPDATE is a step of its own, so that the client can leave or the process stop while it runs |
| `Subscribe`, `LoseBus`, `BusReceive` (then `Offer`) | `redis_bus.go:41-58`, `hub.go:29-36` |
| `Stop` | the process ends at any moment (`main.go:81-92` does not wait for hijacked connections) and comes back empty |

The read lock of a room is not a variable: it is held by a goroutine whose broadcast loop
still has members to serve (`ReadLocked`), which is what `Join` and `Leave` wait for. The
frame of a broadcast is offered to the clients in any order, as Go iterates a map. Frames
carry an opaque body, so the properties can tell frames apart but the hub cannot. Each
PUBLISH that Redis runs reaches every replica subscribed at that moment, but one that got
no answer may be run more than once, and after those that followed it. `unanswered` has
the messages to which that happened. Not in the model: pings (an error of a ping is
treated like a failed write), the JSON of the bus message, metrics.

**`HubClients`** — `Hub` plus clients which send numbered frames and leave at any
moment, the specifications `Spec` (anything may fail) and `UpSpec` (the servers stay
up, clients come and go), and the hub's properties.
The bodies `<<c, n>>` say who sent a frame and as which one, and `Unsure` which of them
had a PUBLISH without an answer.

**`Relay`** — the abstract specification: what a client receives was sent by a
client of the same document, and what is kept was sent as a non-empty snapshot by
one of them. `HubClients` implements it under `got <- wire, kept <- store,
edition <- version`.

**`DocSession`** — one tab. Every action is one JavaScript callback, run to its end:
`OnDocChange`/`PickDoc`/`ListArrives`, `BlobArrives`/`BlobFails`
(`app.component.ts:120-189`), `Login`/`Logout` (`81-117`), `Edit` (`updateLocal`),
`Connect`, `SocketOpens`, `SocketEnds`, `ReceiveUpdate`, `ReceiveSyncReq`,
`TimerFires`, `SnapshotTimerFires` (`ws-sync.service.ts`). `sock` holds every
WebSocket object that has events to come, also those the service has replaced:
their close event runs the same handler on the state of the new one. A Y.Doc is
abstracted to the set of documents whose text it contains, and `sentTo[d]` to the
foreign texts that were put into the room of `d`.

**`SharedText`** — the text of one document in several tabs. How edits travel is left
open: any edit may reach any tab at any time, or never. An edit adds one letter, and is
named by it; what it does is written down in `past`: the edits it stands behind, those
it deletes, the letters it inserts, what its tab had. Yjs is external: a document is a
set of edits, an update is a union, an edit whose dependencies are missing is kept back
(`Integrated`), what any edit deletes is gone (`Visible`). Where a text goes after the
deletion is Yjs' choice among the ends of the document (`Ends`).

| Operator or action | Code |
|---|---|
| `Type` (with `Writing`) | `onInput` and `updateLocal` (`app.component.ts:192-195`, `ws-sync.service.ts:193-202`) |
| `Learn` | an update or a full state is applied (`ws-sync.service.ts:161-174`); if it changes anything, the text area is set (`app.component.ts:47-49`) |
| `Empty` | `text = ''` without a change of the document (`app.component.ts:115`, `:185`) |

**`Collab`** — several tabs, the hub and the row together, in a coarser grain: one
replica, a broadcast in one step. It extends `SharedText` and says which edits reach
which tab: `Open`, `ServeBlob`, `BlobArrives`, `BlobFails`, `Opened`, `Edit`, `Logout`,
`Receive`, `SnapshotTimerFires` are the tab's callbacks; `Join`, `Relay`, `RelayFull`,
`Save`, `SaveFails`, `Cut` the hub's side; `Drop`, `Reconnect`, `Close` the connection's
fate. `RelayFull` is a turn of the read loop when the buffers of some clients are full
(`room.go:37`) or the queue for saving is (`conn.go:73`, the newest snapshot is dropped);
`SaveFails` is an UPDATE whose error is ignored (`hub.go:94`). `pend` is `saveQ` with the
save loop's `latest`: an UPDATE is of any of the snapshots there, and those before it were
replaced while they waited. `missed` and `lost` are history: a frame was kept from the tab
since it connected, the last snapshot of the connection was dropped or not stored.
`ImplementsText` says that each step does to the text what `SharedText` allows, or nothing.

The coarser grain is argued, not proved. `Hub` shows what one connection's frames and
snapshots go through: order, drops, copies, saves. `Collab` keeps the drops and the order
of one replica; the copies from Redis are left out because a tab that has an edit ignores it.
A broadcast that is one step, a single replica, and an UPDATE that is over when it starts are
simplifications: frames of two senders reach all tabs in the same order, no frame is
lost between replicas, and no UPDATE of a connection that is gone comes late.

**`Accounts`** — the buttons of the application, the requests they send, the handlers,
the tables, and the responses, over all tabs of all browsers. Requests and responses
are sets: they are handled and heard in any order.

| Action | Code |
|---|---|
| `Open`, `Sign`, `Logout`, `CreateDoc` | `app.component.ts:24`, `81-98`, `109-117`, `137-141`; `CreateCall` is what the interceptor makes of the request (`app.config.ts:6-12`) |
| `Register`, `Login`, `Create` | `auth_handlers.go:36-80` with `users.go:25-79`, `docs_handlers.go:27-45` behind `Auth` (`middleware.go:40-56`); the INSERT and its UNIQUE constraint are one step |
| `Fail`, `LoseReply` | whatever refuses a request before, or loses its answer after, the server did what it was asked for |
| `Expire` | `exp` of a token (`jwt.go:59`) |
| `SignedIn`, `NotSignedIn`, `Created` | the subscriptions (`app.component.ts:84-105`, `141-152`) |
| `WriteToken`, `WriteEmail` | the two writes of `SignedIn` and of `Logout` (`app.component.ts:86-88`, `100-102`, `110-112`, `auth.service.ts:13-14`) |

Tabs may run in processes of their own, and nothing locks localStorage for more than one
call, so a sign in or out is two steps, between which other tabs may do anything:
`WriteToken` writes or removes `jwt_token`, `WriteEmail` does so with `user_email` and
then sets what the tab shows. `writing[t]` is what tab `t` has still to write; the tab
itself does nothing else meanwhile. That `setToken` skips an empty token is left out: the
server never sends one.

A click has a number, and accounts, tokens and documents bear the number of the click
they came of. A document carries what the tab showed when it was asked for, and
`apart`, whether another tab had signed in or out in between; with `crossed`, whether two
tabs of a browser were between their writes at once, and `typed`, which
passwords were typed in which browser, these are history, and but for the screen of a
tab that is apart (`Sign`) no guard reads them.

**`RateLimit`** — `ratelimit.go`. The middleware holds `r.mu` from lookup to
decrement, so a request is one step. There is no clock; each window has an age that
stops counting once it is older than `per`. `used` (requests let through in this
window) and `since` (how long ago the last `2 * max + 1` were) are history variables,
which the properties need and no guard reads.

**`Presence`** — the Awareness of all tabs of one document, as the sync service uses
it. `clock[t][c]` is `meta.get(c).clock` in tab `t` (0: no such key), `shown[t]` the
keys of `states`; what an entry says is left out.

| Action | Code |
|---|---|
| `Renew` (with `SetLocalState`) | `setLocalState` (`y-protocols_awareness.js:68-102`), for a cursor that moved or by the interval (`:34-37`) |
| `Timeout` | the interval's removals (`:38-46`, `:122-145`) |
| `Receive` (with `Fresh`) | `applyAwarenessUpdate` (`:179-234`) |
| `Announce`, `Lines` | the service's `update` handler (`ws-sync.service.ts:72-77`), a part of each of the three |
| `Open`, `Drop`, `Close` | the socket's `onopen` and `onclose`, and `destroy` (`y-protocols_awareness.js:53-58`) |
| `Lose` | a frame that a full buffer or Redis drops |

Frames travel as a set: they arrive in any order or not at all, which is more than
`Hub` allows. Frames that can tell their receiver nothing any more are left out at
once; a clock never goes back (`Forward` in the proofs), so they would change
nothing later either. `said`, `stale` and `lost` are history, which no guard reads.

`MCHub`, `MCDocSession`, `MCSharedText`, `MCCollab`, `MCAccounts`, `MCRateLimit` and
`MCPresence` give TLC its instances; `HubProofs`, `HubOrderProofs`, `DocSessionProofs`,
`SharedTextProofs`, `CollabProofs`, `AccountsProofs`, `RateLimitProofs` and
`PresenceProofs` hold the proofs.

## 3. Runs

| Run | Question | Instance | Distinct states |
|---|---|---|---|
| `hub_local` | Do rooms and saves stay right, and does the hub implement `Relay`? | three connections on one replica, two of one document and one of another, two snapshots, buffers of one; process, subscription and UPDATEs may fail | 477,980 |
| `hub_replicas` | What do Redis and its retries do to members, order and copies, and is a closed connection silent? | two connections of one document on two replicas, two updates, buffers of one; the receiver may leave, anything may fail, and one message may go without an answer | 1,188,059 |
| `hub_live` | Can a stuck reader hold up others, or the save of the last snapshot? | `z` never reads, `a` sends two snapshots and may leave | 151,084 |
| `session` | One socket, honest status, retries? | two documents, two sockets with events to come, five attempts | 668,992 |
| `text` | Is a letter lost or doubled when edits cross? | three tabs, three edits of which a tab makes at most two | 319,892 |
| `collab` | Do tabs and row converge, what holds at rest, and is it `SharedText` they do? | two tabs, two of: an edit, logouts, broken connections, full buffers, failing UPDATEs | 425,775 |
| `accounts` | Are accounts, tokens and documents whose they should be? | two tabs of one browser, one of another, two emails of which one is spelled in two ways, three clicks, one mishap | 1,347,290 |
| `ratelimit` | Budgets and no lock-out? | three clients, two addresses, `Max = 2`, `Per = 2` | 15,565 |
| `presence` | Do entries stay right, gossip end, ghosts go? | three tabs, two of: a renewal, a tab closed, a frame or connection lost, a removal by mistake | 71,469 |
| `session_retry`, `session_apart`, `collab_open` | What documentation promises and the code does not do (section 6) | as their cfg says | until the violation |

### Bounds, and why they are enough

- *Connections and replicas.* The hub's code treats connections symmetrically and
  knows of others only through one room and one bus; a pair shows a sender and a
  receiver, on one replica, on two, in two documents. The theorems of section 5
  remove the bound for rooms, silence, types and the refinement.
- *`Quota`.* Two numbered frames are the least that can be duplicated and swapped, and
  the least of which one is being written while the other waits.
- *`OutCap = 1`, `SaveCap = 1`* (256 and 64 in the code) make full buffers an
  everyday event. `hub_live` uses two of each, so that the buffer of the one who reads
  need never be full while the other's is, and because a full save queue drops the
  newest snapshot by design.
- *`Leavers`* may break off at any moment: the receiver in `hub_replicas`, the sender in
  `hub_live`. Those of `hub_local` stay, but its process stops, which ends them all.
- *`MaxUnanswered`*: of one message the PUBLISH may be left unanswered in `hub_replicas`, so
  the other shows what still holds beside it; none elsewhere. *`MaxRetries = 1`* (3 in
  go-redis): two runs of one PUBLISH are the least that repeat a frame.
- `ImplementsRelay` is checked on one replica, with snapshots, so that both its halves
  (frames and rows) are exercised, and with a second document, so that crossing is
  possible; over replicas it is the theorem `HubRelays`.
- *`RoomIds`.* One more than replicas times documents, so a room made by mistake
  finds an identity.
- *`MaxSockets = 2`* sockets with events to come: the current one and one that was
  replaced. *`MaxGets = 1`* request per document. *`MaxAttempts`* is the code's own
  five.
- *`MaxEdits`*: in `text` three edits in three tabs, the least of which two cross and a
  third comes on top of either or both. In `collab` one edit, at every point of both
  tabs' life, next to what *`MaxEvents`* = 2 allows: it and a logout, a broken
  connection, a full buffer or a failing UPDATE, or two of these.
- *`MaxClicks = 3`, `MaxMishaps = 1`*: an account, a login or a second registration, and
  a document; a lost answer, an expired token or a refused request in between. *`Types`*
  says what is typed in which browser, so that one email is typed in two spellings, in
  two browsers and with two passwords. Tabs may open and log out without bounds.
- *`Max = 2`, `Per = 2`* (30 and a minute): the last and the last but one token, and
  requests at the first, middle and last moment of a window.
- *`MaxEvents`* of `presence`: three tabs, so that one can pass on to another what a
  third said; two renewals of one entry, so that old and new clocks are about at the
  same time, or one of them next to a loss, a removal by mistake or a tab that closes.
- *Symmetry* is used in `text` (tabs) and `accounts` (tabs of one browser), which check
  no liveness.

TLC checks for deadlock except in `hub_live`, `text`, `accounts`, `presence` and the two
runs of `Collab`, where everything that was to be done has been done at the end and the system
rightly rests.

### Properties

*Hub.* `TypeOK`; `OneRoomPerDoc` and `MembersAreJoined` (rooms and their members, whatever
handshakes, departures and stops interleave); `ClosedIsSilent` (no broadcast loop, queue
or pending save has anything for a handler that returned; that what was pending is saved
is not claimed, and not so); `LocalAtMostTwice` (the copies from the room and from Redis,
and what they may overtake); `RemoteInOrder`; both but for frames whose own PUBLISH got no
answer (`Unsure`), which may come any number of times, and late; `SavesGoForward` (an
action property: of one connection, the row never goes back and never takes a snapshot
twice); `ImplementsRelay` (refinement); `LastSnapshotWins`, `SlowPeersDoNoHarm`,
`HandlersReturn` (liveness).
*Session.* `OneLiveSocket`, `ConnectedIsReal`, `ReconnectsAfterDrop`.
*Text.* `NothingTypedIsLost`: whoever has all that the authors of his edits had sees all
their letters, although every edit deletes the whole text. Someone who typed into an
emptied text area is excepted: the letters are then lost, as section 6 tells.
`TwiceOnlyApart`: the text is there twice only after edits made apart.
*Collaboration.* `IdleTabsAgree`: connected tabs with nothing on their way have the same
text, whatever the others are doing, but for a tab whose own buffer was too full for a
frame since it connected (`missed`). `QuietMeansSaved`: if nobody has left and nothing is
on its way, waits for a timer or is to be stored, the row holds what the tabs show, and
every letter that was typed is in it; but for such tabs, and unless the *last* snapshot of
some tab's connection was dropped or its UPDATE failed (`lost`). In the code that is a
loss until somebody types or connects, and `lost` becomes false again with the next
snapshot: a failure before the last one does no harm. `TabsConverge` and `StoreCatchesUp`
make the same exceptions. `ImplementsText` (refinement); `TabsConverge`, `StoreCatchesUp`
(liveness). The first two say that no state of rest is a wrong one, the last two that rest
is reached.
*Accounts.* `OneAccountPerEmail` (concurrent registrations, two spellings);
`TokensAreEarned` (a browser holds a token only of an account whose password was typed in
it); `StorageAgrees` (token and email are of one account, whatever tabs and late responses
do, but while a tab is between its two writes, and after two tabs were so at once, which
the next sign in or out that is by itself repairs); `CreatedAsShown` (a document belongs
to the account shown when the button was clicked, unless another tab came between).
*Limiter.* `WindowBudget`, `SlidingBudget`, `AdmittedAgain`.
*Presence.* `OwnerLeads` (nobody is ahead of the owner of an entry), `OwnEntryStays`,
`OnlyNews` (what a tab passes on about an entry is news after what it passed on before),
`GhostsVanish` and `SeenAgain` (liveness). `SeenAgain` holds while no frame is lost and
for a removal about the newest clock; otherwise the next renewal has to do.

`SavesGoForward` compares snapshots of the same connection only: across connections the
code orders nothing, and `StoreCatchesUp` says what saves the row all the same.

## 4. Fairness

- *Hub.* Go schedules every goroutine that can run: weak fairness of each handler,
  save loop and subscriber, of writers whose peer reads, and of the answer to an
  UPDATE. Not fair: sending, leaving, stopping, losing Redis, and the writer of a
  `Stuck` peer, which may block in `Write` for ever. Liveness is checked of `UpSpec`, in
  which clients come and go and servers, Redis and PostgreSQL stay and answer every call: a
  failed UPDATE is never tried again, a PUBLISH no more than `MaxRetries` times, and the code
  promises nothing otherwise.
- *Session.* The browser fires the retry timer, and each handshake or `close()` ends
  one way or the other. No open socket has to break, no request has to be answered,
  the user has to do nothing.
- *Collaboration.* As long as something can happen by itself in a tab or its handler
  (`Progress(t)`: callbacks, timers, read loop, save loop, answers), something does; this
  is less than fairness of each. Nobody is made to edit. `StayingSpec` has no tab that is
  closed and no snapshot request that fails, and no more than `MaxEvents` broken
  connections, full buffers and failing UPDATEs, since with endless failures nothing can
  be promised.
- *Presence.* Frames in the air arrive (or are lost: `Lose` may come first, and is not
  fair), and the interval finds the entries of tabs that left. Nobody has to renew.
- *Limiter.* Time passes, and a client keeps asking; asking is what the property
  presupposes, the code needs nothing else.
- *Text, Accounts.* None: their properties are about what may not happen.

## 5. Proofs

All theorems hold for every value of the constants that satisfies the assumptions
stated in the modules: they need no bound on connections, replicas, frames, buffers,
tabs, edits or clicks.

| Module | Theorems | States (`Spec => ...`) | Assumes |
|---|---|---|---|
| `HubProofs` | `TypeCorrect` | `[]TypeOK` | `HubAssumption`, `ClientsAssumption` |
| | `RoomsKept`, `MembersKept` | `[]OneRoomPerDoc`, `[]MembersAreJoined` | the same |
| | `SilenceKept` | `[]ClosedIsSilent` | the same |
| | `HubRelays` | `ImplementsRelay` | the same |
| `HubOrderProofs` | `SavesKept`, `OrderKept`, `CopiesKept` | `SavesGoForward`, `[]RemoteInOrder`, `[]LocalAtMostTwice` | the same |
| `DocSessionProofs` | `TypeCorrect`, `OneSocket`, `StatusHonest` | `[]TypeOK`, `[]OneLiveSocket`, `[]ConnectedIsReal` | `SessionAssumption` |
| `SharedTextProofs` | `TextTypeCorrect`, `NoLetterLost`, `NoCopyOfTheSeen` | `[]TextTypeOK`, `[]NothingTypedIsLost`, `[]TwiceOnlyApart`, of `TextSpec` | `TextAssumption` |
| `CollabProofs` | `CollabTypeCorrect`, `CollabImplementsText` | `[]TypeOK`, `ImplementsText` | `CollabAssumption`, `TextAssumption` |
| | `CollabKeepsText` | `[](NothingTypedIsLost /\ TwiceOnlyApart)` | the same |
| | `IdleAgree`, `QuietSaved` | `[]IdleTabsAgree`, `[]QuietMeansSaved` | the same |
| `AccountsProofs` | `TypeCorrect`, `EmailsAreUnique`, `TokensEarned`, `StorageKept`, `AuthorsAreRight` | `[]TypeOK`, `[]OneAccountPerEmail`, `[]TokensAreEarned`, `[]StorageAgrees`, `[]CreatedAsShown` | `AccountsAssumption` |
| `PresenceProofs` | `TypeCorrect`, `OwnersLead`, `OwnEntriesKept`, `GossipIsNews` | `[]TypeOK`, `[]OwnerLeads`, `[]OwnEntryStays`, `[]OnlyNews` | `PresenceAssumption` |
| `RateLimitProofs` | `TypeCorrect`, `BudgetKept`, `SlidingKept` | `[]TypeOK`, `[]WindowBudget`, `[]SlidingBudget` | `RateLimitAssumption` |

*Hub, the rooms.* `TypeOK` is `Types` with `Equipped`: a goroutine that has to
offer a frame has one, a connection that was accepted has a room. Without
`Equipped` the types of `out` and `members` are not inductive. `Rooms`, from which
`RoomsKept` and `MembersKept` follow, adds `RoomsDistinct`: no two entries of the `rooms`
maps share a room, which is why a
fresh room (whose `members` are reset) cannot be somebody's. `SilenceKept` adds
`LoopsServeMembers`: whoever a loop has still to serve is a member of the room the
loop is about. `Leave` waits for the read lock, so a member that leaves is in no
loop, and `Stop` clears the loops of its replica. That is the place where the lock
of `room.go` matters: without it (`LeaveUnlocked`) the invariant breaks.

*Hub, the refinement.* `Traffic` says of every place a frame can be (`inbox`, `cur`,
`out`, `wire`, the bus, the loops) that it was sent for the document of whoever
holds it, and of every place a snapshot can be (`saveQ`, `latest`, `saving`) that it
was sent as a non-empty full state. It rests on `Rooms`: a loop of the room of `d`
reaches only connections of `d`. Each step of the hub is then a `Send`, `Deliver` or
`Keep` of `Relay`, or a stutter.

*Hub, the order.* What a client has sent and the hub still has for one purpose lies at
one of six stages. On the way to the row (`SaveLine`) they are the row, the UPDATE under
way, `latest`, `saveQ`, the frame in the handler's hands, and `inbox`. The invariant: the
numbers at a stage are below those at every stage behind it (`Ordered`), and each stage
that is a queue is in order (`InOrder`). Every step moves a number on by one stage
(`MoveOn`), drops it (`DropOnly`), or adds the highest at the end (`JoinLast`). A crash, a
full buffer and a lost subscription are drops. The frame in the handler's hands counts
until it is published or queued, not longer: that is what rules out that it is taken
twice. `Mine` says that a handler holds frames of its own client only.

Frames have two ways to a connection: by Redis and the subscriber of its replica
(`BusLine`), and, from a client of the same replica, by the sender's own loop (`OwnLine`).
Each is such a line and carries a frame once; only in the connection's buffer, where
they meet, can frames be repeated or change their order. `Arrived` says of what has been
written to a connection and what waits in its buffer, one sequence, how it relates to
what is still `Waiting` on the two ways. From another replica there is one way, and what
waits is newer than what arrived (`Once`). From the same replica, what waits on both ways
is newer than all that arrived, and a frame of which one copy arrived and one waits, or
both arrived, is newer than all before its earlier copy (`Copies`). A third copy would be
newer than itself, which is `LocalAtMostTwice`.

A PUBLISH without an answer may be run at any later time, so its number stands at the bus
stage of `BusLine` for ever. Order is stated up to these numbers, `Late(e)`: the last
parameter `U` of `InOrder`, `Ordered`, `Once` and `Copies`. Such a
number may come behind any other; before all the rest there are only lower ones. `Late` only
grows, and with it the claims get weaker (`LateGrows`); `ServeLate` puts in the bus a
number that stood there before (`LateServed`). On the way to the row nothing is repeated,
and `U` is empty.

*Session.* `OneSocket` and `StatusHonest` are inductive together with the types of the
part of the state they are about (`Inductive`). What they turn on is `Closed`: `close()`
leaves no socket live that was not (`ClosedQuiet`), and `connect` opens a new one
only after it, which is why the proof has one lemma for `Connect` and one for
`OnDocChange`. The other types need `OpenHasDoc`, that a socket is open only for a
document: a handshake without one is refused.

*Text.* The invariant is about every set of edits that anybody could have, not only those
the tabs have. `Kept` says of each such set: if it has all its edits' authors had, and
nobody typed blindly, then all its letters are in its text. `About` says
that an edit deletes what its author saw, and `OwnHeld` that a tab has all its own edits
knew. A new edit deletes copies, but inserts every letter its author saw; whoever has
the edit and all that its author had has the letters, whatever else was deleted apart
from it. `TwiceOnlyApart` follows from `About`: of two copies that both stay, neither
author had the other's, or it would have been deleted.

*Collaboration.* `CollabInv` is the invariant of the text with `TypeOK`: what is in
frames, responses, pending snapshots and the row are edits that were made, so each
`Learn` of the protocol is one of `SharedText`. Applying what is there already is the
same as applying the rest (`LearnLess`). `CollabKeepsText` then needs no argument about the
protocol at all.

*Collaboration, no gaps.* `NoGaps` is about two tabs `u` and `v` that are `Linked`, connected
with no frame missed since, and an edit
that `u` holds and `v` does not: in its document, or in a frame that is still on its way
to `u`. Such an edit is `Coming`: a frame from `u` or to `v` carries it; or `u` will be
asked for all it has, by a request that comes to it *behind* the frame with the edit; or
one of the two has still to ask. The last is why a tab that has not joined the room yet
misses nothing: it has its request before it. Each step passes this on. A frame leaves
`up[u]` for everybody in the room at once (`Turn`, whether buffers are full or not: whom it
skips is not linked any more), and those who are not in it have still to ask.
A request leaves `up[v]` for the end of what is on its way to `u`, behind the edit. A
request that is received puts the whole document into `up[u]`. That the hub sends a
request back to whoever asked is needed here (`RelayToOthers` breaks `TabsConverge`): it
is how a tab that comes back passes on what was typed without a connection.

*Collaboration, what is stored.* Tabs overwrite each other's snapshots, so it is not
enough that each saves its own. A snapshot is `Current` if it lacks nothing of the tab's
document but edits that are kept back. `LastIsCurrent`: no snapshot is a tab's last unless
it is current, or a timer, a request or a later snapshot is under way (`WillSave`), or the
tab has missed a frame, perhaps its own request (`Sure`); it rests on `Growing`, that
later snapshots hold what earlier ones held. `SomeoneSafe`: before anybody has saved, all
will; afterwards some tab is safe (the row is current for it, or it is sure to save, or
its last snapshot was lost), or has lost its connection and will ask when it comes back,
or has left. Whoever saves becomes the safe one. At rest, with no frame missed and no last
snapshot lost, the row is thus current for one tab, `IdleAgree` makes it so for all, and
as nobody has left, the authors of all edits are there with all that the edits stand
behind, so none is kept back. That nobody has left is needed: a tab that saves an old
snapshot and is closed leaves the row behind.

*Accounts.* `AccountsInv` is the conjunction of the five properties with `Fresh` (no two
requests come of one click, and the account of a click comes of a request that is gone, so
no INSERT replaces a row), `Earned` (requests bear what was typed in their browser, and
positive answers an account of which that is true) and `Shown` (a tab that is not apart
shows what is stored, and its requests say so), and `Halfway`: unless two tabs crossed, at
most one tab of a browser is between its two writes, and what it has still to write is the
email of the token that is stored. The second write thus makes the two agree again; that
`WriteToken` sets `crossed` anew is how an undisturbed sign in or out repairs a crossing.
Rows are never changed once made, which is why what was true of a token when it was issued
is true when it comes back.

*Presence.* `OnlyNews` is not inductive: it needs `SaidIsPast`, what a tab has said
about an entry is about an older clock than the one it holds now, or about this one
and not to be said again (it said the entry is there, or said it is gone and does
not show it). Every handler moves the
pair (clock, shown) of the entries it announces strictly ahead (`Forward`,
`ChangeKeeps`), so each line is new. `OwnerLeads` covers the frames in the air as
well as the copies; that an owner told to be gone takes a clock *above* the one it
was told is why it stays ahead.

*Limiter.* `TypeOK` and `WindowBudget` together are inductive. `SlidingKept` adds
`Windowed`: of the requests an address got through, all but the last `used[a]` are at
least as old as the window, and all but these and the `max` before them, those of the
window before, are older than `per`. `used[a]` is at most `max`, so the one that is
`2 * max` requests back is older than `per`.

*Model-checked only.* What needs fairness (`LastSnapshotWins`, `SlowPeersDoNoHarm`,
`HandlersReturn`, `ReconnectsAfterDrop`, `TabsConverge`, `StoreCatchesUp`,
`AdmittedAgain`, `GhostsVanish`, `SeenAgain`): the prover has no rules for fairness and
`ENABLED`. Of the convergence of tabs and row, `IdleAgree` and `QuietSaved` prove what
does not need it. Every invariant and every action property that a run checks is proved.

## 6. Where code and documentation disagree

1. `session_retry` — `ws-sync.service.ts:244` and `:253` promise up to five retries
   with growing delays. A handshake that fails leaves `connectionState` at
   `'connecting'`; the timer calls `connect`, whose early return for that state
   (`:119`) ends the matter. No socket, no timer, no further attempt.
2. `session_apart` — `README.md:11` promises document isolation. `onDocChange` resets
   the Y.Doc when the new id differs from `lastDocId`, and the response of a
   snapshot request is applied to whatever Y.Doc there is (`app.component.ts:172`).
   Select one document and another before the first has loaded, and the text of the
   first is in the second, and is sent to its room.
3. `collab_open` — `hub.go:75` speaks of full snapshots and `ws-sync.service.ts:8` of
   asking *peers* for state. `Room.Broadcast` includes the sender, so a tab answers
   itself; if its snapshot request failed it is empty, and its empty state (two
   bytes) is saved over the stored text.

Met while modelling, and not shown by a run of their own:

- `README.md:11` speaks of operational transformation. An edit is sent as a deletion of
  the whole text and an insertion of all of it, so two edits that cross leave the common
  text in the document twice. `TwiceOnlyApart` says when that happens, and that it
  happens in no other case.
- A logout and a failed request empty the text area and leave the Y.Doc as it is. The
  next letter typed replaces the text nobody sees, for everybody (`blind` in `SharedText`).
- `auth_handlers.go:53` answers "email already in use" to any error of the database.
- A token that expires leaves its tabs as they are: they show the email and the editor,
  and every request fails. (`Expire` in `Accounts`.)

## 7. What is not modelled, and why

- Yjs, bcrypt and JWT are libraries: what they promise is taken as `SharedText` and
  `Accounts` state it. Which of several ends of a document Yjs chooses depends on random
  client ids, so the model allows each.
- Text that a user deletes: an edit of `SharedText` adds a letter to what its author sees, and
  deletes only in order to insert the same letters again.
- Positions in a text: a letter is in the text or not, and how often, but not where. The
  code never inserts anywhere but at the start of an empty text.
- Caches of localStorage: `Accounts` has each read see the latest write of any tab, and two
  writes of one tab seen in their order. Browsers with a process per tab may be later.
- What an entry of the Awareness says, and where cursors are drawn: from the entries and
  the text area of that moment, anew with each frame.
- The list of documents (`ListDocs`, `refreshDocs`), but for the selection it makes in
  `DocSession`; titles and times.
- A page that is loaded anew: the same as a tab that is closed and another that is
  opened, of which the models have both.
- CORS, logging, metrics, configuration, the start of the Angular application
  (`main.ts`): no state that changes. Migrations run one after another before anything
  listens; what two replicas do that migrate at once is up to PostgreSQL.
- Styles, deployment files, scripts: no behaviour to check. What
  they deploy (replicas behind a balancer, proxies) is where `Home` and `AddrOf`
  come from.
- Real time. Timers may fire at any moment, so the models contain the timed
  behaviours and more; that continuous typing postpones every save is beyond them.
- Whom the limiter's key stands for: behind the proxies the repository deploys it is
  their address (`ratelimit.go:38`), which the model takes as `AddrOf` gives it.
- Sizes: the read limit of the WebSocket library and the growth of the maps of rooms
  and buckets, which are never emptied.

## 8. What is left

Every part with state that more than one actor changes has its module, and every
invariant and action property the runs check is proved. What could follow:

1. `Collab` over two replicas with the lossy transport of `Hub` in its fine grain, as a
   refinement rather than by the argument of section 2. TLC cannot finish an instance of it in
   which two tabs edit; it would rest on proofs.
2. For `LastSnapshotWins` and `GhostsVanish`, as was done for `TabsConverge` and
   `StoreCatchesUp`: the invariant that no state of rest is a wrong one.
3. Positions in `SharedText`, to say what a reader sees of two edits that crossed.
