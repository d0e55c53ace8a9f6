# A TLA+ model of ExcaliDash

ExcaliDash is a self-hosted board for Excalidraw drawings: an Express and Prisma
backend over SQLite, a React editor, and socket.io rooms for live collaboration.
The modules here model the parts of it where several actors touch the same state:
TLC checks them on small instances and TLAPS proves the central invariants for
every value of the constants. All paths are relative to the repository.

Contents: [inventory](#inventory), [modules](#modules),
[drawing history](#drawinghistory), [editor sync](#editorsync), [sessions](#sessions),
[the API client](#apiclient), [rooms and rights](#sharedroom), [library](#library),
[dashboard](#dashboard), [files](#files), [onboarding](#onboarding),
[comments](#comments), [OIDC sign-in](#oidcsignin),
[runs and bounds](#runs-and-bounds), [proofs](#proofs),
[what the code does not keep](#what-the-code-does-not-keep),
[not modelled](#not-modelled), [plan](#plan).

## Inventory

| component | state | operations | hard behaviour | what makes it correct |
|---|---|---|---|---|
| Drawing store and history (`routes/dashboard/drawings.ts`, `utils/snapshotDelta.ts`, the cleanup job of `index.ts`, `routes/storage.ts`) | `Drawing` row with `version`; `DrawingSnapshot` rows, full or delta with `baseSnapshotId` | save with optional version, restore, trim, orphan removal, delete history, delete drawing, import, cleanup | awaits between read and write, S3 uploads in between, no transaction around restore, pruning racing saves | a version names one scene; the history is a suffix without holes; what it shows was there; what is overwritten is recorded |
| Editor autosave, recovery, live updates (`pages/Editor.tsx`, `pages/editor/*`, `utils/sync.ts`) | refs of a tab: version, canvas, last persisted scene, element versions told to others, debounced save, queue | load, edit, broadcast, receive, autosave, conflict retry, staleness recovery, unload flush | everything awaits; updates are lost and reordered; answers are lost | the version a tab names is merged into what it shows; merged saves discard nothing; scenes never go back; open tabs catch up |
| Realtime rooms and presence (`server/socket.ts`) | `roomUsers`, the socket's access cache (1500 ms), socket.io rooms | join, cursor, update, activity, disconnect | joins and relays after awaits, disconnect during a join, revocation | presence lists the joined sockets; a relay only reaches members |
| Sharing and access (`authz/sharing.ts`, `collections.ts`, `teamCollections.ts`) | permissions, collection shares, link shares, collection ownership | grant, revoke, link policy, share a collection | revoke and create without a transaction | one active link per drawing; access is the maximum of the grants |
| Collections and trash (`collections.ts`, `trash.ts`, `index.ts`) | `collectionId`, `trashedAt`, the trash collection | move, trash, restore, delete collection, purge | find-then-create, purge racing restore | the purge lists only what is in the trash |
| Files and S3 (`fileProcessing.ts`, `s3.ts`, `storage.ts`, `files.ts`) | S3 objects, `s3File` rows, `files` column | upload, delete removed files, trim, list and delete orphans, prune | upload before commit, deletion fire-and-forget, listings that age | a scene or snapshot that can be shown has its files |
| Drawings list cache (`server/drawingsCache.ts`) | entries with expiry per user and query | fill after an await, invalidate, expire | fill after invalidation, writers that do not invalidate | stale for at most the time to live |
| Sessions (`auth/coreRoutes.ts`, `middleware/auth.ts`, `frontend/src/api`) | refresh tokens, cookies, the client's pending refresh | login, refresh with rotation, logout | several tabs rotate one token | a session has one valid token and stays ended once revoked |
| Bootstrap and mode (`auth/bootstrapSetupCode.ts`, `auth/authMode.ts`) | setup code, attempts, cached flag | generate, verify, toggle | check-then-update, cached flag | one administrator is bootstrapped |
| Accounts and administration (`auth/accountRoutes.ts`, `adminRoutes.ts`) | user rows | register, edit, deactivate | last administrator | someone can administer |
| OIDC sign-in (`auth/oidcRoutes.ts`) | the flow cookie of a browser, `AuthIdentity` rows, roles given by groups | start, callback, provisioning, reconciling at each request | flows of several tabs, late and repeated callbacks, a directory that changes | a flow signs in the browser that started it; roles have grounds |
| API client (`frontend/src/api/index.ts`, `context/AuthContext.tsx`) | cookies of the browser, the CSRF token and the pending refresh of each tab | requests, refresh and retry, CSRF refetch, sign-in state | tabs that refresh at once, answers out of order | the session survives; nothing is repeated for ever |
| Comments (`comments.ts`, `CommentPopover.tsx`) | `Comment` and `CommentReaction` rows, a list in each tab | create, edit, move, resolve, react, reply, delete | events that cross answers and fetches | tabs show what the server has; threads are whole |
| Dashboard (`Dashboard.tsx`, `useDashboardData.ts`) | the list that is shown, the view, requests under way | select, move, delete, duplicate, upload, refresh | answers out of order, bulk operations that partly fail | the list is of the view that is selected |
| Configuration, libraries, other pages, backup to S3 | rows or files of their own | see `PROJECT.json` | little that is concurrent | see `PROJECT.json` |

How they interact. Tabs call the drawing endpoints over HTTP, naming the version
they last saw, and relay element updates through the socket server, which does
not store them. Saves upload files to S3 before their transaction and write
drawing and snapshot in it. The cleanup job and maintenance endpoints write the
same tables without naming a version. Every endpoint asks the sharing module for
the caller's access; list queries go through the cache, which some writers
invalidate. `PROJECT.json` lists every component, and every hazard at its line.

## Modules

| module | what it is |
|---|---|
| `OptimisticRegister` | what the endpoints promise: a log of scenes, saves that are appended only on top of the version they name, maintenance that names none |
| `DrawingHistory` | one drawing on the server, its snapshots, handlers, cleanup job, restarts; implements `OptimisticRegister` |
| `EditorSync` | several tabs on one drawing, with their room and the server, which is `OptimisticRegister` |
| `Sessions` | accounts, refresh tokens, cookies; login, rotation, logout, passwords, impersonation, administration |
| `SharedRoom` | the rights to one drawing, the sockets of its room, access checks and their cache, presence, relays |
| `Library` | drawings, collections, the trash and its purge, the cache of lists |
| `Dashboard` | the page of drawings over the server of `Library`, which it extends |
| `Files` | images: references, objects in the bucket, their rows, and all that deletes them |
| `Onboarding` | the choice of a mode, the setup code, the first administrator, two kept values |
| `Comments` | comments, reactions and replies, and the list of each tab |
| `OidcSignIn` | flows of several browsers, the callback, linking and roles |
| `ApiClient` | the tabs of a browser with one set of cookies: refresh, retry, CSRF tokens |
| `MC...` | inputs and symmetry of the bounded instances |
| `...Proofs` | theorems about the module they extend; `LibraryProofs` is also about `Dashboard`, `EditorSyncProofs` about `Files`, `SessionsProofs` about `Comments` |

`DrawingHistory` and `EditorSync` meet in the register. `DrawingHistory` is shown to implement
it (by TLC as the property `RegisterSpec`, by TLAPS as `ImplementsRegister`), and
`EditorSync` uses the actions of the register as its server. The composition is
therefore checked without multiplying the two state spaces.

Definitions named `Mutant...` are bugs someone might write; they stand before the
definition they would replace, and nothing uses them. Every property is known to
fail under at least one of them.

## DrawingHistory

State: `drawing` (version and scene), `deleted`, `snaps` (rows by id, full or
delta with its base, and with the scene a row was made to record as a history
field), `nextId`, `handler` (what each request in flight holds in memory),
`cleaner`, and the history variable `written` (the scenes stored, in order).

| action | code |
|---|---|
| `SaveRead`, `SaveCommit`, `SaveRollback` | `PUT /drawings/:id`: the row is read, files are uploaded, then one transaction inserts a snapshot of the row read and updates the row if its version still is the one named |
| `RestoreRead`, `RestoreBackup`, `RestoreResolve`, `Rewrite`, `RestoreFails` | restoring from the history: four awaits outside any transaction |
| `TrimRead`, `OrphansRead`, `Rewrite`, `RewriteFails` | the two maintenance endpoints of `storage.ts` |
| `DeleteSnapshots`, `DeleteDrawing`, `Import` | one transaction each; purging the trash is `DeleteDrawing` |
| `CleanupAge`, `CleanupBoundary`, `CleanupExcess`, `CleanupPromote` | the hourly job, a step per await |
| `Restart` | the process stops: handlers and job are forgotten |

Decisions. A Prisma transaction is one step, as SQLite transactions are
serializable. Ids are given in the order of `createdAt`, by which the code sorts.
A scene is a function from element ids to elements, an element one from keys to values,
as a patch of `snapshotDelta.ts` is made of keys; `appState`, `files`, names, previews,
the order of elements and payloads without elements are left out. `RestoreRead` reads drawing
and snapshot in one step, though the code reads one after the other, and a chain
is walked in one step, at its last read. The job's count and boundary queries are
one step. The job counts what it prunes over all drawings, so `CleanupAge` takes
a flag `others`. Imports write the version of the backup file: with `Backups`
nonempty a version no longer names one scene, so the properties that depend on it
are stated for `Backups = {}`, and the ones about the table for any backups.

`GetDrawing` and `History` are what the two reading endpoints answer; they change
no state, and the properties about what is shown are stated of them.

`computeDelta`, `shallowDiff` and `applyDelta` are operators. A patch goes through
`JSON.stringify` (`drawings.ts:777`), which leaves out keys whose new value is `undefined`,
and `Object.assign` puts the rest onto the old element: a key that an element dropped
keeps the value it had in the base (`Assign`). The save's diff against the *columns*
of the newest row, which are empty when that row is a delta, is modelled as it is.

## EditorSync

State: `log`, `pending` (the register), `answer` (responses on their way), `net`
(updates on their way to each tab), and `tab`, a record per tab:

| field | code |
|---|---|
| `phase` | before loading, open, gone; whoever opens the drawing again is another tab |
| `base` | `currentDrawingVersionRef` |
| `scene` | the canvas and `latestElementsRef` |
| `saved` | `lastPersistedElementsRef` |
| `sent` | `elementVersionMap` |
| `timer` | the argument of the last call of the debounced save |
| `queue`, `save` | `saveQueueRef`, and the step of the save at its head |
| `recover` | the step of `useStalenessRecovery` |
| `presses` | only a bound: edits, images added and clicks on the way back |

An element is the three fields `reconcileElements` compares: version, update time
and nonce. Its contents are left out, so frames of a drag that change none of the
three are not told apart. A tab has at most one autosave, one retry and one flush
in flight (`Channels`).

Where code is merged into one action, and why nothing is lost by it:

* `Load` shows any past version, as the request may have been served some versions ago.
* `SaveConflicts` and `SaveGivesUp` take the server's rejection themselves: a stale
  save stays stale, so it does not matter when the server looked.
* `RecoverRead` reads version and scene together; a newer scene would only be one a
  later recovery reads.
* `BroadcastChanges` works on the canvas: `onChange` runs after every update, the
  merges included, by which time `isSyncing` is false again.
* `FlushRemoteUpdates` takes the updates that came since the last animation frame,
  one per element, in any order.

Updates are lost (`reached`) or late (`net`), requests and answers are lost
(`SaveFails`), recoveries fail, tabs close with a flush (`Unload`) or without
(`Leave`, which is also a crash; leaving inside the application first drains the
queue, which is some `SaveDone` steps before). `Restore` is another client's
restore from the history. `SaveFails` withdraws the request if it did not arrive:
a request that the client has given up on but the server processes later is
covered only when its answer is what got lost.

`FilesChange` is what a new image adds to the debounced save and to the broadcasts (the
images themselves are in `Files`). `SaveNow` is Ctrl+S: its message changes no state and comes
whenever its save has left the queue, so no action stands for it. `BackClick` is the way back to the dashboard: it
queues the canvas; the user leaves when that save is done, and stays when it failed.

No property claims that all tabs agree: on equal version and time the remote
element wins whenever the nonces differ (`sync.ts:78-84`), on both sides, so two
tabs may exchange their edits of one element and stay different.

Previews of a snapshot are left out (with them TLC finds 2.6 million states without
a new question). What the code does there: `onPreview` (`Editor.tsx:2348-2392`) puts
the old scene on the canvas without `isSyncing`, so `handleCanvasChange` and
`broadcastChanges` take it for an edit, which is broadcast, and saved under the
current version after the debounce; closing the preview puts the scene back that
was there when it began, without what came since.

## Sessions

State: `account` (role, active, whether a reset is due, and a count of the passwords
it has had), `tokens` (the pairs of tokens that were signed, each with whether it has a
valid row in `RefreshToken`), `jar` (the two cookies of a browser, which its tabs share),
`handler` (what a request has read, or its answer on the way back), and the history
variable `owed`. A pair whose row could not be created (`Issue`: the cookies are on the
response before) and one whose row is revoked are both not valid, as the lookup refuses both
alike. A pair's `session` names the chain of rotations it belongs to, and `opened` the password the
account had when that chain's first handler read it: both are history.

| action | code |
|---|---|
| `Login`, `Issue` | `coreRoutes.ts:465-596`; cookies are set before the row is stored |
| `Refresh`, `RefreshLookup`, `RefreshCommit`, `RefreshFails` | `coreRoutes.ts:598-750`; it fails when there is no valid row, or with the database |
| `Logout` | `coreRoutes.ts:752-774` |
| `ChangePassword`, `MustResetPassword`, `ChangeEmail` | `accountRoutes.ts:286-603` |
| `ResetPassword`, `Impersonate`, `UpdateUser`, `CountActiveAdmins`, `UpdateCommit` | `adminRoutes.ts:276-331`, `593-870` |
| `StopImpersonation` | `coreRoutes.ts:776-858` |
| `Rehash`, `Revoke`, `RevokeFails` | the writes these handlers share, and the errors they swallow |
| `Deliver`, `Lose`, `AccessExpires`, `Restart` | answers, the access cookie's age, the process |

The transaction of a rotation is two actions, between which other requests may run:
more than a serializable database allows, and what the condition on `revoked` in the
second statement is there for. The proofs rest on that condition, not on the isolation
of the transaction.

`ResetByMail` is the password reset by mail (off by default). Its link rows are left
out: whoever has an active account can ask for a link again at any time, so a link
that is used or replaced hinders nobody; a failure to mark it as used ends the
handler as a failed revocation does, and leaves the older sessions.

Left out: what changes no state (expired rows are refused like revoked ones), sign-up
and OIDC, which open a session as `Login` does.

## ApiClient

The tabs of one browser share its cookies (`jar`): the access token, the refresh token
that each refresh replaces, the cookie that CSRF tokens are bound to. Each tab has a
CSRF token and its fetch, one refresh under way, its page, and its requests (`req`),
which the interceptors of `frontend/src/api/index.ts` hold back, repeat once and give
up on. CSRF tokens are checked for every write, and on the routes of the
authentication only while it is on (`CsrfProtection`, `RequireCsrf`).
A request is served with the cookies it leaves with (`Send`, `ServeRefresh`,
`ServeLogin`, `ServeLogout`, `ServeToken`, `Status`, `AuthStatus`, `Me`); its answer and
what it sets come later (`Succeeds`, `Unauthorized`, `Forbidden`, `Fails`) or never
(`Lost`). `ModeChanges` switches authentication while tabs are open.

Share links, OIDC, passwords that must be reset (`index.ts:276-291`), registration and
servers without rotation are left out. What the model shows besides its properties: a
redirect to the login page aborts another refresh of the same tab and can lose the
session; a stale token fetch of the same tab can overwrite a refetched CSRF token;
logout without an access token revokes nothing; a refresh answer that arrives after a
logout puts access cookies back.

## SharedRoom

One drawing: grants (`permission`), collection shares (`share`, `place`), links in
the order of creation (`link`), an administrator's full access, the `socket`s of its room with
the access each has cached (1500 ms: `TTL` ticks), presence (`listed`, by user or by
socket), and `call`, the handlers under way. An access check reads its tables one
after the other (`ReadDirect`, `ReadPlace`, `ReadShare`, `ReadLink`), and anything
may happen in between; `Join`, `ElementUpdate`, `List`, `Relay` and `Disconnect` are
the handlers of `socket.ts`, the others are the endpoints that change rights. `TeamShare`
is the share that a team collection brings. `Pass` is a tick; `lately` remembers how
long ago each visitor could last edit.

Left out: cursors, whose relay does not check again (`socket.ts:244`), names and colours,
password checks of links. A check that is `torn`, that is, that read the grant, the
place and the share from different moments, may give a right that never existed; the
property excepts it and says so.

## Library

The drawings of one user, their collections, the trash with the age of each drawing
in it, the cached lists, handlers and the purge job. Moves, creations, copies,
deletions, imports (of the application's archives and of an old database) and the
deletion of collections are split where they await; lists are filled after the query
and invalidated after the write, which is what `raced` and `Unannounced` speak of.

What the model shows besides: a drawing created, copied or imported into the trash
has no time and is never purged; moving it within the trash starts its time again;
one restored while the purge is at it is deleted; changes of team shares
invalidate no list.

## Dashboard

Extends `Library` with what the page does: it changes its list first and refreshes it
on a failure, with answers in any order. A bulk operation is a batch of requests. The
page's `latest` refresh is the one whose answer is used; `strayed` marks an
operation whose follow-up refresh was made for a view the user has left. `shown` is the
list, and what can be selected is `Selectable`: the cards that are shown, and `stale`,
what has left the list while it may still have been selected. A refresh that succeeds
ends the selection.

What it shows: the menu of a card moves the drawing out of the list and leaves it
selected (`handleMoveToCollection`), so the next operation on the selection acts on a
drawing nobody sees; `sure` therefore asks of a move that what is moved was shown, and
without that `ExactWhenAlone` fails. Besides: that follow-up replaces the newly selected view's list by the old
one's; dropping on the trash in the view of everything leaves the drawing shown; a
removal reappears if a refresh was under way; a bulk operation refreshes at its first
failure, while the rest are under way, and never again. Copies of more than one
drawing at a time do not occur with two drawings.

Three requests or more matter in two places that two requests do not reach, and which
only the proof showed: the requests of a batch are on handlers of their own (`Sends`),
and the deletion of the selected collection ends the being alone of everything else
that is under way (`RemoveSelected`).

## Files

Objects in the bucket, their `S3File` rows, the references in drawings and snapshots,
requests, and deletions that nobody awaits (`jobs`). An upload writes object and row
before the drawing's transaction; a save deletes what it removed afterwards; trims
and sweeps act on lists fetched before; a copy copies objects one by one; restores and
pruning use references of snapshots. `excused` marks the images whose deletion was
under way when their entry was written, or whose entry came back later. `hit` says of a
request which files were deleted, or excused in what it read, since it began: what it
writes at its end is excused for these.

What it shows: a crash in a sweep leaves an entry without object; a failed copy keeps
references to the original's objects; the clean-up of a save deletes images that
snapshots refer to, though pruning counts them; deleting all snapshots leaves their
images in the bucket; trims and sweeps write without the version check. The legacy
endpoint of files, the confirmation by name and the mode without S3 are left out.

## Onboarding

`Register` to `Create` are `POST /register`, with the setup code's check, its use and
the activation as steps; `Reissue` and `Issue` make a new code; `Choose`, `Toggle` and
`Switch` set the mode; `OidcCallback` is the first sign-in in hybrid mode; `Miss`, `Load`
and `Store` keep a value for `TTL` ticks. `Restart` may come back in another mode.
`since` remembers how long a value has been different.

What it shows: one code can be used by two registrations that are under way at once
(the README calls it one-time); two choices at once both succeed, the later one counts.
Whether registration is open is a choice of the model.

## Comments

The rows, the list of each tab with its room membership, the requests of the clicks,
the lists under way (of the tab just opened, and one for each move that failed) and
the events on their way. A tab may have several of each: nothing in the
popover waits for an answer. A handler checks, writes and tells the room in three
steps. The list has the newest `ListLimit` comments; the editor never asks for more
(`Editor.tsx:1007`, `:1654`). `missed` is a history variable. A comment of a tab gets
into it when

* the tab is not told: it is out of the room, its socket drops, the event is skipped as
  that of the user's other tab, an answer is lost, or a list has no room for it;
* it is told in the wrong order: an event overtakes that of an earlier write (`late`), or
  counts what a list has already counted (`CountedTwice`);
* a reaction without effect is announced (`Misled`);
* the list changes while an answer is still to come that will set the whole comment back to
  its click (`Pending`): by an event, by another answer, or by a list.

A list that arrives ends it for all comments, but for what happened since it was read
(`seen`). TLC refutes `ExactUnlessMissed` when an answer, an event or the limit does not
add to `missed`.

What it shows: other tabs of the same user skip events; two people who toggle one comment
may both see the same result, and one is lost; reactions without effect are announced and counted;
the answer to a request puts back the comment as it was at the click, and so undoes what
came in between, of others or of another request of the same tab: who edits a comment
and resolves it before the first answer gets the old text back;
beyond 50 comments the older ones are not shown; a tab does not reload its list when it reconnects. The numbers of replies and deletion
of the drawing are left out. The users are finite in number, as the counts of
reactions are.

## OidcSignIn

Flows (`starter`, the browser that began each), the flow `cookie` of a browser, the
codes the provider would still exchange, the callbacks under way (`handler`), the accounts
with their links, the sessions with the groups in their token, and the provider's
`directory`, which changes when it likes. `Callback` and `Exchange` are the checks of
state and code; `ResolveLinked`, `ResolveByAddress` and `ResolveNew` are the three ways
of the transaction; `Arrives` sets cookies. `Request` is `reconcileRoleFromOidcGroups`.

What it shows: two tabs overwrite each other's flow cookie, and both sign-ins fail; the
groups of a session are frozen when it begins and copied by each refresh, so two
sessions can turn the role back and forth (`README.md:328` says it is reconciled on each
request); where the provider signs with another algorithm than the one that was picked
(`AlgorithmDiffers`) the second attempt sends a code that is spent. An administrator may
create accounts meanwhile (`CreateUser`). The provider, the way back into the application
and the audit log are outside of the model.

## Runs and bounds

| run | instance | what it asks |
|---|---|---|
| `DrawingHistory` | two handlers, two elements, three bodies, a keyframe every 2 saves, two rows kept, 3 versions, 3 snapshots | saves, restores and maintenance that race: the table and the register |
| `SnapshotChain` | one handler, one element with two keys, of which one is dropped when it is marked deleted, that is trimmed, a keyframe every 3 saves, three rows kept, 5 versions, 5 snapshots, one backup | chains of deltas that are pruned while they grow |
| `EditorSync` | two tabs, one element, 3 versions, one press, a queue of 1 | saves, conflicts, recoveries, updates that are lost or late |
| `Sessions` | two accounts, two requests, one browser, two pairs and the rotations under way, one new password each and its reset, deactivation | rotations, revocations and passwords that overlap |
| `ApiClient` | two tabs, one of them being opened, two requests at once in each, two that users make, one event | refreshes, retries and tokens of several tabs |
| `SharedRoom` | an owner, a guest and a visitor without an account, two sockets, a check, a request that changes rights, one collection, one link, a cache of one tick | checks and joins that are overtaken |
| `Library` | two drawings, a collection, one request beside the purge, two archives, two views, a purge after one tick | the trash, its purge, lists that are kept |
| `Dashboard` | two drawings, a collection, three views, two requests, no cache, no archives; one drawing selected out of sight, while no refresh went wrong and no other tab acts (`StaleBound`) | a page whose lists come out of order |
| `Files` | one drawing and its copy or its original elsewhere, one image, two requests, one snapshot | the three stores of an image |
| `Onboarding` | one person, two requests, one attempt, values kept for one tick, one restart in either mode | the first administrator |
| `Comments` | two tabs of two users or of one, two comments, the first with the owner's reaction (`MCInit`), a list of one, two requests, of one tab or of both, one dropped socket | lists that events and answers keep up |
| `OidcSignIn` | two persons with two addresses, one local account, two browsers, two callbacks, two flows, one change of the directory | flows that cross |

Why they are enough. Two handlers race in every pair of handlers, and a third
only adds another committer, which a second request of the same handler also is.
Five snapshots with an interval of 3 and three rows kept give chains of keyframe
and two deltas, two keyframes, and pruning inside a chain. With three versions a
tab's save can conflict, be retried and conflict again, and a recovery can read
between the two. `VersionBound`, `SnapshotBound`, `LogBound`, `RevisionBound`,
`QueueBound` and `Presses` bound counters that the code does not bound. In `Sessions`
two pairs are one rotation, or two sessions, which the properties speak of in pairs, and a
rotation that began before may still add its own, so that two tabs can turn in the same token;
one browser is enough because a request keeps the cookies it came with while another
account signs in. A login, a rotation or an impersonation begins only when `TokenBound`
leaves room for its pair; rotations under way and the end of an impersonation may go over
it. `PasswordBound` bounds the passwords, but for a reset that is due.
In `ApiClient` one event is one of: the access token expires again, a request or its
answer is lost, authentication is switched; the CSRF cookie or the switch that came
before is chosen in `Init`. In `SharedRoom` one change between the reads of one check
is each revocation at each place; longer sequences are what the proof adds. In
`Library` one request is enough for every step to meet the purge, and two requests
meet each other in `Dashboard`; the proof covers any number. In `Comments` a list of one
comment, of two, is the 50 of the code. `RequestBound`,
`CommentBound`, `DropBound`, `SnapBound`, `FlowBound`, `CallBound`, `LinkBound`,
`ChangeBound`, `EventBound` and `RestartBound` bound what people and faults do.
What the proofs cover (see below) holds for any values of all these.

Handlers, tabs, sockets, browsers and elements are interchangeable where `SYMMETRY` is
used; never in a run with a liveness property. Deadlock is checked for `DrawingHistory`,
`SnapshotChain`, `SharedRoom`, `Library` and `Dashboard`. It is not for the others,
which may really stop: when all tabs are gone and the log is full (`EditorSync`), when
all accounts are inactive (`Sessions`), or when everything that was to be done within
the bounds is done (`ApiClient`, `Files`, `Onboarding`, `Comments`, `OidcSignIn`).

Fairness.

* `EditorSync`: `RecoverRead` is weakly fair because the heartbeat compares versions
  every 45 s while the tab is visible; `RecoverApply` is strongly fair, that is, its
  two requests do not fail for ever. Nothing is assumed of saves, updates or users. As
  `LogBound` ends all saving, `TabsCatchUp` says what happens once saving stops.
* `Library`: time passes, the hourly job starts and ends, and gets, each time anew, as
  far as another drawing of its list; all but the first are strong, because a
  restart may interrupt the job any number of times but not for ever.
* `Onboarding`: time passes, requests are answered; somebody who has the code from the
  log registers again and again, and sooner or later before the code has expired or
  was locked: it is good for minutes, a registration takes less than a second.
* `ApiClient`: what goes on by itself goes on (`Progress`), in whichever tab. As what
  users and faults do is bounded, no tab need be preferred.

What the properties say:

* `VersionNamesScene`, `VersionedSaveRecordsOverwritten`, `RegisterSpec`: a save
  that names a version overwrites only what its author saw and records it in the
  same step, although the row it records was read before the uploads.
* `HistorySuffix`, `KeyframeSpacing`, `AnchoredRowsResolve`,
  `NoHistoryWithoutDrawing`: whatever races with the cleanup job, what is left is
  the newest part of the history, and each row above a keyframe can be shown.
* `FirstDeltaExact`, `NothingSavedIsMissing`: one delta away from a keyframe what is shown
  has exactly the elements that were saved, with all their keys, and at most keys they
  have dropped since the keyframe; further on it never lacks an element or a key.
* `BaseIsCovered`, `MergedSavesKeepRivals`: the version a tab names is merged into
  what it shows; so a retry or a flush takes nobody's element off the server.
* `AcknowledgedIsSaved`: the answer a save waits for names a version that holds all
  that was queued, also after a conflict and a merge. Of saves without an answer it says
  nothing, and Ctrl+S reports those as saved too (see below).
* `ScenesNeverGoBack`: no merge replaces a newer element.
* `TabsCatchUp`: a tab that stays open ends up with what the server has.
* `OneLiveTokenPerSession`, `SessionsStayDead`: tabs that rotate one token at once get
  one valid token between them, and none if the session was revoked meanwhile.
* `OldPasswordsOpenNothing`: once the revocation that a new password calls for was
  made, no chain of rotations carries an older password on. It says what is excepted:
  the time before the revocation, which a crash or a swallowed error makes endless,
  and rows stored after it by a handler that had read the account before.
* `SessionSurvives`, `RefreshedOnce`: tabs that refresh at once are refused, but the
  browser keeps a live token, and no tab turns in a token twice.
* `WritesPassCsrf`, `RequestsSettle`: a write is refused for good only when the cookie
  of its token was replaced under way; nothing is repeated for ever.
* `RelaysAreAuthorized`: no check, however its reads are overtaken, extends a right
  beyond the life of the cache, except a check torn between its tables.
* `ListedUnlessReplaced`, `GhostsJoinedLate`: a disconnect takes nobody else off the
  list, and who is listed after leaving left during a join.
* `StaleOnlyWhenRaced`: a kept list is wrong only if it was read before a change and
  kept after it.
* `TimedOnlyInTrash`, `TrashIsPurged`: a drawing that is in use is never due for the purge,
  except after an import over the trash or the deletion of it, and each that is due is
  deleted at last. One that is restored after it was listed is deleted too.
* `ShowsTheSelectedView`, `ExactWhenAlone`: lists that come out of order do not
  replace one another, and the changes a page makes to its list by itself are right.
* `VisibleImagesExist`: no order of uploads, copies, trims and deletions takes away an
  image that is shown, except those `excused`.
* `GuessesAreBounded`: guesses at once are more than the limit by the requests under
  way, and no more.
* `KeptIsRecent`: a kept value that is wrong became so within its lifetime, whoever
  stored it when.
* `FirstAdminArrives`: codes expire, are locked, lost and replaced, and still there is
  a first administrator.
* `ExactUnlessMissed`, `ThreadsAreWhole`: a list is right but for what the tab was not told, was
  told out of order, has set back by a late answer or has no room for; and no reply
  outlives its comment.
* `AnswersItsOwnBrowser`, `AdminsHaveGrounds`: no callback signs another browser in, and
  nobody becomes administrator by a group that no one who signed in to the account was in.
  An account that was in it once keeps its grounds, so an old session that makes it
  administrator again is not excluded; administrators of the start are outside.

## Proofs

Every theorem is for any values of the constants, under the named `ASSUME` of its
module, which TLC evaluates too. Each rests on an inductive invariant that TLC checked
first on the instance above. All of them are safety of `Spec` (`DashSpec`, `FilesSpec`,
`CommentsSpec`), without fairness.

`DrawingHistoryProofs`. `TableInv` (types, `HistorySuffix`, `KeyframeSpacing`,
`FirstDeltaExact`, `NoHistoryWithoutDrawing`) is inductive; the parts need each
other, as a row is only counted correctly when the history has no hole. It yields
`TypeCorrect`, `HistoryIsSuffix`, `KeyframesAreSpaced`, `FirstDeltasAreExact` and
`DeletionIsComplete` for any handlers, elements, interval, retention and backups.
`VersionInv` adds to `VersionNamesScene` that no save names a version newer than
the row it read, without which the check at commit would not vouch for that row;
it yields `VersionsNameScenes`, `SavesRecordWhatTheyOverwrite` and the step
simulation of `ImplementsRegister`, all under `Backups = {}`.
`Resolution` is a recursive function, so the module first shows that it exists and what
it gives a keyframe and a delta; both by the least number that would be a counterexample,
as induction is out of reach. With `TableInv` the chain below a row is whole down to a
keyframe, which is `AnchoredRowsAreShown`. `RowsRecord` says that a full row holds the
scene that was saved, and that a delta whose base was computed from the columns of its base row
differs from that by what was saved; it yields `HistoryLosesNothing`.

`EditorSyncProofs`. `BaseIsCovered` is not inductive: `SaveDone` moves a tab to a
version that only its own save put there. `IInv` adds that every save in flight
names a version that exists, that what a tab has in flight or has been answered is
covered by what it shows (`OwnSavesAreShown`), likewise its timer, its queue and
what it read, and that an unopened tab has nothing under way. It yields
`TypeCorrect`, `BasesAreCovered`, `MergedSavesDiscardNothing` and `ScenesOnlyGrow`
for any number of tabs, elements, versions and queued saves. `QueuedIsCarried` follows the
scene at the head of a queue through its save, a conflict and the retry: each channel of a
tab is empty outside its step, a request and an answer are never both on the way, and what
they and the row hold covers the scene. It yields `AcknowledgementsAreTrue`.

The second half of that module is about `Files`. `VisibleImagesExist` is strengthened to
`OwnAreServed`, which does not ask whether an image is shown, and
`CondemnedAreExcused`: a deletion that nobody waits for is of what has no entry, or an
excused one. `HandlerOK` says of each request what it has uploaded, entered or fetched
so far, as far as it was not `hit`: what a save keeps is served (`PutOK`), what a sweep
deletes is nothing it writes an entry for (`SweepOK`, `SweepFits`), and what a failed
copy may delete is nothing that is shown (`CopyOK`, `CopyFits`). It yields
`FilesTypeCorrect` and `ImagesExist` for any drawings, images, requests and snapshots. The
attempt showed that a save has to keep what was excused when it read the drawing: the
`hit` of `Put` had left it out, which one image and two requests do not show.

`SessionsProofs`. The invariant adds to the three that TLC checks that a chain's name
is the number of its first pair (`SessionsAreChains`); without it a new row might join
a chain that has ended. It yields `TypeCorrect`, `TokensAreSingle`,
`OldPasswordsAreShutOut` and the action property `EndedSessionsStayEnded` for any
accounts, browsers, requests, patches and bounds.

The second half of that module is about `Comments`. `ThreadsAreWhole` needs of a request
that the parent it has checked for a reply is one that was made and, if it is
still there, is not a reply itself (`RequestOK`); ids are not used twice, so it never
becomes one. It yields `CommentsTypeCorrect` and `RepliesHaveComments` for any users,
tabs, comments and requests.

`ApiClientProofs`. Four invariants, which are inductive together, for any number of
tabs and of requests in each. `TabsOK`: what a page waits for, which slot holds which
request, and that only an answer that succeeds sets a cookie. `TokensOK`: each answer on its way
with a refresh token carries a row of its own, which lives as long as the session
was kept, which nobody has turned in, and which is not the browser's yet; so whichever
answer comes last leaves a live token (`TabsKeepTheSession`). `UsedOK`: while the browser
still holds the token a tab turned in, the answer is on its way to that tab, in its one slot for
refreshes (`TokensAreUsedOnce`). `CsrfOK`: a request under way since the cookie was
last replaced finds every token that is being fetched to be right, and on its second try
the tab holds none or the right one (`WritesAreLetThrough`).
Most steps are of one shape (`GoesOn`: requests of a tab end, wait or begin, and nothing
comes to it), which is proved once.

`SharedRoomProofs`. `CallsOK` says that what a check has read was true at some moment
since it began, unless it is torn, that a handler acts for the visitor of its socket,
and that one whose socket went away while it joined is known to be late. `EntriesOK`
says of each cached access what `CallsOK` says of a check, with the age of the entry;
`ListedOK` is the two properties of presence. They yield `EditsAreAuthorized`,
`TabsStayListed` and `GhostsAreExplained` for any users, sockets, checks, requests, links
and any length of the cache.

`LibraryProofs`. `ReadsAreFresh` says that a list which was read and not yet kept is the
list there is, or is known to have been overtaken; `PurgeIsAtIt` that the job has
drawings to delete only while it runs. With them `ListsAreTrue` and `TimesBelongToTheTrash`
are inductive, for any drawings, collections, archives and number of requests. The
module also holds the proof about `Dashboard`: `LatestIsUnderWay` says that the latest
refresh is a request under way, for the view that is selected unless it strayed. Only
its answer changes which view the list is of, so `ListsFollowTheView` holds of `DashSpec`.

`PageIsExact`, that is `ExactWhenAlone`, rests on three invariants. `PartsOK`: the types
of page and server, and of each request what it can be at, given what the page wants of
it. `AloneOK`: whatever is under way beside a request that is alone is of the same batch,
and the answer to a refresh that is alone is the list, or is known to be overtaken.
`SureOK`: where the page is sure, nothing but one batch is under way, and what it still has to do
is all that tells the list on the page from that of the server. Drawings to be moved are
shown already where they fit (`MovesFit`), those to be deleted are still shown
(`DeletesFit`); once one of a batch has failed (`Stopped`) a refresh will follow, which
ends being sure. It holds for batches of any size, any views and any kept lists.

`OnboardingProofs`. `ReadIsRecent` extends `KeptIsRecent` to the values that requests
have read and not yet kept. It yields `GuessingIsLimited`, which counts a set of
handlers and needs it to be finite, and `StaleForItsTime`.

`OidcSignInProofs`. `FlowsAreOwned` follows a flow from its cookie through the callback
to the answer; `SessionsAreBacked` says that the account of a session is there and has
grounds for what its token claims, on the way as well; `LinksHaveRows` that only
accounts are linked. They yield `FlowsSignInTheirStarter` and `RolesHaveGrounds` for any
persons, accounts, browsers, callbacks and settings.

Model-checked only:

* liveness (`TabsCatchUp`, `TrashIsPurged`, `FirstAdminArrives`, `RequestsSettle`), which
  the prover does not do;
* `ExactUnlessMissed` of `Comments`. Said as it comes to mind, its invariant sums the
  reactions that are in the queue, a fold over a sequence of any length, and what that is
  after one more event takes induction over data. It may be within reach without a sum:
  the pending reactions of one user alternate, so the first of them says whether the list
  counts that user. That takes an order of the writes to a comment, which the model does
  not number, and was not attempted.

## What the code does not keep

Found while modelling, with TLC or by reading; no run stands for these.

* A delta of a delta is diffed against empty columns (`drawings.ts:755`), so removals
  are not recorded and the history shows removed elements.
* A patch says nothing of a key that an element no longer has (`snapshotDelta.ts:111-130`,
  `drawings.ts:777`), so the history shows the key with its old value. Of files, a delta
  records those added and removed, and not one whose data changed under the same id.
* Promotion of orphaned deltas can never succeed (`index.ts:862`), as the base of the
  oldest row has just been pruned; one is dropped per pass.
* A save between a restore's read and its update (`drawings.ts:1369`) is overwritten and
  recorded nowhere, so the restore cannot be undone.
* A scene captured before a merge is saved under the merged version (`Editor.tsx:1238`),
  which takes the merged elements off the server. The tab still shows them, and the
  next save of any tab that has them brings them back.
* Ctrl+S shows "Saved changes to server" (`Editor.tsx:1752`) after a save that failed or was
  given up as well, beside the error: `enqueueSceneSave` suppresses errors by default (`:1300`).
* Active administrators are counted before the update (`adminRoutes.ts:642`, `:299`), so
  two of them who remove each other at once leave none.
* Links are revoked and created without a transaction (`drawings.ts:1194` says there is a
  single active link): two policies at once leave two.
* The answer to a registration without a usable code announces a new one
  (`coreRoutes.ts:230`), which is not issued on a server that first ran without sign-in
  and is restarted in hybrid mode (`bootstrapSetupCode.ts:77`).
* The setup code is called one-time (`README.md:246`, `:262`); two registrations at once
  may both use it.
* A drawing restored from the trash after the purge has listed it is deleted
  (`index.ts:934-943`).
* Two requests of one tab on a comment undo each other on its page: edit, then resolve
  before the answer (`CommentPopover.tsx:184-309`), and the old text is shown.
* A drawing that is moved from the menu of its card stays selected (`Dashboard.tsx:473`):
  a bulk operation afterwards moves or deletes it as well, for good in the trash.
* Roles are said to be reconciled on each request (`README.md:328`), with groups that are
  those of the sign-in.

## Not modelled

`PROJECT.json` gives every component with its status and the reason. Pure functions
of one request (sanitising, redirects, names), the provider of OIDC, the forms of the
pages, libraries, configuration and deployment carry no state that several actors race
for. The backup to S3 copies a file at intervals. Within `EditorSync`: the order of
elements, the guards against empty scenes, previews. Each module's section above says
what else is left out of it.

## Plan

The modules of the first plan are written, and their safety is proved but for one
invariant. What is next:

1. In `ApiClient`: passwords that must be reset, whose requests are refused until they are.
2. The hazards that have no property: two tabs that exchange equal versions
   (`sync.ts:79`), an edit that a merge takes for one already told
   (`reconcileRemoteScene.ts:75`), the last administrators (`adminRoutes.ts:642`).
