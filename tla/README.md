# Lectern server: TLA+ verification

Lectern's server (`src/`, C++20 on Drogon and SQLite) keeps accounts' documents as
files, shares them, and tells every connected client of changes. This directory
models its concurrent core in TLA+, checks the models with TLC on small instances,
and proves theorems about eight of them with TLAPS for every value of the constants.

- `SyncHub`, `Workspace`, `PathRules`, `RateLimiter`, `Accounts`, `Sharing`, `PdfExport`,
  `Fonts`, `Migrations`, `Downloads`: one module per component.
- `Server` composes `Migrations` with `Downloads`: a process and what it keeps in memory.
- `FixedWindow` and `Upgrades`: the abstract specifications of the limiter and of the
  migration runner.
- `MC*.tla` with their `.cfg`: the small instances.
- `SyncHubProofs`, `WorkspaceProofs`, `RateLimiterProofs`, `AccountsProofs`,
  `SharingProofs`, `PdfExportProofs`, `FontsProofs`, `ServerProofs`: theorems and proofs.
- `PROJECT.json`: components, runs, mutants, the source lines of every definition,
  hazards, findings and theorems.

A run: `tlc -workers 2 -config MCSyncHub_hub.cfg MCSyncHub`. A proof: `tlapm SyncHubProofs.tla`.

## 1. The system

Requests run on Drogon's IO threads. A handler runs to its end on one thread, and
handlers on different threads run at once. There is one SQLite connection behind a
mutex, so a statement is atomic and two statements of a handler are not; the only
transactions the code opens are those of the migrations. No lock protects the files.

| Component | State | Operations | Hard behaviour | What makes it correct |
|---|---|---|---|---|
| Live-sync hub, `sync_hub.cpp` | connections with device, pending frames and watches; two counters; timers | fAdd, fRemove, fHandle (hello, watch, unwatch, ack, ping), fNotify, fExpire | the mutex is left around every send, schedule, resolve and close | a client that missed a change is told or dropped; nobody hears of what is not theirs |
| WebSocket glue, `sync_ws.cpp` | the sockets | accept, message, close, fNotifyChanges, timers on the main loop | half-open sockets, reconnects, restarts | every connection is asked to catch up |
| Workspace files, `workspace.cpp` | the tree on disk, `deleted_files` | list, stat, read, PUT, folder, DELETE, move, deleted list | several system calls and statements per request, no lock | tree, tombstones, announcements and quota agree |
| Atomic write, `util.cpp` | temporary files | open, fill, rename, fallback | failures, process death | no document is half written |
| Path validation, `workspace.cpp`, `share.cpp` | none | fSafeRelPath, fEffectivePath | separators, dots, validated twice | one key per file, inside the root |
| Rate limiter, `state.cpp` | buckets | fIsLimited, fRecord with a lazy sweep | asked and told in two critical sections | fixed windows with a bounded overshoot |
| Accounts and sessions, `auth.cpp`, `session.cpp` | users, sessions | register, login, logout, sliding expiry, purge | statements of several requests interleave | logout is final, idle sessions end, accounts and tokens last |
| Sharing, `share.cpp` | shares, share_links, comments | share, unshare, link, comment, read and write through them | check-then-act on tables and files | access is what the tables grant; share ids last |
| PDF export, `export.cpp` | slots, temp dirs, browsers, a CDP session per render | queue, spawn, connect, command, await, clean up | a loop thread, timeouts, dying browsers | bounded browsers, nothing left behind, every request answered |
| Custom fonts, `fonts.cpp` | `custom_fonts` and a file for each row | list, upload, read, delete, embedding in an export | row and file written and removed in separate steps, a name that must be unique | an answered font has both; a family survives its replacement |
| Release downloads, `downloads.cpp` | a listing and its age | latest, asset | detached threads that store in any order | a listing served is no older than its time |
| Migrations, `db.cpp`, `migrations/` | the schema, `_migrations` | check, begin, run, record, commit or roll back | several processes, old and new, one of them serving; death at any statement | scripts whole, in order, once; no row lost |
| Start-up and plumbing, `main.cpp`, `http.h` | configuration | start, serve, throw and end | restarts | nothing is served on a database that is not ready |

How they meet. Handlers of `workspace.cpp` and `share.cpp` change files and then call
`fNotifyChanges`, which is `Hub::fNotify`. The hub asks `share.cpp`'s `fResolveWatch`
what a client may follow. Every path of a request passes `fSafeRelPath`. Login,
registration and anonymous comments ask and tell the limiter. All of them use the
one database. The modules meet at the same points: `SyncHub`'s `Commit` is a handler
of `Workspace` or `Sharing` that has changed files; its `MayFollow` is what the
resolver of `Sharing` grants; `Workspace`'s requests carry keys that `PathRules`
accepted; `Sharing`'s `Rearrange` is what `Workspace` does to the owner's files;
`Fonts`' `Export` runs on the render thread of `PdfExport`; the tables of all of them
are those the scripts of `Migrations` make, before anything is served.

## 2. The modules and the code

**SyncHub** (`sync_hub.cpp`, `sync_ws.cpp`). A thread is an IO loop, and it serves one
handler at a time; `phase[t]` says where it is. Each critical section of
`Hub::mutex_` is one action and so is each call outside it:
`Accept` (handleNewConnection, fAdd), `SocketClosed` (fRemove), `Gather` (fNotify's
loop), `Track`/`SkipGone`, `Send`, `Arm` (the three parts of fSendTracked), `Expire`
and `Close` (fExpire), `Hello`, `Ack`, `AskWatch`, `SetWatch` (fHandle), `Restart`.
The client side is external: `HangUp`, `Deliver`. A client that hangs up may leave a
half-open connection behind; frames may overtake each other and be lost with their
socket. The history variable `missed` records for each client what changed since it
last looked, and makes "not told" a state. Texts of frames, and the replies that
change nothing (pong, nacks, the ack of a hello), are left out.

**Workspace** (`workspace.cpp`, `share.cpp` fWriteThrough, `util.cpp` fWriteFileAtomic).
The tree is a function from paths to contents and a set of directories. Each system
call and statement is an action: `Exists`, `CheckQuota`, `Parents`, `OpenTemp`,
`FillTemp`/`FillFails`, `Replace`, `RemoveTarget`, `ReplaceAgain`, `ClearTombstone`
(PUT); `RemoveOne`, `Collect`, `RemoveAll`, `RemoveEntry` (DELETE); `Look`, `Rename`,
`ClearDest` (move); `Record`, `Recorded` (tombstones), whose statements may fail and be
swallowed (`Swallowed`); `Folder`; `Notify`; `Walk`, `Listed` (the listing, which reads one
folder after the other while the tree changes); `Crash`. The walks of the quota and of the
collection are one step each, and `CountTorn` is the walk of the quota that is torn because
another handler replaces, moves or removes entries meanwhile. `HasRoom` checks what
fCheckQuota checks: is_regular_file sets the error code where there is nothing, and the
check is then left, so a new file (`IsNew`) is let in whatever its size. No body is longer
than `ClientMaxBodySize`, the limit the server is started with (`main.cpp:219-226`).
remove_all removes entry by entry, since it is there that it can fail half way. Temporary
files are files of the tree.

The file system may refuse what a handler asks of it for reasons of its own: at a call that
has changed nothing, which ends the request in an error (`Refused`); the rename of a filled
temporary file onto a document that is there, the removal of that document, and the second
rename, after which the document is gone (`Replace`, `RemoveTarget`, `ReplaceAgain`); the removal
of a temporary file (`DropTemp`); any entry of remove_all, with others already gone
(`RemoveEntry`).

Not everything is right when requests meet (two about one entry that do not both write it,
or about a folder and what is or would be in it), when the process dies between a file and
its tombstone, when a tombstone's statement fails, when a count is torn, when a document has
been removed and the file system refuses the second rename or the rest of remove_all, when a
temporary file cannot be removed, or when a plain file is deleted with isDir=true, for which
the walk finds nothing to remember: the code keeps no lock and no journal. The model records
such a *mishap* by the paths it concerns in `unsure`, and the properties say that everything
is in order at every other path, which is what a careless handler would break. They say
nothing for the paths themselves: there documents may go without a tombstone and without an
announcement. `OneMishap` bounds a run to one (but for the last kind, which any request may
be); the proofs do without that bound. `unweighed` records the new files that were let in
unchecked since a write last had the tree counted, of which `WithinQuota` says nothing. What
the code loses by all this against what its documentation says is shown by three runs of their
own, without these allowances.

**PathRules** (`fSafeRelPath`, `fEffectivePath`, `fOwnerFullPath`). The code's loop over
characters, as a fold, next to a reference that says of a text what its components are
(`Components`: the pieces between separators that are open to the left and right, in
order) and where they lead (`Leads`). The state is only the enumeration of the two texts,
which `MCSharing` goes through beside `Sharing`.

**RateLimiter** and **FixedWindow** (`state.cpp`). `Admit` is fIsLimited, `Record` is
fRecord with its sweep of everybody's buckets, `Tick` the steady clock; a handler
holds in `doing` what it was admitted for. `FixedWindow` is what callers are promised:
per key the hits of the current window and the time it still lasts.

**Accounts** (`auth.cpp`, `session.cpp`, `main.cpp`). `Query`, `Judge`, `Drop`, `Slide` are
the statements of fCurrentUserId, `Logout` fDestroy, `Find`, `Mint`, `Start` login,
`Count`, `Insert`, `Start` registration, `PurgeNow`, `PurgeExpired` the purge, `Fail` an
exception or the death of the process between two statements. Random ids are
successive numbers. Cookies are taken as genuine and passwords as right: a wrong one
changes nothing but the limiter.

**Sharing** (`share.cpp`). `Share`, `Upsert`, `ReadBack`; `Link`, `InsertLink`; `Unshare`,
`Unlink`; `See`, `WriteThrough`, `CommentByShare`/`CommentByLink`/`CommentOwn`, `Look`, `Answer`,
`InsertComment`, `DeleteComment`. A request resolves its share or link in one statement
(`ShareResolves`, `LinkResolves`: row, grantee or token, sub path), checks the level in the branch
of its kind, looks at the file, and acts in a step of its own, while owners lower, revoke and make
shares again. The history `allowed` holds what its user or token had been granted when it came,
reckoned from the tables and not from the branches. Bodies, authors and listings are left out.

**PdfExport** (`export.cpp`). The render thread from `Request` to `Answer`, in the order
of its destructors (`Disconnect`, `Kill`, `Remove`, `Release`); the loop thread
(`ReceiveReply`, `ReceiveLoad`, `ReceiveClose`, `ReceivePaused`, `AnswerPaused`); the
browser, external, which may say what it owes in any order (`Say`) or die (`Die`). What it
owes includes the load event of about:blank, which may come at any time after Page.enable
(`Owes`). `Remove` may be refused, and the directory then stays (`refused`). The commands from
createTarget to Page.enable are one command.

**Fonts** (`fonts.cpp`). `Upload`, `WriteFont`, `FindSame`, `RemoveFile`, `DropRow`, `Insert`
are the steps of POST, `Delete`, `RemoveFile`, `DropRow` those of DELETE; `Export`, `Embed`,
`Embedded` those of fEmbedAccountFontsStyle, on a render thread, and `Exported` what it returns. A
lookup that throws is caught and embeds nothing; a file that is gone or cannot be read is
passed over. Each of the handlers may throw (`Fail`), and `Crash` ends all of them. `kept` and
`served` are histories: the fonts and families that were answered and not asked to go; `had` is
what was kept when an export's lookup was made, against which its style is held.

**Migrations** (`db.cpp`, `main.cpp`, `migrations/`). The scripts are written down statement
by statement and run on a database that is a set of tables, columns, indexes and rows.
`Start`, `Check`, `Begin`, `Run`, `Commit`, `Throw`, `Serve` are the steps of fMain and
fRunMigrations for each of several processes, of releases that ship different numbers of scripts
(`Ships`). SQLite is external: one writer at a time, a transaction nobody sees before its
COMMIT. `Comment` is a process that serves while another starts. `Upgrades` is the promise:
structure and ledger go from script n - 1 to script n together.

**Downloads** and **Server** (`downloads.cpp`, `main.cpp`). `Ask`, `Look`, `Store`, `GiveUp`
are the detached thread of a request, `Tick` and `Publish` the world. A listing is known by
its lag, how long it has been out of date. In `Server` only a process that serves has a
page, and its cache goes with it.

## 3. What the runs check

| Run | Instance | Properties |
|---|---|---|
| `hub` | one device of the account and one anonymous viewer with a link to a folder, 2 threads, 2 connections between restarts, lists of at most 1 path | `OwedWhatItMissed`, `TrackedFramesArmed`, `NothingLeaks` |
| `live` | a device of an account, 2 threads, 2 connections and 2 frames between restarts, a document others change before it connects and after it has caught up | `ToldOrDropped`, `FramesSettle` |
| `workspace` | two handlers; one shares, deletes, removes, moves or makes folders, the other lists, writes and moves, at the same, a neighbouring or another file; calls the file system refuses; one mishap | `TypeOK`, `TombstonesRight`, `ChangesAnnounced`, `WithinQuota`, `DocumentsWhole`, `TempsHaveWriters`, `GranteesAddNothing`, `ListingsComplete` |
| `put_delete` | PUT and DELETE of one file | `NoStaleTombstone`, violated |
| `rmdir_file` | DELETE of a document with isDir=true | `DeletionsRemembered`, violated |
| `quota` | PUT of a new document into an account that is nearly full | `QuotaIsCeiling`, violated |
| `limits` | 2 handlers, 2 buckets with windows 2 and 4 | `OvershootBounded`, `FixedWindows`, `LockoutEnds` |
| `accounts` | a legacy account and a new address, 2 handlers, inactivity 2, clock to 3 | `LogoutIsFinal`, `IdleSessionsRefused`, `AccountsLast`, `TokensStay` |
| `sharing` | an owner, 2 accounts, 3 shapes of the tree, 2 handlers; beside it all pairs of texts of together at most 6 characters over `/ \ . : NUL a` | `ActsWereGranted`, `SharesKeepTheirId`, `AnsweredSharesWork`, `KeysAreExact`, `KeysAreStable`, `SharesStayInside` |
| `export` | 2 requests, 1 slot, 2 requests of a page | `BrowsersBounded`, `NothingLeftBehind`, `RepliesMatch`, `PrintedIsLoaded`, `RequestsAnswered` |
| `fonts` | a library of 2, 4 families and 4 uploads, 2 handlers, another account that tries its ids | `FontsLast`, `FamiliesLast`, `LibraryBounded`, `StylesComplete` |
| `server` | a process of an old release (3 scripts) and two of the present one (8), one thing gone wrong from outside, 2 visitors | `ServesOnItsSchema`, `CommentsSurvive`, `ImplementsUpgrades`, `GetsThrough`, `ListingsFresh` |

The type invariants of `SyncHub`, `RateLimiter` and `Fonts` are proved and have no run.

Every property has in `PROJECT.json` a mutant of a mapped definition, a plausible bug
of that code (defined in the module just before the definition it would replace),
under which TLC finds the property violated.

### What they show

- *Live sync.* Whatever a connected client missed is still owed to it: an announcement
  before its gathering, a frame being sent, or a tracked one whose timeout will drop
  the connection. That survives announcements racing fAdd, acks racing timeouts,
  watches being replaced while a change is announced, and restarts. Under fairness
  the debt is paid. A viewer of the folder `a` hears nothing of `ab` next to it.
- *Workspace.* Away from mishaps, tree, tombstones and announcements stay in step, also
  through what other handlers do next to them and through every refusal that comes before
  anything is gone. A mishap harms no path but those it befell; at these the code does lose
  tombstones and announcements (see the findings). A grantee's write changes only what the
  owner has had at that path. Files that grow pass the quota, when they are checked together,
  by the others' sizes at most; new ones are not held against it.
- *Listings.* A document that is not moved during a listing is in it, or the listing is
  refused: a folder that disappears under the walk ends it with an error, never with a
  short answer, which a client would take for deletions.
- *Documents are whole*, in every interleaving and after every crash. What a crash
  leaves behind are temporary files, which the quota counts.
- *Limiter.* The lazy sweep is invisible, and concurrency passes a limit by at most
  the other handlers running.
- *Accounts.* The expiry that a request stores after a logout does not bring the
  session back (an UPDATE of no row), and an expiry that is stored late never
  prolongs a session beyond its last use.
- *Sharing.* Whatever a request does through a share or link had been granted when it
  came, through each branch of the checks, though the row may have been lowered, revoked or
  made again by the time it acts. Sharing again keeps the id.
- *Fonts.* The file is written before the row and removed before it, and the unique name
  decides between uploads that race: no answered font loses its file or its row, and no
  family disappears in its replacement, unless the upload is cut off just between the
  two rows. A full library is passed by the uploads that are counted together.
- *Start-up.* A process that dies at any statement of any script leaves a database on which the
  next one gets through; of two that start together one applies each script, and
  the other passes it over or ends and starts again. The rebuilding of `comments` loses none, though an older
  process goes on serving.
- *Downloads.* Threads that overtake each other can store an older listing over a newer
  one, and it is still no more out of date than the time it is kept and the timeout.
- *Font styles.* An export whose lookup succeeds embeds every font that stays and can be
  read, whatever goes missing under it.
- *Export.* However renders time out or fail, slots and browsers add up, no directory is
  left but one that could not be removed, and no reply is taken for another's. A page is
  printed after a load event, which may be the late one of about:blank.

### Findings

- `put_delete`: DELETE removes the file (`workspace.cpp:490-496`) and then records the
  tombstone; PUT renames the file into place (432) and then clears the tombstone
  (437). Remove, rename, clear, record leaves a live file with a tombstone, which
  434-436 says must not be.
- `rmdir_file`: DELETE with isDir=true collects the files under the path
  (`workspace.cpp:480`) and removes whatever is there with remove_all (481). Of a regular
  file nothing is collected, and it goes without a tombstone, against
  `migrations/0007_deleted_files.sql:1-2`.
- `quota`: fCheckQuota leaves the check when is_regular_file sets the error code (343-344),
  which it does for a path where there is nothing: a new file is never held against the
  quota, which `main.cpp:155-156` calls a ceiling ("without a cap any account could fill the
  disk") and of which `workspace.cpp:26` says that it "still caps the account".

More disagreements are noted with their hazards, and in the properties that leave them out,
and have no run:

- a document put into a folder between the collection of its files and remove_all is lost
  without a tombstone, or makes remove_all fail after others are gone without one; so does
  an entry the file system will not remove (`workspace.cpp:480-484`);
- a second rename that is refused leaves the document removed for it without a tombstone and
  without an announcement (`util.cpp:445-450`);
- a file that its owner deletes between a grantee's check and write is created again by the
  grantee, against "Grantees can edit existing files but not create new ones"
  (`share.cpp:217-219`), with its tombstone in place;
- a directory whose removal fails is not tried again, against "removed when the render
  finishes, whatever the outcome" (`export.cpp:504`, 520-524);
- a late load event of about:blank satisfies the wait for the page, which may be printed
  before it has loaded (`export.cpp:402-404`, 608, 621-622);
- a session used in the very second of its expiry can be lost, and two first logins of a
  legacy account are answered two tokens, of which one is dead;
- the page of releases asks GitHub once for every request that finds no fresh listing, so
  "~12 API calls per hour" (`downloads.h:40`) holds only when requests come one at a time
  and succeed.

## 4. Bounds, and why they are enough

- Two threads or handlers: every hazard listed is a race of two; a third adds the
  other pairs. The theorems of section 6 lift this for the properties they are about.
- `SyncHub`, `hub`: `MaxFrames = 1` stops new work once a frame is numbered, so up to two
  operations run against each other, and a frame, its ack, its timeout and the
  closing of its socket race; a restart numbers afresh and lets work start again with
  old frames gone. `MaxConns = 2` gives every race of an old with a new connection.
  What lies beyond (a long history of frames) is covered by the proofs.
- `SyncHub`, `live`: `MaxFrames = 2`, so that a device that has connected, been asked to
  catch up and done so is told of a change that is made after that, by a frame of its own,
  which can be lost with a half-open socket.
- `Workspace`: the requests include every kind, both sides of the quota, a move into another
  folder and of a folder, folders in a file's way, a file deleted as if it were a folder, new files.
  Two handlers and one mishap are what TLC can do; the theorems of section 6 are about
  any number of either, and hold for every safety property of the run.
- `PathRules`: six characters hold three components with separators, `..` among them;
  the theorems are about texts of any length over any characters.
- `RateLimiter`: ages stop at `cMaxWindow`, with which the state space is finite and
  nothing is cut off but the counts, which `OvershootBounded` shows to be bounded.
- `Accounts`: `MaxClock = 3` with an inactivity of 2 lets a session be used, expire,
  and be purged; `MaxMinted = 3` lets two requests register and one start a session,
  or one log in twice.
- `Sharing`: `MaxMinted = 2`, so a share can be made, revoked and made again under
  another id; what is shared is an entry of the root, a file or a folder with one file in it
  (that one share covers another's path is no concern of the code, which resolves one row
  at a time).
- `Fonts`: four uploads against a library of two fill it, pass it, and replace a family while
  another upload of it and its deletion are under way; ids are never used again, so more add
  nothing but time, and the proofs lift the bound.
- `Server`: the old release ends before the script that rebuilds `comments`, so its process can
  serve and store one while it is rebuilt; one thing gone wrong can hit each statement
  of each script. One page with two visitors: a third cannot store anything older than
  the timeout allows. A listing is kept for three ticks and a request lasts one.
- `PdfExport`: with one slot the second request queues, waits out or takes over.

Symmetry is used for threads, handlers or accounts that are interchangeable in runs
with safety properties only. Deadlock is checked everywhere but in `sharing`, whose
enumeration of texts ends.

## 5. Fairness

- `SyncHub` LiveSpec: weak fairness of each thread's steps and of the main loop. A
  Drogon loop runs whatever is queued on it and its timers fire. Clients owe nothing:
  they need not ack, receive, hang up or come back.
- `RateLimiter` LiveSpec: the clock moves.
- `Migrations` (and `ServerSpec`): a process takes its next step, and one that has ended is
  started again, which `docker-compose.yml:30` asks of the container. No process is owed
  the lock: `Begin` waits for it, and what makes it free again is the holder's own
  fairness. A lock that does not come in time is a `Crash`, of which there are finitely many.
- `PdfExport` LiveSpec: render threads run. All their waits have a timeout
  (`cQueueTimeout`, `cRenderTimeout`, the connect and port waits), which is why giving
  up is a thread's step. Nothing is asked of a browser.

`Workspace`, `Accounts`, `Sharing`, `Fonts` and `PathRules` state no liveness: their handlers
are straight-line code.

## 6. What is proved

`SyncHubProofs`, for any numbers of clients, threads, connections, frames, paths and
changes, from `ConstantsAssumption` alone:

- `TypeCorrect`: Spec => []TypeOK.
- `Invariance`: Spec => []IInv, where IInv is `TypeOK`, `Linked`, `Blank`, `FrameIds`,
  `TrackedFramesArmed`, `OwedWhatItMissed`. The last two are not inductive as they
  stand: an ack settles a frame, so an ack must never be for a frame that is still
  on its way, which is `FrameIds` (each number is in one place of sending, wire or
  acks); a new connection must not inherit pending frames or watches, which is
  `Blank`; and a frame for a connection must reach the client that connection stands
  for, which is `Linked`.
- `EveryFrameIsArmed` and `NoSilentLoss`: the two properties, from IInv. There is one
  lemma per action for what is owed, and lemmas on what steps that leave the phases,
  frames and wire alone keep.
- `FramesStayInside`: Spec => []NothingLeaks, by `LeakInv`. That a frame on the wire is the
  client's to see rests on what each watch, each watch about to be set, and each frame a
  thread has gathered may name; since connections are numbered anew and their
  watches resolved outside the mutex, the invariant speaks of each of these places.
  `PrefixInside` is where the separator in fMatchesPrefix matters.

`RateLimiterProofs`, from `RateLimiterAssumption`:

- `TypeCorrect`: Spec => []TypeOK.
- `Implements`: the limiter refines `FixedWindow`: initial states map to initial
  states, a `Record` to a `Hit`, a `Tick` to a `Tick`, the rest to stutters. It rests
  on WindowOf[d] <= cMaxWindow: a swept bucket is past every window.
- `OvershootIsBounded`: the count alone is not inductive; the invariant counts, with
  the hits of a window, the handlers that have been admitted and not yet counted.

`AccountsProofs`, from `AccountsAssumption`, for any accounts, requests and clock:

- `LogoutsAreFinal`, `IdleSessionsAreRefused`, by `SessionsInv`: a session in the table,
  and what each request has read or is about to store of one, expires no later than its
  last use allows, and was not logged out. The UPDATE of `Slide` touches only rows that
  are there, and that is what the proof of the first rests on.
- `AccountsAreKept`, `TokensAreKept`, by `AccountsInv`: once an account that a request holds is
  in the table, the request holds the row that is there; rows are only added, and a
  login writes a token only to a legacy account.

`FontsProofs`, from `FontsAssumption`: `FontsAreKept` and `FamiliesAreKept`, by `IInv`: a font
that is being removed was given up by its owner; a new one has its file and no row
and is nobody else's; the row that goes is of the family that replaces it, or of one
whose owner deleted it. `LibrariesStayBounded`, by `RoomLeft`: the count of a library is not
inductive alone, that of the library and the uploads that were counted and are on
their way is. `StylesAreComplete`, by `StyleSoFar`: what was kept when an export's lookup was made
and still is has been embedded or is still to be, since no upload draws an id that was
there, and only what cannot be read is passed over.

`SharingProofs`, from `SharingAssumption`, for any accounts, files, handlers and ids:

- `AnswersAreGood`: Spec => []AnsweredSharesWork, by `IInv`, which adds that ids are drawn
  once and that what is written says what an owner may grant (`TablesOK`). The upsert
  keeps the row that conflicts, so whoever reads it back reads an id that is good.
- `IdsAreKept`: Spec => SharesKeepTheirId, an action property: only `Unshare` takes a row away.
- `OnlyWhatIsGranted`: Spec => []ActsWereGranted, by `HeldInv`: what a request holds between
  its check and its act was granted when it came, whatever the tables say by then. There is
  one lemma for each branch of the checks; that a joined sub path is under the shared one is
  needed in each.

and from `PathRulesAssumption`, for texts of any length over any characters:

- `GuardIsExact`, `GuardIsStable`, `SubPathsStayInside`: PathsSpec => [] of the three properties
  of the run. Every one is a fact about fSafeRelPath alone, `GuardIs`: it refuses what is not
  safe by the reference, and else gives the components joined. `Follows` is the invariant of
  the code's loop (what has been flushed are the components so far, the open piece is
  still to come, one bad component spoils the rest), which `FoldsExist` and `Reading` carry along
  the fold. That a key reads as itself takes it apart again (`Spells`, `SpelledIsSafe`).

`PdfExportProofs`, from `PdfExportAssumption`, for any number of requests, slots and
subresources, and whatever the browsers say and when they die. `IInv` has five parts for
every render and one for the slots: what there is of it where it is (`Placed`: directory,
browser, session), ids in use were drawn (`Drawn`), only the reply to the command under
way has that command's id (`Matching`), a page that was not navigated does not load
(`Loading`), and free slots and their holders add up (`SlotsInv`). From it
`RendersAreBounded`, `EndsAreClean` (a directory that outlives its render is one whose removal
was refused), `RepliesAreOwn` and `PrintsAreLoaded` (what is printed has loaded, or a late event
of about:blank was taken for it), one for each safety property of the run. Most steps are about one render; `Apart` says what they leave
of the others.

`ServerProofs`, from `MigrationsAssumption` and `ServerAssumption`, for any number of
processes, releases and visitors:

- `SchemaIsThere`: a process at script n has found or recorded all before it, and the
  ledger only grows.
- `CommentsAreKept`: what is committed has every comment in `comments`, and an open transaction
  has it there or, between the third and the fifth statement of 0004, in the renamed
  table. The proof goes through the statements of the scripts, and needs that there is
  one transaction at a time and that nobody writes beside it.
- `ScriptsTakeEffectWhole`: Spec => ImplementsUpgrades. `Migrations` refines `Upgrades`: a commit
  is an `Upgrade`, everything else a stutter. `UpgradeInv` says that the ledger has the first
  scripts and the database is what they make, and that whoever applies the next one has come
  as far as its statements say. It leaves out a process whose script another one recorded
  while it waited for the lock: that one never commits. A statement does with tables, columns
  and indexes what it would do without the rows (`RowsApart`), for which a comment must be
  none of these (`MigrationsAssumption`).
- `PageChangesNoDatabase`: ServerSpec => Spec. A server with its page is one of the
  processes of `Migrations`, so that the three above hold of it.
- `ListingsAreFresh`: ServerSpec => []ListingsFresh, by `ListingsInv`: an answer under way is
  at most as old as it has been waited for, and what it becomes in the cache at most that
  and the cache's age, whatever overtakes what.

`WorkspaceProofs`, from `WorkspaceAssumption`, for any handlers, requests, names, trees and
mishaps. It is in layers, each an inductive invariant resting on those before it:

- `TypeInv`: files and folders are a tree (`Tree`: everything above an entry is a folder,
  nothing is both), a handler is where its request takes it (`Serving`), and what it has
  collected lies under its path. That rename, create_directories and remove keep a tree
  (`FolderRenamed`, `FileRenamed`, `Creations`, `Removals`, `Additions`) rests on the order of
  paths (`PrefixOrder`) and on `Moved` keeping it (`MovedBack`, `MovedUnder`, `MovedOrder`).
  `TypeCorrect` is the type invariant of the runs.
- `ListingInv` and `ListingsAreComplete`: a document that stays where it is has been listed or
  lies under a folder that is still due, and a due folder that is gone ends the listing.
- `WholeInv` and `NoneHalfWritten`: a filled temporary file is whole wherever its folder has
  been moved meanwhile, and nothing else is renamed into place.
- `ClashInv`: the places of requests that have met are unsure. `Footprint` bounds what a step
  changes (`Touches`), and `Apart` concludes that who has not met keeps off each other's
  places, but for two writes of one file. `NoTempIsLeft` follows.
- `OwnInv`: so what a deletion or a move has found out stays true until it has recorded it:
  the deleted file is not back (`RmInv`), what remove_all has left to do and what was
  collected cover the folder (`RmdirInv`), a move has left nothing behind and finds the
  files in their new place (`MoveInv`).
- `ToldInv`: a write finds its temporary file and no folder in the file's way, and a file it
  counts on is there or being put there by another write that has just removed it
  (`WriteInv`); what was changed is announced at the handler's end (`TellInv`). Both writes of
  one file are in it together, since the fallback of one (remove, then rename again) is what the
  other sees. A removal that is then refused the rest makes what it removed unsure.
  `AllAnnounced` follows.
- `GranteeInv` and `GranteesOnlyEdit`: Spec => GranteesAddNothing, for every path, sure or not.
  What a grantee's write has been let through for is a document that has been there.
- `TombInv`: where a file has a tombstone somebody is going to clear it (`Clears`), and where a
  document is gone without one somebody is going to record it or to put the file back
  (`Minds`). Neither alone is inductive: a write that clears early while another is
  between remove and rename leaves no file and no tombstone, which `BeingPut` accounts for;
  a crash or a swallowed statement makes the path unsure. `TombstonesHold` is what is left of it
  when nobody is about anything any more.
- `QuotaInv` and `QuotaHolds`: Spec => []WithinQuota. That the documents are within the limit now
  is not inductive, since a write counts only once it is in place; the invariant is that those
  that are not `unweighed` are, *whichever* of the admitted writes come to stand, one size for
  every document chosen among what it has and what is on its way to it. A write that grows a
  file and is admitted has itself been held against the quota, with the whole tree, and every
  other handler's adds at most one body; from then on everything is weighed again. A rename
  takes what is unweighed along (`QuotaMoves`). It needs that the tree is finite (`FiniteInv`) and
  that sums may be compared entry by entry.

Where a proof is by induction (sums over finite sets, folds over a text) it goes by a least
counterexample, from the library's well-foundedness of the naturals and of finite subsets
(`NatLessThanWellFounded`, `FS_StrictSubsetOrderingWellFounded`, `WFMin`): its induction
theorems take an operator as parameter, which the provers cannot instantiate.

Every safety property of the passing runs is proved, the two refinements among them. Only
model-checked is liveness (`ToldOrDropped`, `FramesSettle`, `LockoutEnds`, `RequestsAnswered`,
`GetsThrough`), which needs fairness and ENABLED and is beyond the prover.

## 7. Not modelled

- The stat, the reading of a file and the list of tombstones (`workspace.cpp`), the list and
  reading of fonts, `/me` and bearer tokens: they read in one step and change nothing.
- The streaming of a release asset (`downloads.cpp`): it keeps nothing.
- Encoding, hashing, cookies' signatures, configuration, static files: pure functions or
  sequential I/O with no state of their own. A setting that stops the start is one of
  the things `Crash` of `Migrations` stands for.
- The tie between a watch and its share in `SyncHub`: the code has none, and nothing says
  when a watch should end. What becomes of shares, links and comments when their file moves:
  the code does nothing, and the flags in its listings show that this is expected.
- How long SQLite waits for a lock (busy_timeout is set after the first pragma, so a start
  may fail at once): a start that fails is in the model, the time is not.
- Reading errors of the file system in `Workspace` (a folder the process may not list, a stat
  that fails for another reason than absence): calls that change something may be refused,
  those that only look answer what is there.
- URLs in `PdfExport`, the search for a browser, and the callbacks that outlive a session,
  of whose undefined outcomes the model takes the harmless one.

## 8. What is left

1. Compose `Sharing` with `SyncHub`'s watches and `Workspace` with `SyncHub`.
2. Abstract specifications: `ChangeFeed`, per client the set of changes it must still
   see, implemented by `SyncHub`; `AtomicWorkspace`, each request one step.
3. Prove that `SyncHub` implements `ChangeFeed`, and that the composition of `Workspace` with
   `SyncHub` owes each client what the handlers changed.
