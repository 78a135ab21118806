# Communis: a verification development

Communis is a self-hosted notes application: a Go web server, one SQLite index
database (users, sessions, where each user's database is) and one SQLite
database of notes per user. This directory holds TLA+ models of its core logic,
the TLC configurations that check them on small instances, and TLAPS proofs of
the properties that matter most. Paths below are relative to `src/`.

## 1. Inventory

| component | code | state | operations | talks to |
|---|---|---|---|---|
| connection manager | `user-store/sqliteconncache.go` | map user -> open pool and expiry, command channel, index database | get, remove, create, delete, migrate, state, expire; `Stop` | handlers and `RunServer` by commands; files; index rows |
| command channel | `chanutil/chanutil.go` | none | send and wait for the answer, `io.EOF` on a closed channel | every caller of the manager |
| server life cycle | `web/server.go` | listener, shutdown goroutine, wait group | boot, migrate, serve, drain for 30 s, stop | manager |
| sqlite pool, transactions | `dbx/sqlitex/sqlite.go` | a writer connection and readers | open, close, `WithTransaction` | all stores |
| notes store | `data-store/sqlite.go` | notes, tags, sections, references, full text index | create, update, delete, search, bookmark | handlers |
| migrations | `dbx/migrations`, `dbx/sqlitex/migrations.go` | `user_version` and schema | up, step-up, down, step-down | manager, command line |
| user store and user life cycle | `user-store/sqlite.go`, `web/handlers/admin.go` | users, user_databases | create, delete, versions | manager, files |
| setup, login, authorisation | `web/handlers/{middleware,users}.go`, `admin.go` | `setupRequired`, the session | setup, login, logout, guards | user store, sessions |
| session store | `dbx/sqlitex/sessionstore.go` | sessions with an expiry | find, commit, delete, cleanup | index database |
| note, tag, section handlers | `web/handlers/{note,tag,section,home}.go` | none | parse, validate, write, render | notes store |
| markdown editor | `web/assets/static/js/*.js` | undo history, saved flag | type, undo, redo, save | browser |
| command line, configuration | `cmd/cli`, `config` | none | serve, migrate, bootstrap, install, generate | migrations |
| rendering, logging, helpers | `web/assets`, `slogx`, `slug`, `hdx`, validator | none | pure functions and output | |

### What is hard in it, and what makes each part correct

* **Manager.** One goroutine owns the map, so single commands do not interleave;
  what interleaves is a handler that uses its pool long after the answer, the
  poller's expiry round, the two commands of `DeleteDB`, and `Stop`, which
  touches the map from outside. Correct means: a user has at most one live pool
  (it serialises the user's writes), the pool under a user's name is that
  user's, a pool does not close under a handler that got it recently, every
  command is answered, a shutdown ends.
* **Notes store.** The full text index is an *external content* table: SQLite
  stores the terms the code hands to it and forgets those the code tells it to
  forget, without looking at the tables. Correct means: the index never answers
  with terms a note does not have; every note is found by its terms.
* **Migrations.** The version is read before the transaction that depends on
  it; scripts are tested upwards only; errors are swallowed in one place.
  Correct means: the schema is that of the version at every moment, steps follow
  the list, a reported success is one.
* **User life cycle.** Rows, files and cached pools change in separate steps of
  several goroutines; ids are given again. Correct means: a user's pool is on
  that user's file; a user that was created has a bootstrapped database.
* **Setup, sessions.** The setup flag is shared by handlers without a lock, a
  request works on a copy of its session that another request may renew or
  delete meanwhile, sessions outlive their users, and ids are given again.
  Correct means: a request acts for the account that logged in, a renewed
  session stays dead, the flag says whether there is an administrator, and a
  session ends when it expires and not before.
* **Editor.** A debounced timer against undo, redo and save.

`PROJECT.json` lists the hazards with their lines, and for each the properties
that would catch it or the reason why none does yet.

## 2. Plan

| step | module | contents | state |
|---|---|---|---|
| A | `ConnManager`, `PoolLease` | the manager with poller, boot, shutdown; the abstract lease; proofs of the safety properties, of the clean stop and of the refinement | done |
| B | `NotesStore` | tables and index of one notes database; proofs, the index's counters and the search included | done |
| C | `Migrations`, `SchemaScripts` | the algorithm over scripts as data; proofs for migrators whose commands do not overlap | done |
| D | `UserLifecycle` | rows, files, cached pools, `PostUser`/`DeleteUser`/requests step by step, crash and restart; proofs | done |
| E | `AccessControl` | setup, sessions, login, guards, session store and its cleanup; proofs | done |
| G | `NoteForms` | one tab of the browser against everybody else's writes; proofs, and that the handlers implement `NotesStore` | done |
| F | `Editor` | undo history, debounce, warning about unsaved changes | left out, section 6 |
| H | `Paging`, `Slug`, `CliConfig` | pages under deletion; pure algorithms against reference definitions | left out, section 6 |

The most important behaviour, who may write a user's database, comes first.
Every module is written to be proved about: parameters are CONSTANTS with named
assumptions, no RECURSIVE operators, invariants are conjunctions of named parts.

## 3. The models

### ConnManager (with PoolLease)

`conns` is every `SQLiteDB` ever opened (an identity is used again when nobody
can reach it any more), `cache` and `left` are the manager's map (`left` is the
expiry relative to now), `actor` the goroutine of `Start`, `caller` every
goroutine that sends commands, `sendq` the senders blocked on the unbuffered
channel, `shut` and `main` the two goroutines of `RunServer`.

One action is one stretch of a goroutine between points where others can act. A
command is received, then handled; a get on a miss is `LookupRow` (the index
database) and then `OpenForGet` or `OpenFails`; a migration or an expiry round
is one action per database or entry. `MapRace` is the Go runtime's detection of
the unsynchronised access of `Stop`: the outcome is the death of the process or
any interleaving of the two.

Abstractions: files and rows are not represented, so lookups and opens succeed
or fail at will; `Close` fails only under `CloseMayFail`; a handler holds one
pool from answer to `Finish`. `Tick` is the passage of time. A handler starts
while the listener is open (`Accept`) and comes to its command at any time after
that (`Call`), also while the server drains, while `Stop` closes pools and when
the channel is closed, or answers without one (`Return`).

`PoolLease` says what a handler may rely on: at most one live pool per user,
none shared, and a pool is released only when idle for longer than TTL, on
request, or during a stop. `ConnManager` implements it (`ImplementsLease`), with
the live pool looked for among the pools, not in the map.

### NotesStore

Tables are functions from ids to rows. Every write of `data-store/sqlite.go`
runs on the only writer connection in one transaction, so it is one action; a
transaction that fails is rolled back and is a stutter. `Reindex` is the pair of
statements around each change, `totals` are the counters that FTS5 keeps and
checks: a 'delete' that would take a counter below zero fails with *database
disk image is malformed*. The words of a column are as many as there are pairs of a
note and one of its terms there (`Words`). FTS5 is not under `src/`; `Words` and `Trusts` are
what it does with the statements the code sends, and are marked external. The
forms are all those the schema accepts, because validation runs before, and
outside, the transaction. Ids of deleted rows are given again (`INTEGER PRIMARY
KEY` without AUTOINCREMENT). Left out: time stamps, the `LIMIT 50` of search,
ranking, and the lists that only format rows.

### Migrations and SchemaScripts

A migrator runs one command after the other; reads and the transaction are
separate actions, and each can fail by a fault or find the process dead
(`Crash`). A schema maps the objects of a database to the migration that gave
them their present definition, so a view recreated by a wrong script is told
from the right one. `MigratorsApart` says that no two commands are under way
at once; nothing in the code keeps them apart, and finding 3 is what happens then.
`SchemaScripts` holds the sixteen scripts in that form,
including the two that do not parse (`DROP ... IF NOT EXISTS`) and the one that
rows stand in the way of.

### UserLifecycle

Three kinds of state that no transaction spans: `rows` (the two tables of the
index database, joined), `path` and `file` (what each path points to, and the
`user_version` of every file, unlinked ones included), `cache` (the file each
cached pool is on). Handlers of administrators run `PostUser` (insert, open,
bootstrap, record) and `DeleteUser` (look up, remove, delete the file, delete
the row) one step at a time; requests of users authenticate, get the pool and
use it; the process starts with the loop of `runMigrations`, of the same release
or the next, and may die between any two steps. A step fails by `Fault`, which
leaves done what was done; a failed migration leaves any version in between,
because each has its own transaction (`Migrations`).

`AdminsApart` says that no two administrators are at work on the same user. It is
not enforced by the code, and where it fails the second of two deletions may hit
the user who was given the id. Administrators who work on different users are in
the run and in the theorems, interleaved step by step; what holds of administrators
who do work on the same user is proved separately (section 5).

Abstractions: the manager's inner workings, which `ConnManager` covers, are one
command at a time (`Free`); reading a row and the file operation that follows
are one step, since only rows can change between them and not where a path
points; the pools that `createDatabase` and `runMigrations` open and forget, and
SQLite's `-wal` files, are left out. `IdleOut` and `Reconnect` are what
`SetConnMaxIdleTime` makes `database/sql` do: a pool whose connections were all
closed opens the *path* again, which need not be the file it was on. `doomed` is
a history variable, and the first administrator, whom `PostSetup` creates, comes
from `InsertUser` like the others.

### NoteForms

One tab of the browser (`page`), the handler that serves it (`request`), and
`OthersWrite` for everybody else, who may do any transaction of `NotesStore`
between two steps. The transactions of the tab are those of `NotesStore` too,
index included, so a save can also fail for an index that is out of step. Each
statement that reads is a step: three for an edit page, up to four for the
checks, two more to send a rejected form back. `Submit` picks among what the page
offers, and `twice` says which of the form's lists repeat an id. The references may,
as the user selects them; the tags only if the page has two checkboxes for one
(`double`): `TagPost` has a checkbox appended to the page for the new tag, which
leaves there one of the same id for a tag that was deleted elsewhere. `again` marks
a page that came back after a rejection. An *Internal Server Error* takes the
place of the form, because htmx 4 swaps every answer but 204 and 304.

`quiet`, `still` and `lost` are history: has anybody else written since the tab
asked for its page, since it sent its form, and has its note been deleted.

Abstractions: a tab has one request at a time; a failure other than a refusal by
the database is `Leave`; a title or name that is blank or too long is `Unfit`.
Others need no form of their own here, because the schema accepts more than any
form can bring. Renaming a tag is only among the writes of others: `TagEditGet`
hands its template a field `Id` where the template asks for `.ID`, so that page
is never rendered and `TagPut` is only for clients that do without it.

### AccessControl

`users` and `sessions` are tables of the index database, `server` is the process
with its `setupRequired`, and `request` holds, for every request under way, where
its handler is and the copy of the session it works on. A request arrives
(`Arrive`: `InitialSetup` and `LoadAndSave`), passes the guards of its route
(`Authenticate`), and runs its handler; login, logout and setup end in `Renew`
and `Commit`. Between any two of these steps other requests may take any of
theirs, a session may expire, the cleanup may run, and the process may die.

The session manager (scs) is a library and marked external where the model says
what it does: `LoadAndSave` copies the session into the request; `RenewToken`
deletes its row at once and gives the copy a new token; a session that was
changed is written when the response begins. Browsers are not modelled: a
request may carry any token that is live, whoever was given it, which covers
every order in which the requests and answers of one browser can overtake each
other.

`by`, `as`, `found`, `renewed`, `cut` and `orphaned` are history: the account
that logged in, the one that `Authenticate` admitted, the one that `DeleteUser`
looked up, the tokens that were renewed, and two things that have happened to
the process. An account is a row of `users` with an identity of its own, because
ids are given again.

Abstractions: `InitialSetup` and `PostSetup` both look at the flag, and the two
looks are one step, since the flag goes from true to false and never back while
the process lives; names, passwords and themes are left out, so the pages that
change them change nothing here; the database of a user is `UserLifecycle`'s;
`TokenLeft` keeps the bound on tokens from cutting a handler between its steps.

## 4. The runs

| run | instance | what it shows |
|---|---|---|
| `ManagerCommands` | 1 user, 2 handlers, 2 pools, TTL 1, Close may fail | the inductive invariant `PoolInv`, `FreshHolderKeepsPool`, `EveryCommandAnswered`, `CleanStop` |
| `ManagerPools` | 2 users, 1 handler, 3 pools, TTL 0, Close may fail | `CacheSound`, `SinglePool`, refinement of `PoolLease` |
| `ManagerLiveness` | 2 users, 1 handler, 2 pools, TTL 0 | `IdleEntriesGo`, `CallsReturn`, `ShutdownEnds` under fairness |
| `NotesIndex` | 2 notes, 2 tags, 2 titles, 2 tag names, 1 section | index and tables agree or the index has nothing; only the deletion of a tag in use takes it out of step; counters never too high; references resolve although ids are given again |
| `NotesSearch` | as above | finding 1 |
| `MigrateNotes` | six versions, one migrator, 2 faults, crashes | schema matches version, steps in order, commands end |
| `MigrateDown` | the index database with rows, one migrator | finding 2 |
| `MigrateTogether` | the notes database, two migrators | finding 3 |
| `UsersKept` | 3 users, 4 files, 2 releases, two administrators (`AdminsApart` as constraint), one request at a time, 1 fault, crashes | recorded versions are true, notes go before rows, a start leaves no database behind |
| `FormsChecked` | 2 notes, 2 titles, 1 tag, 1 section, 2 forms sent, 3 writes of others | validation and constraints agree, a reported save has happened, an undisturbed save is the edit |
| `SessionsChecked` | 2 requests, 2 ids, 3 accounts, 2 tokens | requests and deletions hit the account they were meant for, renewed sessions stay dead, the setup flag follows the users, sessions end when they should and only then |
| `UsersReused` | 2 users, 4 files, 1 release, no fault | finding 4 |

*Bounds.* Two handlers and a poller are the fewest that race for one user's
entry; two users the fewest that can be mixed up; pools exceed users by one so
that an old pool can outlive its entry; TTL 1 separates *fresh*, *due* and
*expired* where ages matter, TTL 0 lets any entry expire at any time. Two notes and two tags let an id be given again while another row
stays, and let one deletion use up the counters of another note's document. The
six versions and both databases are the real ones; two faults let both reads of
a `StepUp` fail. Three users are an administrator and two others, so that one is
deleted, its id given again, while another stays; a fourth file lets an unlinked
one stay open; two administrators create one user while deleting another. Three
writes of others delete a note, give its id again and change one thing more, or
prepare two notes and a tag before the page is opened; two forms let one be
rejected and the next be stored. Two ids and three accounts give an id again
while another row stays, within one process and across a restart; two requests
are the fewest that share a session, set up at once, or delete one user, and two
tokens are a session and its successor. The proofs need none of these bounds. Deadlock is checked in every run.

*Fairness.* Weak fairness of each goroutine (the Go scheduler runs what can
run), of time, and of a handler that has its answer. The poller's exit has
strong fairness: its `select` picks among ready cases at random, so a cancelled
context is not overlooked for ever while the timer keeps firing. A migrator goes
on while its process lives. Sessions expire because time passes, whoever runs the
server starts it again, and the cleanup has strong fairness: not every life of
the process ends before its ticker has ticked. Nothing is assumed of signals, of users, of faults
or of crashes.

### Findings

1. `NotesSearch`: deleting a tag that notes carry drops those notes from the
   search (`data-store/sqlite.go`, `DeleteTag`), because the notes to insert
   again are looked for when the tag has left them. Afterwards editing or
   deleting such a note can fail for good: the index is told to forget what it
   does not store. That there is no other cause is proved
   (`SearchFindsNotesCorrect`).
2. `MigrateDown`: `Down` cannot empty a database, of either kind.
3. `MigrateTogether`: two migrators can run a step chosen for a version that is
   no longer current.
4. `UsersReused`: `DeleteDB` is two commands; a request served between them
   leaves a cached pool on the file that is then unlinked. When the id is given
   again, the new user's requests work on that file and not on the one `PostUser`
   has bootstrapped, until the pool expires or falls idle. Only the deletion of a
   file under a cached pool leads there (`NewUserOnNewDatabaseCorrect`).

Met on the way, and in the models without a run of their own: a save of a note
that was deleted while its page was open is reported although there is no row, or
overwrites the note that got the id (`SavedIsStored` excepts `lost`); a rejected
save sends the form back without its references, and the next save removes them
from the note (`SaveIsTheEdit` excepts `again`); an id that a form sends twice
passes the checks and makes the save fail at the primary key of `reference_notes` or
`notes_tags` (`ChecksForesee` excepts `twice`), a reference because it was selected
twice, a tag because it was deleted elsewhere while the page was open and its id
given to the tag created from that page; the page to
rename a tag always fails; `StepUp` reports
success and version 0 when its second read of the version fails
(`StepUpReads`); after a `Close` that reports an error `Stop` returns early, the
channel stays open and `wg.Wait` never returns (`ShutdownEnds` excepts it by
`shut.failed`, `CleanStop` likewise); when closes fail, an expiry round ends at
the first error, so with two users an entry can be passed over round after round
(`IdleEntriesGo` is checked without such errors); two administrators who delete
the same user can hit the next user with that id, so `UserLifecycle` is checked,
and what it says of rows and versions proved, for administrators on different users
(`AdminsApart`), without which `VersionIsTrue` and `NoNotesWithoutUser` fail;
a deletion cut short after the file is gone cannot be
repeated until a request has created an empty file, because `os.Remove` fails.

In `AccessControl`: two setups at once create two administrators; a setup that
fails after its INSERT leaves an administrator, and setup is asked for all the
same until a restart (`cut`); after the deletion of the last administrator nobody
is asked for setup until a restart (`orphaned`); the session of a deleted user
gets *Internal Server Error* from every guarded route, logout included, until it
expires or somebody logs in with it, and acts for whoever is given the id
(`ActsForItsAccount` speaks of accounts that exist); of two deletions of one user
the second may take the row of the user who got the id (`DeletionsHitTheirUser`
likewise). In the command line `flag.Visit` (`cmd/cli/main.go:95`) visits the
flags of `flag.CommandLine` and not those that were parsed, so global options are
ignored; no model has that part.

## 5. The proofs

`ConnManagerProofs` proves, for any sets of users, handlers and pools and any
TTL, `Spec => []PoolInv`, and from it `TypeOK`, `SinglePool`, `CacheSound`,
`EveryCommandAnswered` and `FreshHolderKeepsPool`. None of these is inductive.
`SinglePool` needs `LiveIsCached` (a live pool opened by a get is the one in the
map), which needs `OpensOnMiss` (no entry appears while the actor opens a pool)
and that only the actor writes the map. `FreshHolderKeepsPool` needs
`HoldersAreFresh`, which relates the time left to an entry to the age of each
handler that holds its pool: together at least TTL until the entry is renewed.
The proof has an effect lemma per helper, then one lemma per action.
Assumptions: those named in `ConnManager`.

`NotesStoreProofs` proves, for any titles, contents, names and bounds on the
ids, `Spec => []NotesInv` and from it every property of `NotesIndex`: `TypeOK`,
`WholeOrNothing`, `CountsAtMostStored`, `ReferencesResolve`, `KeptInStep` and
`LostOnlyByTagDeletion`. They need each other's company: a document is typed, and
unchanged by a step that renames or adds other tags, only because references
resolve (`SameView`, `CreateTagStep`); and deleting what a note *has* from the
index removes what is *stored* only because the index is whole or empty beforehand
(`ReindexWhole`). The counters are compared with what is stored as cardinalities of
sets of pairs: the words of all notes are those of the reindexed ones and those of
the others (`WordsSplit`), a part has no more words than the whole (`WordsWithin`),
and since what the index is told to forget is at least what it stored, the counters
come out too low at worst. Each step is then an instance of `ReindexingStep`: the
notes it reindexes are all whose documents it changes. That a new id is new
(`NextIdIsNew`) rests on the well-foundedness of the naturals from the library.

Two theorems say what finding 1 leaves standing. `SearchSoundCorrect`: whatever
happens, a search returns only rows that have the term. `SearchFindsNotesCorrect`:
in a behaviour that never deletes a tag which notes carry (`TagInUseDeleted`), every
note is found by each of its terms and the index trusts every write, so that no save
can fail for it. Assumptions: `BoundAssumption` and `InboxAssumption`.

`UserLifecycleProofs` proves, for any bounds and any numbers of administrators and
concurrent requests, `Spec /\ []AdminsApart => []UsersInv`, and from it
`VersionIsTrue`, `NoNotesWithoutUser` and the action property
`BootLeavesNoneBehind`. The version of a user is read off a file through a path,
so that everything rests on `PathsDiffer`: no two users have one file, hence a
migration changes the version of one user (`FileMigrates`), and opening a path
changes none (`PathOpens`). `CreateInv` and `BootInv` say what the manager and
the start are about to record and that it is so; `DeleteInv` that a handler on
its way to a row has nothing left in the file; `Unowned` that an id without a
row, where requests may have left a file, has none with tables. That a step of one
administrator leaves what is known of the others alone takes `AdminsApart`, and
that a new id is nobody's who is at work: those ids have rows (`IdsKnown`).

A second invariant, `FilesInv`, needs no such assumption: `FilesCorrect` is
`Spec => []FilesInv`. From it come `TypeOK`, so that a failing migration never takes
a version out of its range whoever is at work; `DatabasesApart` (no pool is on the
file of another id, given that SQLite creates a file of its own for a path that is
missing); and `OnlyMigratedRecordedCorrect`: every version that is changed in the
index is that of the user's file in that moment. What carries them is that
`DeleteFile` is a command like any other, so that no file goes while the manager
bootstraps one (`FilesKnown`, `RecordsMigrated`). The index can promise too much
without `AdminsApart` only because a file goes after its version was recorded. TLC
finds no violation of `FilesInv` in the instance of `UsersKept` without the
constraint (3.6 million states).

`NewUserOnNewDatabaseCorrect` does not take `AdminsApart` either. It says when the comment
that finding 4 refutes is true: in every behaviour in which no file is deleted while
a pool is cached for its path (`FilesDeletedUnpooled`), whatever else fails, crashes,
expires or reconnects (`PoolsOnPath` is then inductive).

`ConnManagerStopProofs` proves `Spec => []CleanStop` on top of `PoolInv`. The
inductive invariant `StopInv` says who can still be talking to the manager once
the server has drained in time: the main goroutine has nothing to send
(`MainIdle`), handlers are gone (`HandlersGone`), and the poller asks for expiry
rounds only (`PollerExpires`), so the actor opens nothing any more; what is
open is still ahead of `Stop` (`LeftToClose`) until it has returned without an
error (`NoneLeftOpen`). `QueueInv` (a sender stands in the queue once) is what
lets a received command be taken for the command of its sender. `LiveIsCached`
turns "no open entry" into "no open pool".

`ConnManagerLeaseProofs` proves `Spec => ImplementsLease`, the refinement of
`PoolLease`. The mapping looks for the live pools among all pools; `LiveIs`
shows from `PoolInv` that they are the open ones of the map. Each action of the
manager then keeps, renews, opens, ends or ages entries, and each of these is an
action of the lease or a stutter.

`MigrationsProofs` proves, for any list of migrations, any scripts of which the down
script undoes the up script, and any number of migrators, `TypeOK`, and as long as
no two commands overlap (`[]MigratorsApart`) `SchemaMatchesVersion` and
`StepsFollowOrder`. `UpReachesLatest` says of the last result of a migrator that the
version is the newest, which another's `Down` may change later, and is proved for
one (`OneMigrator`); for any number, overlapping or not, `UpEndsAtLatestCorrect`
says so of the step in which the result is reported. `ChosenInv` says that a step
about to be run was chosen for the version the database is still at: when commands
overlap that is finding 3. What a version's schema is comes from a recursion over
the list; its one unfolding is proved by looking at a minimal counterexample.
Assumptions: `LoadedAssumption`, `FaultsAssumption` and `DownUndoesUp`, which TLC
evaluates for the real scripts.

`AccessControlProofs` proves, for any requests and bounds, `Spec => []AccessInv`
and from it every safety property of `AccessControl`. `ActsForItsAccount` needs
that the id in a session, and in every copy of one, is that of the account that
logged in while the account exists (`SessionsFaithful`, `CopiesFaithful`), and
that no two rows are one account (`AccountsOnce`). `RenewedTokensAreDead` needs
that a token about to be written is known to nobody else (`TokensInv`), which is
why concurrent requests of one session cannot bring it back.
`SetupFlagMatchesUsers` needs that while setup is required every request under
way is a setup (`SetupInv`), so that nobody deletes the administrator of the
first that comes to its end.

`NoteFormsProofs` proves, for any titles, contents, names and bounds, `TypeOK`,
`ChecksForesee`, `SavedIsStored` and `SaveIsTheEdit`, from `Spec => []FormsInv`.
`NoteKept` says that the note of the tab has its row unless it was deleted,
`PageIsNote` that a page which nobody has disturbed shows the note as it is,
through the three reads that put it together, and `FaultsAreTrue` that every
fault found so far is one and every one looked for in vain is none, as long as
nobody else has written since the form was sent; that a title or name is fit needs
no such condition (`FaultsDecide`). `OneCheckbox` says that a page on which nobody
else has written since it was asked for has one checkbox for each tag, because an id
given by then is the id of no tag on the page. What others write in between may make
a form fail that has passed, but only so that it conflicts with the tables by then
(`Conflicts`, `NameTaken`). `HowSavesEnd` and `HowTagsEnd` reduce each
property to the few steps that can end a form.

`HandlersImplementStore` is the refinement between the two modules: whatever goes on
between the reads and the writes of a handler, each step of `NoteForms` is one
transaction of `NotesStore` as a whole or leaves tables and index alone. The theorems of
`NotesStoreProofs` therefore come over, through an instance of that module over the
same tables (`Proved`) and lemmas that its definitions are those of the model's
instance (`Same...`): `StoreStaysCorrect`, and up to the deletion of a tag in use
`SearchStaysCorrect`. The latter sharpens `ChecksForesee`, whose statement leaves
room for an index that refuses to forget a note: `PassedFormsAreStored` shows that
it is only such a deletion that makes a form fail for it.
Assumptions: `BoundAssumption`, `InboxAssumption`, `SentAssumption`.

The proofs are laid out so that each leaf takes a fraction of the time that `tlapm`
allows it by default.

Only model-checked: the liveness properties (`IdleEntriesGo`, `CallsReturn`,
`ShutdownEnds`, `CommandsEnd`, `SessionsEnd`), which are out of the prover's reach,
and what is said of the sixteen scripts, which are particular data. Every invariant
and every action property of a passing run is also a theorem.

## 6. Not modelled

* Templates, styles, logging and asset caching have no state that changes.
* `install` and `generate` write files once.
* Password hashing and the cookies of the session manager are libraries.
* The markdown editor runs in the browser and shares no state with the server;
  what the server does with what it sends is `NoteForms`. Its timer against undo
  and redo is listed as a hazard without a property.
* Lists, the home page, search results and previews read and render; of what
  they read only the search over the index is modelled. The offset of a page of
  results that changes between two requests is not.
* `slug`, the validator and the merging of flags and configuration are pure
  functions on strings, which a unit test reaches as well as a model.
