# A verification project for cgit

cgit is a CGI program: the web server starts one process per request, which
reads its configuration, finds the repository and the page the URL names, prints
the page and exits. What makes it more than a formatter is what its processes
share - a cache of pages, a cached list of repositories and, through git, the
repositories themselves - and what one page leaves to the next: a page is
reached by a link, and says in a URL all that the next process is to know.
Nothing runs in the background and nobody coordinates the processes; all there
is are file names, `rename()`, `fcntl()` record locks and time stamps. This
directory holds TLA+ models of cgit, the TLC runs that check them and theorems
about them checked by TLAPS.

Paths below are relative to the source tree (`src/`).

## 1. The system

| component | state | operations | interacts with |
|---|---|---|---|
| page cache (`cache.c`) | one file per slot and its lock file `<slot>.lock`; a slot holds `key \0 page` | `cache_process`, `process_slot`, `open_slot`, `lock_slot`, `fill_slot`, `unlock_slot`, `print_slot`, `cache_ls` | calls `process_request()` back with stdout redirected to the lock file |
| cached repository list (`cgit.c` 789-955) | `rc-<hash>` and its `.lock` file in the cache directory | `process_cached_repolist`, `generate_cached_repolist`, `print_repolist` | forks a child to refresh; the list is a configuration file |
| request flow (`cgit.c` 595-766, 1025-1118) | `ctx`: query, environment, page, configuration | `cmd_main`, `authenticate_cookie`, `calc_ttl`, `process_request`, `prepare_repo_cmd`, `cgit_die_routine` | the cache, the filters, git, the pages |
| configuration (`configfile.c`, `cgit.c` 43-310) | `ctx.cfg`, `ctx.repo`, the nesting of includes | `read_config_line`, `parse_configfile`, `config_cb`, `cgit_repo_config` | fills the repository store, starts scans |
| repository store and scanning (`shared.c`, `scan-tree.c`) | `cgit_repolist`, a growing array | `cgit_add_repo`, `cgit_get_repoinfo`, `scan_path`, `scan_projects`, `add_repo` | called from configuration and from the cached list |
| routing (`parsing.c`, `cgit.c` 312-368, `cmd.c`, `ui-shared.c`) | `ctx.qry`, `ctx.repo` | `querystring_cb`, `cgit_parse_url`, `cgit_get_cmd`, the `cgit_*_link` functions, the forms | reads the repository store; its links are the next request |
| filters (`filter.c`) | the saved stdout and child of an exec filter, the write hook of a Lua filter | `open`/`close` of each kind, `hook_write`, `unhook_write` | used by authentication and by the pages while they print |
| output and escaping (`html.c`) | eight rotating `fmt()` buffers | `html_*`, `http_parse_querystring` | everything that prints |
| pages of trees (`ui-tree.c`, `ui-plain.c`, `ui-blame.c`, `ui-blob.c`, the readme of `ui-summary.c`) | the state of a walk (`walk_tree_context`) | `read_tree()` of git calls back for each entry | git; the page is printed during the walk |
| pages of the history (`ui-log.c`, `ui-diff.c`, `ui-ssdiff.c`, `ui-stats.c`) | counters, deferred lines, tables by author and period | one function per page, callbacks of the diff | git's revision walk and xdiff |
| index (`ui-repolist.c`) | the order of `cgit_repolist`, `mtime` of each repository | sort, count, print, pager | files of the repositories |
| references and snapshots (`ui-refs.c`, `ui-tag.c`, `ui-snapshot.c`) | lists of references | sort, limit, print; guess the revision from a file name | git |
| client side, scripts, build, tests | - | - | outside the running program |

### What is hard

* **Interleavings.** Requests for one slot race at every system call of
  `process_slot()`: the slot is looked at, found missing or expired, the lock
  file opened and then locked, filled, renamed, and printed afterwards. Requests
  for the repository list race with each other's children. Clients turn pages
  while others push.
* **File descriptors.** `fcntl()` locks belong to a process and a file, and go
  away when *any* descriptor of the file is closed: `dup2()` in a filter is
  enough.
* **Crashes.** A process may die anywhere (`die()` is the usual way to report an
  error, and the web server kills slow requests), leaving lock files behind and
  filters running.
* **Stale decisions.** A slot is refreshed because of an old `stat()`; a page is
  kept for a time chosen from the form of its URL; a table of statistics reads
  the clock again for each row; a pointer into the list of repositories is kept
  while the list grows.
* **Partial failure.** Each of `open`, `fcntl`, `ftruncate`, `write`, `dup`,
  `fflush`, `rename`, `fork`, `execvp` and `fclose` can fail, and each has its
  own way out.
* **Secrets.** With an auth-filter the same URL has two pages, and one cache.
* **Callbacks with memory.** The walk of a tree, the lines of a diff, the rows of
  a log are handed to callbacks one by one, and what they print depends on what
  an earlier call left in a variable.
* **Round trips.** What a page writes - a link, a form, a file name, a line of the
  cached list - another process reads with other code.

### What makes each component correct

* page cache: a client gets the whole page of its own key; a slot is always one
  whole page and only changes by being replaced; one process fills it at a time;
  nobody waits for the holder of the lock; an expired slot is refreshed.
* cached list: a request works with a whole list, and with none older than it
  found; an older scan never replaces a newer; an outdated list is replaced.
* request flow: no page goes through the cache to a client it is not for; every
  request has one answer; pages that can change do not stay.
* configuration and store: a repository has the settings its lines give it,
  whatever the order of files; the scan finds what it should; the cached list
  read back gives the repositories that were written; an include terminates.
* routing: the longest repository URL wins; a link leads to the page, path, branch
  and object it was made for; redirections end.
* filters: everything printed between open and close goes through the filter, in
  order, and stdout is what it was before; hooks do not nest; the request ends.
* trees: a page shows what is at the path, once, within one layout.
* history: the pages of a log together show every commit, once; a side-by-side diff
  pairs the lines that were changed; each cell of a table counts its own period.
* index and references: paging loses nothing, whatever the order; a link to a
  snapshot gives the revision it was made for.

`PROJECT.json` lists the hazards line by line, with the property that would
catch each one.

## 2. The modules

| module | models | composed with |
|---|---|---|
| `CacheSlot` | one slot of the page cache and the processes that use it, system call by system call | |
| `AtomicSlot` | what the slot promises: a register of whole pages | |
| `CacheSlotAtomic` | the mapping under which `CacheSlot` implements `AtomicSlot` | both |
| `CacheSlotProofs` | proofs: types; the slot stays intact; what is served is whole; the refinement; what is refreshed and left behind | extends `CacheSlotAtomic` |
| `RepolistCache` | the cached repository list, its readers and its generators | |
| `RepolistProofs` | proofs: types, lock, whole list, order of scans, no request behind | |
| `Request` | requests from the parsed query to the answer, above an atomic slot | |
| `RequestProofs` | proofs: types, secrecy through the cache, order of pages, the answer to everyone | |
| `Repos` | the repositories: inheritance, options, scanning, the lines of the cached list (operators, no variables) | |
| `Config` | reading the configuration line by line, with includes, scans and the cached list | extends `Repos` |
| `Filter` | a page printed through exec and Lua filters, with their processes | |
| `FilterProofs` | proofs: types; one filter at a time besides those a request died in; when the assertion of `hook_write()` can fail; nothing lost on the way out | |
| `Routing` | requests, links, forms, redirections and logins | |
| `Trees` | the walk of a tree by the pages tree, plain, blame, blob and about | |
| `TreesProofs` | proofs: types, one layout to a page, what is at the path, the readme that is shown | |
| `Log` | the log page and the client that turns its pages | |
| `Diff` | the diff of a commit: diffstat, files, lines, side by side | |
| `Stats` | the statistics page | |
| `History` | a client that goes from the log to the diff of a row | extends `Log`, `Diff`, `Stats` |
| `HistoryProofs` | proofs: the pages cover the log, a row leads to its commit, the diffstat and the frame of a diff are right | extends `History` |
| `Text` | escapes and their readers (operators) | |
| `Index` | the list of repositories, its orders and its pager | extends `Text` |
| `IndexProofs` | proofs: the order of the rows, one page for each repository | extends `Index` |
| `Refs` | lists of branches and tags, and snapshots | |
| `RefsProofs` | proofs: a link to a snapshot serves its revision, a list shows the newest | extends `Refs` |
| `MC...` | instances for TLC | |

Definitions whose comment begins with `mutant:` are variants of the definition
next to them, as a plausible mistake in the code would make it. `PROJECT.json`
names, for each property, one of them that breaks it.

### CacheSlot, AtomicSlot

`file` maps inodes to contents, `cacheName` and `lockName` are the directory
entries of the slot and of its lock file, `owner` says which process has the
record lock of an inode. A process has a label `pc` that says what it calls
next, its descriptors, its key and what its client has received. One action is
one system call, or a run of calls no other process can observe in between:
`OpenSlot`, `ReadKey`, `CheckExpired`, `OpenLock`, `SetLock`, `Truncate`,
`WriteKey`, `CheckModified`, `Redirect`, `OpenFilter`, `Fill`, `Flush`, `Replace`,
`Discard`, `PrintChunk`, `Spin`, `PrintEnd`, `Direct`, `Die`, `Kill`, `Exit`. A page is a
sequence of chunks written one at a time, so a reader can meet a part of it. The
helpers `Released` and `AllReleased` are the rule of POSIX that closing any
descriptor of a file drops the process's locks on it.

Nothing is assumed away: other processes run between the `open()` and the `fcntl()`
of `lock_slot()`, a page may open a filter while it fills the slot, and `rename()`,
whose result the code ignores, may fail. The history variable `slips` records
which of the three has happened: `"gap"` when a lock is taken on a file that is no
longer behind the lock name, `"filter"` when a filter closes a duplicate of the locked
descriptor, `"rename"` when a `rename()` failed. `LocksKept` says that the first two have not. The
properties of the slot say what holds up to then (section 6 shows that it does not hold after);
`NoLostRefresh` and `SlotSettled` do not refer to `slips`. `Spin` is the loop of `print_slot()` at the end of a file shorter
than `fstat()` had said; `Sendfile` chooses between the two loops of that function.

### RepolistCache

`rcName` and `lockName` are the two directory entries; a file knows which `scan`
of the tree it holds and how many stdio buffers of it have been written. A
request (`pc`) stats, opens and parses the rc file, or generates it itself; a
generator (`gen`), which is the request itself or its forked child, opens the
lock file with `"wx"`, scans, prints, renames **and then** closes: what is behind the
name may still lack its last buffers, which may be all it has (`Rename` comes at any size,
`Close` writes the rest). When the file that was found cannot be opened, nothing is parsed, as
`process_cached_repolist()` does not look at the result of `parse_configfile()`. `repolist` is
what the request works with in the end.

### Request

The cache slot is a page (`slot`) with an age, and a holder of the lock; this is
the register `AtomicSlot` promises, to which `Request` adds what the slot cannot
see (cookies, pushes, lifetimes). `push` counts the pushes to the repository and
so stands for its state: before the first its path is no git directory, then it is
empty, and the branches and the object come one push after the other (`Born`). `Page(q, n)`
is what an authenticated client is shown after `n` of them, following `process_request()`
and `PrepareRepoCmd`, which ends the page of a path that is no git directory, of an empty
repository and of an unknown branch. The page is abstract: the same one after each push (an
object named by its SHA1), a new one after each (the index too, which has a column of idle
times), an error, or the login page. `CalcTtl`, `Caches`,
`Authenticate`, `Refused` and `Cmd` follow the functions of the same names. When
`fill_slot()` fails, the expired page is sent if there was one, and otherwise
`process_request()` runs again to the client.

### Repos and Config

`Repos` has the attributes of `struct cgit_repo` by the way their lines are read
(`Texts`, `Flags`, `Hides`, `Filters`, ...), what a new repository inherits
(`NewRepo`), what a line changes (`RepoConfig`, with the rules that only take an
option where the global one allows it), the scan of a tree (`ScanPath`: hidden directories, markers, suffixes, sections, git config,
`cgitrc`), and what `print_repo()` writes (`PrintRepolist`).

`Config` is `parse_configfile()`: a stack of open files, of which the top one
gives the next line to `config_cb()`; a line is a global option, `repo.url`, an
option of the repository, an `include`, or a `scan-path`, which scans or reads the
cached list. `room` is the allocated length of `cgit_repolist`; when
`cgit_add_repo()` moves the array during a scan, `ctx.repo` is `stale`. `heard` and
`born` are history: the lines in the order they were read and the one that made
each repository. The properties compare the repositories with what an order of
lines promises, in terms of these histories and not of the code's steps.

### Filter

A page is a sequence of segments, each with its command; `Process` prints chunk by
chunk into the buffer of stdout, opens a filter (flush, `dup`, `pipe`, `fork`,
`dup2`), closes it (flush, `dup2`, `close`, `waitpid`), and installs and removes
`hook_write()` for Lua; a `Child` reads its pipe, keeps chunks or writes them to what
was descriptor 1 when it was forked (`sink`), and ends; `Faults` are a `die()`, a child
that cannot be started and a child that is killed, for which `close_exec_filter()`
dies too (`WaitpidKilled`). A pipe is bounded, so that writers wait.

A `die()` prints an error page (`PrintErrorPage`): its three segments are added to the
page, the middle one printed through `owner`, the owner filter that the header of every
page of a repository opens. The filter the request died in stays open: its hook stays set,
and its pipe (`leaked`) stays descriptor 1 and is inherited by every later child, so that
it only ends after them. A `die()` on an error page prints another, until git gives up
(`GiveUp`). `OpenLua` with a hook set is the failed assertion of `hook_write()`, which
aborts the process.

### Routing

`request` is what the browser sends; `Parsed`, `ParseUrl` and `FindDefaultBranch` make `qry` of it, which is the page as the client sees it. The
actions are what a client can do on it: follow any link any page can print
(`Calls`, written by `Href`), turn
pages, sort, switch the branch, search, log in, follow a redirection. `call` is
history: which link the client meant, with the arguments of the `cgit_*_link()`
call. `server` is whether the web server passes PATH_INFO or rewrites the URL into
`url=`.

### Trees

One walk: `todo` is the stack of directories of `read_tree()`, each with the names
not read yet, `Visit` is a call of the page's callback for the first of them in git's
order, `Leave` the end of a directory. The
callback of each page (`TreeEntry`, `PlainEntry`, `BlameEntry`, `BlobEntry`) prints (`out`), sets `state` and answers
whether to go on. `Begin` and `End` are what comes before and after: resolving the
revision, the error pages, the layout. The page about tries one readme after the
other (`NextReadme`, `PrintReadme`).

### Log, Diff, Stats and History

`Log`: a history is a line of commits, each of which does one thing to one file
(`Kinds`); `Skip` and `Show` are the two loops of `cgit_print_log()`, `show_commit()`
moves `vpath` over a rename, and the pager's links carry `ofs` and `id`. The counters of
the files and lines of a row are static: `files` lists the commits that `inspect_files()` has counted in
them (`Inspect`) since they were last cleared, `counted` is `lines_counted`, and only
`ShowCommit` and `PrintCommit` clear them. The client
follows `next` and `prev`, and somebody pushes.

`Diff`: the queue of pairs is walked twice (diffstat, files); `PrintLine` is a call
back of xdiff; `oldLines` and `newLines` are the two deferred lists of
`ui-ssdiff.c`, printed by `Deferred` when a line comes that is neither, with
the longest common subsequence written as a recursive function over the places that are
`Needed` of the array, of which `Allocated` is what `MAX_SSDIFF_M` gives it.

`Stats`: calendar arithmetic (`Gmtime`, `Timegm`, `Trunc`, `Inc`, `Dec` and
`Pretty` of each period), the walk that counts a commit, the sort and the
table, with a clock that may move on between any two steps.

`History` composes them: a client that clicks a row of the log (`ClickRow`) gets
the diff of its commit, limited to the path the link names.

### Index, Text and Refs

`Index` sorts an array with an abstract `qsort()` (any order the comparison
permits), reads the agefiles as late as the code does, counts and prints rows and
section headers one by one, and offers pages, orders, the owner's search and the
rows themselves to a client. Links are written with the writers of `Text` and read
back by its browser, server and parser, so a search text or a url with
characters that are escaped either arrives or is named as one that does not.

`Refs` prints branches and tags up to their limits, and its links to snapshots are
file names; `PrintSnapshot`, `TryWhole`, `TryRest`, `TrySmallV`, `TryBigV` and `Write`
are the guesses of `get_ref_from_filename()` one lookup at a time, with pushes in
between.

## 3. The runs

| run | question | bounds |
|---|---|---|
| `CacheSlotAtomic` | Until a lock fails to protect its file: is the cache file always one whole page, never written again (`SlotIntact`, `SlotNeverPruned`)? Until then and as long as `rename()` has not failed: does each client get one whole page of its key (`ServedIntact`), as from a register (`ImplementsAtomicSlot`)? | 3 processes, two for one page and one for another in the same slot; one of them bypasses the cache; 1 failure or kill; `sendfile()` |
| `CacheSlotRaces` | Whatever becomes of the locks, is an expired slot still refreshed (`NoLostRefresh`) and no lock file left (`SlotSettled`) unless a call fails? Does every request end (`Termination`), but for a `sendfile()` loop on a file that lost its lock? | 2 processes for one page, 1 failure; `sendfile()` |
| `FindFilter` | finding, section 6 | 2 processes |
| `RepolistThree` | Does the list never go back (`NeverOlder`), and is it whole once closed and locked while it is made (`RcWhole`, `LockInv`)? Does a request work with no older list than it found, and with all of it unless it came before the `fclose()` or something failed (`NeverBehind`)? Is an outdated list replaced if nothing fails (`RefreshedAfterTtl`)? | 3 requests and their children, 1 failure, 1 change of the tree |
| `Request` | Does what an auth-filter hides stay hidden (`LoginNeverCached`), is a HEAD answered once (`HeadAnswered`), does the slot never go back (`SlotNeverOlder`), and does a page that can change leave it (`RefPagesRefreshed`)? | 2 processes, 6 kinds of requests, 2 pushes to a repository whose path is no git directory before the first, 1 failure, ages up to 2 |
| `ConfigSmall` | Has each repository the settings its lines give it (`SettingsInv`), does a scan find and name what it should (`ScanRight`), does the cached list give back what was scanned, but for the four things it does not write (`ListKeepsRepos`)? | every file of up to 4 of 11 lines; files that include themselves and each other to depth 2; an array that grows in steps of 2; trees of 9 directories under every combination of six options |
| `FilterPages` | In a request that does not die, is nothing lost, doubled or overtaken, and in any request, is one filter open at a time besides those it died in (`OutputInv`)? Is the assertion of `hook_write()` safe but on the error page of a request that died in a Lua filter (`HookFree`)? Does every request end, and does what it printed come out in its order, error pages included (`RequestEnds`)? | pages of one segment of up to 2 chunks and of two segments of 1; 5 kinds of command, for the owner filter too; up to 2 calls of `die()` that print a page, and one that does not; a pipe of 1 chunk |
| `RoutingBrowse` | Is the repository of a URL the longest (`RepoInv`), does a link arrive (`LinkArrives`), do paging, sorting, forms and logins keep what the client had asked for (`PageStays`), do redirections end, in their repository (`RedirectsRight`)? | 4 repositories, one in the directory of another, one ignored; every page; paths of up to 2 components; `ofs` up to 1; both ways of a server |
| `TreesPaths` | Does a page show what is at its path, in order, with chains of directories as long as they should be (`WalkInv`), in one layout (`FramedOnce`); is the readme the first that is a file (`ReadmeShown`)? | trees of depth 3 with two names and 7 kinds of entry, 6 paths, 3 readme files, 4 kinds of revision |
| `HistoryPages` | Do the pages of a log cover its commits, join, and are none empty (`LogInv`)? Has each row the path and the counts of its own commit, and leads it to its change (`RowsOwn`)? Are the lines of a diff aligned and marked (`SideBySide`), its sums and its frame right, and nothing carried from one part to the next (`DiffInv`)? Are the cells, totals and the order of a table right (`TableInv`)? | histories of up to 5 commits and 2 to a page; lines of up to 4 characters of {a, b}, hunks of up to 4 lines, 5 pairs of files, lines of at most 4 characters compared; 5 columns, 2 commits, 2 authors, 5 instants at the turns of all periods |
| `IndexPages` | Are all repositories on one page each (`PagesInv`); do texts arrive, and do the links show rows (`TextsArrive`); are sections above their rows and once, and is the order by idle time right although times are read late (`OrderInv`)? | 3 repositories, pages of 1, 2 and all, texts of up to 3 characters, each character that is escaped, 1 push; `int` is 0..7 |
| `RefsPages` | Does a list leave out nothing newer than what it shows (`ListsInv`); does a link to a snapshot give its revision and format (`LinkServes`)? | every 3 of 8 tags and 1 of 4 branches, every set of 3 formats and signatures, 1 push |

An invariant named `...Inv` or `...Right` is the conjunction of named parts, the type
invariant of its module among them; each part has its own comment beside it.

**Why the bounds are enough.** The slot's protocol involves at most a reader of the
old file, a holder of the lock and one process that comes in between, and a slot
is hit by at most two keys at a time as far as any one request can tell; three
processes and two keys give all of these together. Each failure is a branch of
its own, and what it does is visible before a second one. Pages of two chunks have
a whole, a part and nothing; a stale file may be longer than the page. Times
saturate above the largest time-to-live. The limits of the code are shrunk to where they are
met: the 8 levels of includes to 2 (`MaxNesting`), the 8 entries the array of
repositories begins with to 2 (`Chunk`), the 128 characters of `MAX_SSDIFF_M` to 4
(`MaxLine`), the 16 first deferred lines to 1 (`FirstSlots`), the 10 authors of a table
to 1 (`DefaultTop`), a pipe to one chunk (`PipeSize`), the nested calls of `die()` that git allows to 2 (`MaxDies`), `max-commit-count` to 2
(`Count`), `INT_MAX` to 7 (`IntMax`). A page of the log has then a page before, one
after and one beyond; the lists of `Refs` and `Index` are longer than their limits,
just as long, and shorter. Every bound is a constant and a guard.

Deadlock is checked where the system may not stop: in the cache, the list of
repositories, the requests, the trees and the history, where a system that has
finished stutters by an action of its own (`Finished`, `Done`, `Read...`). The
other runs say `CHECK_DEADLOCK FALSE`: configuration that is read and a page that
is printed have ended, and a client (`RoutingBrowse`, `IndexPages`, `RefsPages`) may
be on a page without links.

**Fairness.** Each process takes its next step eventually (`WF` of its steps):
the kernel schedules it, and none of them waits for another, since the lock is
tried with `F_SETLK` and not waited for. In `Filter`, where a process does wait for
its child and for room in a pipe, each child is a process of its own with its own
`WF`. Time goes on (`WF` of `Tick` in `Request`). A browser follows a redirection by
itself (`WF` of `Redirect` in `Routing`). The other modules state no fairness. Failures, kills, pushes, new requests and clicks are never fair. That
a page is requested again and again is not assumed but is the hypothesis of
`Refreshed`: `[]<>` requested implies that an outdated page leaves the slot.

## 4. The proofs

All theorems hold for every value of the constants that the `ASSUME` of the
module admits; TLC evaluates those assumptions in each run.

* **Types** (`TypeCorrect` in each proof module). `TypeOK` is not inductive by
  itself: a step dereferences a descriptor or the expired page because of where
  the process stands. The strengthenings (`TypeInv` in `CacheSlotProofs` and
  `RepolistProofs`, `Ready` in `RequestProofs`) say which labels imply which
  descriptors.
* **The slot is intact** (`SlotIsIntact`, `SlotIsNeverPruned` in
  `CacheSlotProofs`). The invariant is `LocksKept => SlotInv`: whoever is between `SetLock` and
  `Replace` holds the lock of the file named by `lockName`, that file is not the
  slot, and what has been written to it is a prefix of the page of the process
  that works on it. The theorems have no hypothesis about the constants; what they say ends
  when a lock is taken too late or dropped by a filter, which `NewSlotNotPruned` and the run
  `FindFilter` show cannot be left out. A `rename()` may fail.
* **What is served is whole** (`ServedIsIntact`, `NobodySpins`). `ReadInv` adds the readers to `SlotInv`: a descriptor of the
  slot stays on a file that was published (`Published`) and which nobody will
  write, that file is the page of a request with the reader's key, and what the
  client has is what lies before the offset. It holds as long as `slips = {}`: after a
  `rename()` that failed the page is printed from a file whose lock is
  gone. The file that is printed is then as long as `fstat()` had said, and so no
  `sendfile()` loop waits for ever.
* **The slot is atomic** (`SlotIsAtomic`). The mapping of `CacheSlotAtomic` takes
  the page of the file named `cacheName` for the register. `InitAbs` is the initial
  state; `NextAbs` goes through the system calls: `Replace` is the write
  (`ReplaceAbs`), the calls that look at the slot are the read (`OpenSlotAbs`,
  `ReadKeyAbs`), the last chunk is the answer (`PrintEndAbs`, `DirectAbs`), a death
  loses it (`LoseAbs`), and every other call is a stutter (`QuietAbs`). The register
  promises this as long as it is `kept`, which the mapping makes `slips = {}`.
* **An expired page goes, a lock file does not stay** (`RefreshIsNotLost`,
  `SlotIsSettled`). These hold whatever `slips` is, as long as no call fails. Nobody waits for the lock, so the argument is about what its
  holder is going to do: `RefreshInv` says that a
  lock has a holder between `lock_slot()` and `unlock_slot()` (`LockedInv`), that a lock
  file has a process at work on it once anybody has tried to lock it (`Settling`), and that whoever saw the slot expired
  finds it replaced or there is a lock file (`Refreshing`). That the locks protect the
  contents of the files is not needed for it.
* **The repository list** (`LockIsHeld`, `ListIsWhole`, `ListNeverOlder`,
  `ListNeverBehind`). The lock name stays with its generator because `"wx"` fails
  while it exists and only `rename()` removes it; with `ListInv` (`OpenInv`,
  `GenInv`, `ScanInv`, `SizeInv`) a scan that waits to be published is at least as
  new as the published one, because it was started after it. `BehindInv` follows a
  request: the list it looked at, the one it opened and the one it works with come
  one after the other, although others replace the file in between. A file that was the list
  once is whole, is about to be closed, or something has failed (`WholeOrEarly`): a request that
  came to its end earlier has a part, and one that could not open it has nothing, which is what
  `NeverBehind` allows.
* **Requests** (`NeverCachesLogin`, `NeverGoesBack`, `EveryoneAnswered`).
  `LoginInv`: what is in the slot, in a process that fills it or kept as the
  expired page was made for an authenticated client, since only such a client's
  process reaches the cache. `PushInv`: the page being generated cannot be older
  than the slot, since the slot cannot change while its lock is held. `Answered`
  follows the answer to a HEAD through the cache and past it.
* **Filters** (`FiltersDoNotNest`, `HooksDoNotNest`, `FiltersLoseNothing`,
  `OutputIsRight` in `FilterProofs`). `FilterInv` says which filter is open at each
  point, whose pipe descriptor 1 is, and that a hook or a pipe left from before means that the
  request has died; `ErrorInv` that what is left of the page is then an error page, so that
  a second hook can only be that of the owner filter; `ChildInv` that the children that live
  are that of the open filter and those the request has died in. These hold however often a
  request dies. For one that does not, `PrintedInv` says that what was printed is the page up
  to the current position. The heart is `Conserved`: what was printed is what is
  out, then what the child has in its pipe and its hands, then the buffer, then what
  a Lua script keeps. Each step moves chunks from one of these to its neighbour, and
  `NextConserved` has one case for each. `NothingLost` and `PageWhole`, which the run
  checks, state the same child by child and segment by segment, and so need no
  recursion over the page. `PagesAssumption` only says that a page is a sequence of
  segments of some length.
* **Trees** (`PagesAreFramed`, `FirstReadmeShown`, `PagesShowPath` in `TreesProofs`). `WalkOnce`: of
  the names that wait in `todo`, one at most lies on the way to the path, so that no
  callback comes to it twice; `ReadmeInv`: the readmes before the current one are no
  files, and this one is ahead of the walk (`Coming`) until it is found; `FrameInv`:
  what a page has printed when the callback's `state` says that the path is not
  found yet, or that it is. For what a page shows (`WalkInv`), `StackInv` says that the
  directories in `todo` lie in each other and none of them below the path: what is
  listed is not entered. `PathInv` says what is printed at each point of the walk. For a
  directory (`ListInv`) the entries that were read have one row each, in order, and
  every row comes before the entries that are still `Coming`, so that the next row goes
  to the end of the list. For an object the path is `Ahead` of the walk or has been
  `Found`, and then it is on the page, or an error is. `ChainIs` is the lemma that a row's link
  ends: the directories `Through` which it may go are finite, one of them is longest,
  and each is on the way to it. `TreesAssumption` says that a tree is finite, has the
  directories of its entries and none that is empty, and that no name comes twice in the
  order; git has no others. The pages without a proper layout are named by `Unframed`
  (section 5).
* **The diffstat and the frame of a diff** (`DiffstatIsRight`, `DiffTypeCorrect` in
  `HistoryProofs`). `DiffIInv`: while `inspect_filepair()` goes through the queue, the items,
  the sums and the scale are those of the pairs already `Passed` (`Summed`), wherever the
  array has grown; once the sum is printed, nothing after it changes it (`SumsShown`); and
  `at` says whether the page has been begun. Lines are counted as the cardinality of a set
  of `Places`, which a pair adds to at places of its own, so no induction over hunks is
  needed. `IsQueue` is what git queues: a submodule has no hunks.
* **The log and what its rows lead to** (`PagesCoverLog`, `RowsAreOwn` in
  `HistoryProofs`). A page is told how many commits to pass over, not where the last
  page ended, so the proofs count: `Ahead(n)` is how many commits of the log are
  newer than `n`. `RequestInv` says that all pages are of one log and follow the file
  from a name it has had, `SoughtInv` which name git looks for where the walk is,
  `PageInv` that the page has passed over `ofs` commits and shows those that come
  next (`i = Ahead(cur)`, and `Ahead` of a row is its number), and `ClientInv` that
  what the client has yet to see lies behind what the next page passes over - which
  a push only moves back. `FollowsName` is the step from the code's name, moved by
  each rename that is found, to the names of the file. The newest commit of a set,
  `get_revision()`, exists because the sets of those beyond a commit are finite and
  strict inclusion is well-founded on them (`LargestOf`): this takes the place of an
  induction. `ClickInv` goes on from the row to the page of its commit: git finds
  the file first, its name is one of those the link is limited to, and it is on the
  page once the walk of the pairs is past it. That the counts of a row are those of its commit
  needs no history: they are cleared on every way to the row. What `PagesCoverLog` excepts is in
  the definitions: `PagesCover` and `PrevJoins` a log whose links have left the path the
  client asked for (section 6), `NoEmptyPage` every followed log. `LogAssumption` says that the file has
  each name once and that nothing happens to it before it is created.
* **The list of repositories** (`RowsInOrder`, `PagesCoverList` in `IndexProofs`).
  `Rank` gives each text a number, so that the comparison of two repositories is that of
  their sections, ages and names one after the other (`Less`, `SortsSections`); it does
  not contradict itself if the times differ by `int`s (`SectionsConsistent`), and what
  `qsort()` makes of the list is then in order (`InPlace`). `ListInv` says so of the list
  that is walked, which has each repository once whatever the comparison says, and
  `PageInv` that the rows are in the order of the list, each header above a row of its
  section and not below itself (`RowInv`): two headers of one name have another between
  them, and its section is between theirs in the order, which it can be only as the same
  name in other letters. For the pages, `CountInv` says that `hits` is the `Number` of
  visible repositories walked so far and that a page shows those whose number lies above
  its offset by no more than its length (`Shows`); `SeenInv` that, without a push, each
  process reads the same times and so sorts into the same order, which is what makes the
  numbers of different pages comparable. `IndexAssumption` says that the texts have an
  order, the empty one first, and that the offset behind the last page is an `int`; that
  `maxCount` is positive is `config_cb()`'s doing (`cgit.c` 247). A request may ask for any
  offset up to the largest `int`.
* **Lists of references** (`ListsShowNewest` in `RefsProofs`). `RowsInv` says what the
  rows are between the two lists of a page. The argument is about one list: an order by
  age is cut at the limit, so what is left out comes after, and is not newer, than what
  is kept; the branches are then sorted again by name, which moves rows but exchanges none.
  The comparison subtracts as an `int` (`CmpAge`), and orders only dates that are `int`s:
  `IntHeads` and `IntTags` say so in the property.
* **References** (`LinksServe` in `RefsProofs`). `GuessInv` says, as long as nobody
  pushes, that the links of a page are links to references, and what
  `get_ref_from_filename()` looks up next (`Guessing`). The lemmas are about names,
  which are sequences of pieces: the last piece of a file is that of its format
  alone (`FormatFound`), what lies behind the name of the repository and its
  separators is the reference, or its short form (`Composed`), and of the three
  spellings of a tag that was shortened only the tag itself is found (`Spelled`).
  `RefsAssumption` and `ReposAssumption` say that names are not empty, that no digit
  is a separator, and that the limits and the formats of a repository are numbers
  and formats.

The type invariants and the inductive ones (`SlotInv`, `ReadInv`, `RefreshInv`,
`ListInv`, `BehindInv`, `LoginInv`, `PushInv`, `FilterInv`, `ChildInv`, `PrintedInv`,
`WalkOnce`, `ReadmeInv`, `FrameInv`, `StackInv`, `PathInv`, `RequestInv`, `SoughtInv`,
`PageInv`, `ClientInv`, `ClickInv`, `DiffIInv`, `CountInv`, `SeenInv`, `RowsInv`, `GuessInv`) are theorems and
no longer part of a run; adding them to its configuration shows them on the instance.

**Model-checked only.** Liveness under fairness (`Termination`, `RefreshedAfterTtl`,
`RefPagesRefreshed`, `RequestEnds`, `RedirectsRight`) is out of the prover's reach; of `Termination`
the step is proved that nobody spins (`NobodySpins`).
The properties of `Config` and `Routing`, what the links of `Index` carry (`TextsArrive`),
the lines of `Diff` (`SideBySide`) and the tables of `Stats` are about recursive functions, selections and folds over sequences,
on whose value for every input the prover has no induction; for these TLC's inputs, which
are all the small ones, are the evidence.

## 5. Limits of the models

* **Cache.** `ServedIntact` and the refinement end when a `rename()` fails: the
  page is then printed from a lock file that is unlocked and still has its name, and
  another request may be filling it. Inodes are never reused, so `is_modified()` is
  exact in `CacheSlot`; the kernel may reuse one, and then two pages of the same
  length within a second are taken for one. A key longer than the buffer of
  `open_slot()` never matches. Reads and writes move whole chunks. Only one slot is
  modelled: slots share nothing but the directory. `NoLostRefresh` excepts a request
  that was overtaken (`Overtaken`): another one, late for an earlier page, held the
  lock when it came. That takes three requests for one key and four instants; TLC
  finds it there, and the bounds of `CacheSlotRaces` are below it.
* **Cached list.** That writing or closing the rc file may fail on a full disk
  (`cgit.c` 906, nobody looks) is left out.
* **Requests.** Paths are abstracted, and the objects of a repository are two
  branches and a SHA1. Nothing that is born is deleted, and a push changes every page but
  that of an object named by its SHA1. What the first call of `process_request()` leaves in `ctx`
  when `fill_slot()` fails after it is not. An error page announces that it expires
  after `cache-dynamic-ttl` (`ui-shared.c` 899) but stays for the time of its query;
  `Request` has the latter.
* **Configuration.** A line is a name and a value: the characters of a line are not
  modelled (a line without `=` ends the file). A URL is a sequence of components. Not
  enumerated are the numeric form of `snapshots`, one-letter periods, a repository
  whose name and URL are one pointer, a scan whose root is itself a repository (its
  URL is empty, which `trim_end()` makes NULL), and `repo.url=/` for the same reason.
  Lines that are read while `ctx.repo` points into an array given back have no
  defined effect: `stale` marks them, and `LostOnlyAfterScan` says when that is.
* **Filters.** What a filter makes of a chunk is one chunk. The error page of a child whose
  `execvp()` fails is one chunk that goes through no filter. A Lua script that does not load
  is left out, and so is the `dup2()` that fails after the `fork()`; the other calls end in a `die()`
  that the model has. What a script still held when a request died in it is lost. That a filter goes on
  writing to its inherited descriptor after cgit was killed is in the model (`out`
  grows), but no client reads it any more.
* **Routing.** `ctx.cfg.virtual_root` is never NULL here, as in the program. Links
  lose their branch where the default branch is missing, the repository has no head,
  or the object asked for is the branch of the page; `LeavesOut` and `Shadowed` name
  these. `dt=0` is not written when `side-by-side-diffs=1` (`DiffType` is 0 in the
  run). The branch form of a page reached by `?r=...&p=...` loses the repository.
  `?r=..&p=about` without a URL dereferences NULL and is left out.
* **Trees.** Names have no wildcards. The images below a readme and a blob named by its
  object are left out. `Unframed` names the pages whose layout the code does not
  begin and end once.
* **Log.** No search and no graph; each row has its counts, as with `enable-log-filecount`; a root and a merge show no file in a followed log.
* **Diff.** A pair is limited by a string prefix, as `show_filepair()` does. The last
  digit of a subproject's id is taken for the end of the line and cut off (`ui-diff.c`
  318). A page
  with only the diffstat has no layout end of its own (`ui-diff.c` 486). The header of a
  hunk does not flush the deferred lines; that each hunk but the last ends in
  context, which `DiffAssumption` states of xdiff, keeps this harmless.
* **Statistics.** Committers are in UTC. `--since` has the time of day, so the first
  period of the table is cut where it begins.
* **Index.** `ofs + max-repo-count` beyond `int` is not enumerated, and times more
  than 68 years apart are (their difference is cut to an `int`, and `IdleOrder` is
  about the others). Sections that differ by case may repeat when the sort is
  case-insensitive.
* **References.** A file name may be short for several references: a branch and a tag
  or an id that differ by a `v`, a name that begins with that of the repository or with
  a separator; `Clear` names the cases. The same name is resolved twice, for the ETag
  and for the archive. A negative `summary-branches` is undefined.

## 6. Known deviations

Here the code differs from what it says, or from what a reader would expect of it. Each
is a definition beside the properties of its module that TLC refutes when it
is added to the configuration named here; `FindFilter` is kept as a run.

| what | where | definition | instance |
|---|---|---|---|
| `lock_slot()` opens the lock file by name and locks it in a second call. If the previous holder renames it in between, the lock is taken on the slot itself, which is then truncated. The comment at 287-290 excludes it. | `cache.c` 178-183 | `NewSlotNotPruned` | `CacheSlotRaces` |
| A filter opened while a page is generated replaces a duplicate of the locked descriptor, which drops the lock; a second request fills the same file. | `filter.c` 64 | `FilledIntact` | `FindFilter` |
| The repository list is renamed before it is closed, so it can be read without its last buffer. | `cgit.c` 903 | `ServesWholeList` | `RepolistThree` |
| Nothing removes the lock file of a generator that died, and every later request takes it for a running one. | `cgit.c` 886 | `LockMeansConcurrent` | `RepolistThree` |
| `id=<branch>` counts as a fixed SHA1. | `cgit.c` 1039 | `OnlyFixedPagesStay` | `Request`, with three pushes and a request whose `id` is `"topic"` |
| `cache-dynamic-ttl` only applies with `h=`. | `cgit.c` 1042 | `DynamicTtlHolds` | `Request`, with a request without a branch and `RepoTtl` above `DynamicTtl` |
| The cached list loses `module-link.<path>`, `branch-sort=name`, `max-stats=year`, and an empty filter that a repository has in place of a global one. | `cgit.c` 789-873 | `ListKeepsAll` | `ConfigSmall` |
| The default branch is `master` whatever HEAD refers to: `refs_resolve_ref_unsafe()` does not return a text that begins with `ref: `. | `cgit.c` 499 | `DefaultIsHead` | `RoutingBrowse` |
| The page blob with a path that does not exist prints the commit. | `ui-blob.c` 148-152 | `BlobAtPath` | `TreesPaths` |
| The page of an error opens the owner filter although the filter the request died in is still open: if both are Lua filters, the assertion that no hook is set fails, and the request is aborted without its error page. | `filter.c` 184, `ui-shared.c` 1068 | `HooksNeverNest` | `FilterPages` |
| The clock is read again for each of the rows Others and Total of a table of statistics: if a period begins in between, they are of other columns than the header and the authors. | `ui-stats.c` 276 | `TotalIsSum` | `HistoryPages` |
| The pager of a followed log carries the path of the last row but counts from the tip, and so passes over commits after a rename. | `ui-log.c` 530-540 | `FollowCovers` | `HistoryPages`, with `Count = 1` |
| The index writes a search as an attribute but not as an argument, so `&`, `#`, `+` and `%` in it are lost, and the argument after it may be swallowed. | `ui-shared.c` 223 | `RequestArrives` without `Plain` | `IndexPages` |
| The link on the description of a repository does not escape its URL, and the one on its name escapes it as a path only. | `ui-repolist.c`, `ui-shared.c` | `RowOpens` without its exceptions | `IndexPages` |

Seen while reading, without a definition: `expand_macros()` drops a `$` that no
letter follows and prints the character after it twice (`shared.c` 521-533).

## 7. Not modelled

* `cgit_parse_commit()` and `cgit_parse_tag()` split a buffer into fields; the pages take
  the fields from the model's data.
* The markup: which elements and classes a page prints. What is modelled of it is
  where a layout begins and ends, and every link and form.
* The walk of the history, the comparison of files, the archives and the objects:
  they are git's. Their results are inputs of the models, and what cgit assumes of
  them is stated as `ASSUME` or as a comment where they enter.
* The files of the dumb clone, `ls_cache`, patches and feeds: they print what git
  returns and keep no state.
* The client-side script, the style sheet, the bundled filter scripts, the build and
  the tests are no part of the running program.

## 8. Plan

The model covers the components that have state, order or choice. What is left is
to prove more of what is checked:

1. `Routing`: that the longest repository wins (`RepoInv`).
2. `Config`: its types, that the nesting is bounded, that `cur` and `born` are in
   range; `Stats`: that what is printed was counted.
3. A second slot in `CacheSlot`, and exec filters of snapshots in `Filter`.
