# pawnee in TLA+

A verification project for the web server under `webserver/` ("pawnee",
MyAwesomeServ) and for the script that searches its HTML documentation
(`doc/html/search/`): TLA+ modules of processes, events and the data they share, TLC
configurations that check them on small instances, and theorems that TLAPS
checks for every value of the constants. Paths below are relative to
`webserver/` unless they start with another directory.

## 1. The system

pawnee is a pre-fork-less forking server. `main` reads a configuration, opens
two logs, listens, and then accepts connections one at a time. For every
connection it increments a counter in shared memory and forks a child, which
reads one request, answers it and exits. Nothing is threaded; concurrency comes
from processes, signals and clients.

| component | source | state | operations | works with |
|---|---|---|---|---|
| main loop | `main.c:37-99` | `socket_client`, `client_ip`, open descriptors | accept, getpeername, count, fork, close | kernel backlog, statistics, children |
| signals | `main.c:104-132` | pending SIGCHLD, running handler, zombies | `init_signals`, `child_handler` | interrupts accept and sem_wait of main |
| child | `main.c:138-269` | request, position, stdio buffers, copy of `client_ip` | `respond_client` and its nine ways out | parser, vhosts, files, log, statistics, client |
| statistics | `stats/stats.c` | seven counters and a semaphore in shared memory | `init_stats`, increment, `send_stats` | main and all children |
| request log | `log/log.c` | `requests.log`, `errors.log`, a buffer per process | `write_request`, `write_error` | written when the buffer is full and by exit |
| responses | `http/http.c` | none | `send_status`, `send_response`, `rewrite_target` | client socket, files, vhosts |
| parser | `http/http_parse.c` | the request | `parse_http_request` | headers |
| headers | `http/http_headers.c` | growing array | init, add, get, free | parser, vhosts, log |
| files | `file.c` | none | `check_and_open`, `check_root`, `get_mime_type` | responses |
| virtual hosts | `vhosts/hosts.c` | none: the site files are read for every request | `get_vhost_config` | child, responses |
| configuration | `config/config.c` | a static structure, copied to shared memory | `init_config`, `get_config_from_file` | everything, read-only afterwards |
| listening socket | `socket.c` | none | `create_server` | main |
| documentation search | `doc/html/search/search.js` | the box, its timers, the list of categories, the document in the frame | the handlers of mouse, keys, focus and timers | the browser; `menu.js:45` and `index.html:51-54`, which install them |
| documentation pages | `doc/html/dynsections.js`, `menu.js` | which directories are unfolded | toggles | none |

What is hard here, and what makes each component correct:

* **Statistics.** Load and store by many processes. Correct when no increment is
  lost or doubled, nobody is inside together, and everyone who waits gets in
  (the last does not hold).
* **Main loop and signals.** SIGCHLD does not queue and comes at any point, in
  accept or in sem_wait too. Correct when no ended child is overlooked, no signal
  ends the server, every connection gets its child, and main keeps no descriptor.
* **Children.** A child ends by exit or by a crash at many points. Correct when it
  never takes the semaphore along, when nothing is visible before it is counted,
  and when an answer that has begun is completed.
* **Log.** A buffer per child, written when it is full and by exit. Correct when a line is
  written once, by its own connection, with the code that was answered, is complete when
  its child has ended, and no complete line is there before it is counted.
* **Page of statistics.** Read counter by counter without the semaphore. Correct
  when what it shows still adds up.
* **Parser, headers, files.** Sequential, hard at their boundaries: lines and blocks of
  exactly the limit, an array that is full, a file that changes between two openings or is
  too long for an int.
* **Start-up and configuration.** Many calls that may fail, with a check after most of
  them but not all. Correct when main comes to accept with everything it will use, and
  otherwise says why not.
* **Virtual hosts.** Sites are looked up in files that come in any order. Correct when a
  site is what one file says, and no file of the host is overlooked.
* **Documentation search.** The script is generated by Doxygen and kept in the repository.
  One thread, but focus, keys, two timers and the arrival of pages interleave, and
  handlers call each other. Correct when the parts of the panel agree, results belong to
  the search that is remembered, no text that was typed stays unsearched, and the arrows
  move line by line.

`PROJECT.json` lists all hazards at their lines with the properties for them.

## 2. Modules

| module | what it is |
|---|---|
| `AtomicStats` | abstract: what the statistics promise, indivisible increments |
| `SharedStats` | the semaphore, the kernel's sleepers, load and store; implements `AtomicStats` |
| `Server` | main, SIGCHLD, children, clients, log; uses `SharedStats` through INSTANCE |
| `FileServing` | one child that serves a file while somebody edits the site |
| `HeaderBlock` | one child that reads and parses the headers of its request |
| `HttpHeaders` | the growing array of headers, used by `HeaderBlock`; implements `HeaderList` |
| `HeaderList` | abstract: a list that grows at its end until it is freed |
| `SiteLookup` | `get_vhost_config` over the files of a directory, used by `Startup` |
| `Startup` | main from its beginning to accept, and then lookups by its children |
| `SearchBox` | operators on the state of the search box: activation, searches, its timer |
| `SearchResults` | operators on the document of the results: rows, children, keys |
| `DocSearch` | the events of the browser, over both |
| `SharedStats_proofs`, `Server_proofs`, `ServerAnswers_proofs`, `ServerCounts_proofs`, `FileServing_proofs`, `HeaderBlock_proofs`, `Startup_proofs`, `DocSearch_proofs` | theorems |
| `MCSharedStats`, `MCServer`, `MCFileServing`, `MCHeaderBlock`, `MCStartup`, `MCDocSearch` | instances for TLC |

`Startup` ends where `Server` begins: `ReadyToAccept` is what `Server` takes for granted.

`Server`, `FileServing` and `HeaderBlock` are three views of the same child. `Server` has
all children, and of files and requests only the outcomes; `HeaderBlock` has one child in
`main.c:171-178` and `http/http_parse.c:75-105`, with the lines of its request;
`FileServing` has one child from `main.c:227` on, and the files.

### SharedStats

`phase[p]` is where process p is in the three statements `sem_wait`, `++`,
`sem_post`. `SemTake`/`SemSleep` are the two outcomes of a look at the semaphore;
`Load` and `Store` are the halves of `++`; `SemPost` adds one and asks the kernel to
wake a sleeper. `PShared` is the second argument of `sem_init`, 0 in
`stats.c:88`: with it the kernel looks for sleepers of the poster's own address
space only (`SharesFutex`), so `AfterWake` finds nobody else. `Interrupt` is a
signal whose handler has SA_RESTART: the call looks at the semaphore again.

### Server

| actions | code |
|---|---|
| `Connect`, `SendRequest`, `Leave` | clients: any of them, at any time, or never |
| `Accept`, `GetPeerName`, `CountConnection`, `Fork`, `CloseClient` | one turn of the loop, `main.c:66-98` |
| `AcceptError`, `GetPeerNameError`, `ForkError` | the exits of main; `GetPeerNameError` needs a client that is gone, the others a fault |
| `TakeSignal`, `Reap`, `HandlerReturn` | SIGCHLD delivered, one turn of the while of `child_handler`, its end |
| `ReadRequest`, `ReadFails`, `FdopenError` | `main.c:147-176` |
| `LogAndCount`, `CountResponse` | `write_request` and the counter of the answer, in each branch of `respond_client` |
| `RefuseVersion` | 505: neither logged nor counted |
| `ExitEarly`, `CrashEarly` | exits and crashes before the answer is decided |
| `CrashOnNull`, `SendStatus`, `CrashInHeaders`, `SendHeaders`, `SendBody`, `CrashFreeing`, `CloseStream`, `Exit` | `send_response` and the end of the child |
| `StatsHeadersFail`, `ReadCounter` | `send_stats` |

A request is a method, a *shape*, one for each way through the checks of
`respond_client`, and whether its line of the log is *long*; strings, paths, dates and
other sizes are left out. The child forked for
connection c is called c. `client_ip` holds a connection, standing for its address:
two connections of one machine are told apart, which only makes the properties of
the log stronger.

`WriteRequest` is the `fprintf` of `log/log.c:74` to a stream with a buffer of 4096 bytes.
A line that fits stays in the buffer of the child (`buffered`) until `Exit` flushes it. A
line is long when it does not: the User-Agent at its end can have nearly 8 KB, since
several pieces of `fgets` are joined in `headers_block[8192]` (`main.c:158-175`). Then the
*head* of the line, which has the address and the code, is in `requests.log` before
`sem_wait`, from a child that goes on; the *tail* follows at exit, or never if the child
crashes. A line of more than two buffers writes the head in two pieces, one after the other
and both before the count; the model has them as one. The pieces of several children can
mix in the file, which `LogFaithful` allows: it says what is in the log, not that it can be
read line by line. A file with a name without extension crashes the child whatever
`types.txt` says, as long as that file has a line to compare with; shape "noext" assumes
it, as does `FileServing`.

Undefined behaviour is a choice:

* a request that `parse_http_request` refuses ("short", "badversion") is used with
  uninitialised fields afterwards: the child may answer 400, exit in
  `rewrite_target` or crash, in `write_request` or in `free_headers`. The method of a
  "short" request stands for what the uninitialised variable holds;
* `strlen(NULL)` in the error paths for HEAD, the missing log_dir of a site
  (`vhosts/hosts.c:76`) and the NULL of `strrchr` for a name without a dot
  (`file.c:156`) are crashes, as they are in builds of the code with gcc;
* the order in which `send_stats` reads the counters is the constant `EvalOrder`;
  runs use right to left, what gcc does on x86-64.

### FileServing

A child looks the site up twice (`main.c:227`, `http/http.c:75`) and opens the file twice
(`main.c:245`, `http/http.c:77`); the size comes from the first opening, the bytes from
the second. `GetVhost`, `Stat`, `Open`, `GetFileSize`, `GetMimeType` and `GetVhostAgain`,
`StatAgain`, `OpenAgain`, `SendHeaders`, `ReadChunk` are the steps; between any two of them
somebody may edit the site: `EditSite` gives it another root, adds or drops a line of its
file, or removes it, `Remove` removes the
document from a root, `Replace` renames a new version over it, and `Overwrite` writes a
new version into the file itself. A file is an inode, so that a child goes on reading the
version it has opened; versions are numbered and known by their sizes. A site that has
gone makes the second `get_vhost_config` return NULL, a document that has gone makes
`fileno` in `get_last_modified_date` be applied to NULL: both are crashes. So are, with no
edit at all, a site without a root or log_dir line (`complete`; `strdup(NULL)` in
`vhosts/hosts.c:75-76`, in either lookup) and a document without extension (`extension`;
`file.c:155-159`). `GetFileSize` returns an int: `AsInt` keeps the low bits of `st_size`, in
two's complement, with `IntMax` for the largest int.

The request is a GET of one document, and every root is a directory that `check_root`
accepts. A chunk is read in one step, which is not so for a file that is written over
while it is read; no property is stated about bodies in that case.

### HeaderBlock and HttpHeaders

`ReadPiece` is one `fgets` of at most `LineMax` bytes and the `strncat` that appends what
there is room for; `EndReading` is a piece that is only a line end, or the end of the
input, and `init_headers`. `ParseLine` is a turn of the loop of `parse_http_request`,
`EndParsing` its end or its `break` at a line of blanks, `Free` is `free_headers` at the end of
`send_response`. The text of a line is left out: of a line the model knows its kind, its
name, where its value begins, its length and its line end. A part of a line in the block
is the number of the line and how much of its text is there. Names that differ in case
only are one name; CR and LF occur at the ends of lines only.

`HttpHeaders` has the operations of `http_headers.c` with `realloc` as a copy into an array whose
new cells hold anything (`Garbage`). Failing allocations, which end the child, are left out.

### Startup and SiteLookup

`pc` is the call main has come to: `InitDefaults` to `EndOfConfig` are `init_config` and
`get_config_from_file`, a step for each line of server.cfg and for each file of
config/sites, in any order; then come `OpenLogs`, `CheckRoot`, `CreateServer`, `Listen`,
`InitSignals`, `InitStats`. `Faults` names the calls that may fail for reasons outside the
model; a missing file, an address that is not there and a bad argument fail anyway. A
line is what `strtok` makes of it, a key and a value. `errors` is errors.log;
`write_error` before it is open is a crash. `init_config` copies through pointers of an
uninitialised structure (`config.c:45-48`, `143-154`): it may crash or not. (gcc warns of
it, and with -Werror the build stops there.)

At `accept` the lookups of `SiteLookup` begin. `OpenSites` is the call of
`get_vhost_config` and its `opendir`; `OpenEntry` opens a file that `readdir` returns, in
any order, `TakeLine` is a turn of the loop over its lines, `CloseEntry` the comparison
with the host at its end, and `EndOfSites` the end of the directory. `EditSites` is
somebody who changes the directory between two lookups. The outcomes "none" and "crashed"
are the shapes "nohost" and "nologdir" of `Server`.

The assumptions on the files are what the parsers make of any file: no value is empty
(no token of `strtok` is; `SiteDirsAssumption`), and a port is an integer
(`ServerFilesAssumption`), as `atoi` makes one of any text.

### SearchBox, SearchResults and DocSearch

The state of the box and of the document are records; what a method makes of them is an
operator in `SearchBox` or `SearchResults`. `DocSearch` has the places of the focus, the
key that is held, the list of categories with its timer, and an action for each event. An
event is a step, as in a browser: its handler runs to its end, with the focus and blur
handlers called from inside focus() and blur(). Timers and pages come at any time.

Of the browser we assume: focus() on an element that is not displayed does nothing; what
ceases to be displayed loses the focus; a new page in the frame takes away the focus that
was there; text that is dropped into the field gives it the focus first; the keydown,
keypress and keyup of a key go each to whatever has the focus
then; a link to another page makes a new box. One key is held at a time and the mouse is
not used meanwhile. Texts are model values with functions for what the script does to
them: `Squeezed` is without blanks, `Trimmed` without those at the start, `Initial` the
first letter; `TextAssumption` says that the first two are idempotent together and leave the
label and the empty text alone, as the regular expressions of `search.js:220`, `283` and
`333` do. `ContentAssumption` says that a page of an index has rows, each with a number of
children. `lost` is a history variable: a search was dropped in one of the ways named
under `NothingLeftUnsearched`, or the text was changed by
`ChangeByMouse`: pasted from a menu, dropped or cleared with the mouse. `menu.js:45` gives
the field handlers of focus, blur and keyup only, so such a change calls none, and the text
stays unsearched until the end of a key in the field has it compared.

What we saw while modelling it, none of which contradicts a comment of the script:

* A timer that was started for a text is not stopped when the field is left, and then
  searches for the label "Search" and opens the panel over an idle box (`StrayIsLabel`
  says that this is the only way to such a panel). `Search` clears the name of its timer
  and of one started since, which can no longer be stopped.
* Text that is changed with the mouse is not searched for until a key is used in the field.
* Shift and Down stop the timer and leave for the list of categories without a search.
* Down in that list goes one past its end, where `Search` throws.
* A text equal to "Search" is erased when the field is left and entered.
* Enter and Escape in the list move the focus to the field on keydown, and their keyup is
  then handled there.
* `Up` looks at the children of the row before, and not of the row it has found. They are
  the same as long as the rows that match follow each other, which holds because the
  generator sorts them (`SortedAssumption`; `ArrowsFollowOrder` rests on it).

## 3. What the runs check

| run | instance | what it shows |
|---|---|---|
| `shared_stats` | 4 processes, 2 counters, 3 increments per counter and those begun | `MutualExclusion`; `IncrementsAreAtomic` (refinement of `AtomicStats`) |
| `server_safety` | 3 connections, backlog 2, GET of a file and HEAD of a missing one | `NoLostZombie`, `ExactConnections`, `ParentSurvives` |
| `server_faults` | 2 connections, backlog 1, 19 requests: every way through `respond_client`, 4 of them with a long line, all faults | with errors and crashes: `TypeOK`, `HoldersAreAlive`, `CountedFirst`, `LogFaithful`, `WholeAnswer`, `PageAddsUp`, and `StatsProtocol` (refinement of `SharedStats`) |
| `server_live` | 2 connections, `FairSpec` | `EveryClientForked`, `ZombiesReaped`, `ConnectionsEnd`, `ChildEndsOrSleeps` |
| `server_progress` | 3 connections, `FairSpec` | `MainReturns` |
| `file_serving` | 2 roots, sizes 0 to 3, ints up to 2, chunks of 2, 3 edits that change the site, remove, replace or write over | `TypeOK`, `OneVersion`, `QuietLength`, `CrashHasCause` |
| `header_block` | up to 4 lines of 9 kinds, 5 bytes per `fgets`, a block of 13, an array of 1 | `TypeOK`, `InOrder`, `LossHasCause`, `FirstOfName`, `ArrayIsList` (refinement of `HeaderList`) |
| `startup` | 11 server.cfg, 12 config/sites, all faults, 2 for `MAX_VHOSTS` | `TypeOK` (no site behind the array), `ReadyToAccept`, `FailsInTheLog`; of lookups `FoundInOneFile`, `MissedMeansAbsent`, `CrashNeedsIncomplete` |
| `doc_search` | 5 texts, 2 categories, pages of up to 3 rows with up to 2 children, 2 timers | `TypeOK`, `PanelConsistent`, `ShownIsLastSearch`, `StrayIsLabel`, `NothingLeftUnsearched`, `StaysUnderPointer`, `ArrowsFollowOrder`, `FirstPressIgnored` |

**Bounds.** Contention needs two processes; a lost update or wakeup two and a
semaphore holder. Four in `SharedStats` and main with three children in `Server`
leave room for one asleep for ever, one inside, one queueing. Two children and main
are enough for a signal that arrives in the handler, between two zombies. `Backlog` is
10 in `main.c:58`; 1 or 2 makes the full queue happen. `MaxCount` bounds the
increments of `shared_stats`; in `Server` each connection is counted once, so no
bound is needed, and `INT_MAX`, the value after which a counter is undefined, is
never near. In `FileServing`, sizes 0 to 3 and chunks of 2 bytes (8192 in the code) give an
empty file, a short chunk, a full one, and a full one followed by a short one; with 2 for
the largest int, 3 bytes are too many; three edits
are enough to move a site there and back, or to replace both openings' files. In
`HeaderBlock` the limits are 5 and 13 in the place of 1023 and 8191, and 1 in the place of
8: there are lines in one piece and in two, lines that end on a boundary of `fgets` with
either line end, blocks with room to spare, exactly full and cut within a line or a line
end, and four headers make the array double twice.
The files of `startup` have
settings twice, missing, out of range and without value, sites twice, in one file,
incomplete, unreadable, and one more than there is room for; one of them is
`config/hosts.cfg` of the repository, two sites in one file without log_dir (the
repository has no config/sites). The texts of `doc_search` differ in blanks before and
inside, and in their first letter; one is the label and one empty. The categories have
different indexes, so that a letter is found in one and not in the other; the pages have
rows that match and rows that do not, rows with children at the start and at the end. With
two timers one can outlive the start of the next.

`doc_search` checks deadlock: there is always an event the user can cause. The other runs
have `CHECK_DEADLOCK FALSE`: every client may stop, every connection is used once, a
process that sleeps in sem_wait may stay there, and a start that fails is over.

**Fairness.** `FairSpec` asks weak fairness of main's loop, of the delivery of a
pending signal, of the handler and of each child: the operating system runs whoever
can run. None for clients, whose messages may never come, and none for faults. A
process whose `sem_wait` finds zero *can* always step (it goes to sleep), and nothing is
assumed of the order in which processes get the semaphore. Writes to a client do not
block: a client that is not gone is assumed to read what it is sent.

**Action of faults.** `Faults` names the calls that may fail for reasons outside the
model: accept, fork, fdopen, and the file that vanishes between its two openings.

### Where comments and code disagree

Each of these runs checks what a comment says, and TLC finds a behaviour of the code
against it.

| run | says | does |
|---|---|---|
| `lost_wakeup` | `main.c:93`: if no errors, we send response to the client | A child asleep in sem_wait is not woken when another process posts (pshared is 0, `stats.c:88`). It sleeps with the semaphore free, and its client waits for ever. In the trace main counts the second connection while the child of the first comes to its counter; both clients stay and main goes on, as `ResponseSent` excepts clients that leave and a main that has ended. |
| `head_not_found` | `stats/stats.h:24`: number of 404 responses the server has sent | For HEAD, `strlen(NULL)` in `main.c:254` kills the child after `ko_404++`, before anything is sent. The other error branches do the same, at lines 186, 199, 210 and 238. |
| `file_length` | `http/http.c:43`: size is the size of the response body | Content-Length is the size of the file of the first opening, the body comes from the second, which may be of another version. TLC replaces the file as a whole between the two; files written over and lengths beyond an int are excepted by `LengthMatches`, to show this cause and no other. |

Not given a run, as they can be read off the code:

* `get_file_size` cuts `st_size` to an int (`file.c:80-83`), so that for a file of 2 GiB or
  more Content-Length is not the size of the body, which is what `http/http.c:43` calls it;
  `QuietLength` says that it is that size as an int.
* `send_stats` writes the page for HEAD too, against `http/http.c:118` (no body for HEAD).
* A line of blanks breaks out of the loop of headers, where `http/http_parse.c:80` says
  that empty or blank lines are ignored; `LossHasCause` has this as a cause.
* A missing server.cfg ends the start, where `config.c:34` says that the defaults are
  kept.
* `socket.c:32` says that all interfaces are listened on; it is the address of the
  configuration. main says that the server is running also when `create_server` failed,
  and then ends at listen.
* `search.js:222` says "search value has changed"; the text without any of its blanks is
  compared with a search that lost only those at its start, so that a text with a blank
  inside has always changed, and searches again with every key.

And `served_requests` (`stats/stats.h:12`,
"number of request the server has received") is never incremented, and `send_stats` reads
the counters without the semaphore that `stats/stats.h:31` says avoids concurrent access;
`PageAddsUp` says what holds of the page nevertheless. `LossHasCause` names three causes for
a lost header; another one is this: the loop of `main.c:171-176` takes the end
of a line of 1023 bytes for what its comment calls "end of headers".

`MainReturns` is the other half of `lost_wakeup`: main, too, is not woken by
sem_post, but the child it waits for ends after its sem_post, SIGCHLD comes after main
has fallen asleep, and the restarted call finds the semaphore. The server survives
by that alone; children, which have no children, do not.

Some hazards of `PROJECT.json` are what the code does, and a property that holds can only
say how far they go. A client that has left by the time of getpeername ends the server:
`ParentSurvives` says that this, of the one client main is about to serve, and failing calls
of main are the only ways. A client that sends nothing keeps its child for ever, as nothing
times out: `ChildEndsOrSleeps` is about children with a request, or whose client has left.
The frame keeps the page of the search before until the next one arrives, so that keys act
on old results: `ShownIsLastSearch` speaks of the page that is shown or on its way, the
location of the box; of the old document, `TypeOK` says only that it is one of the pages
and that nothing of it that is not displayed has the focus.

## 4. What is proved

TLAPS checks these for any set of processes, counters, connections, requests and
faults, from the named assumptions of the modules only.

* `SharedStats_proofs`: `Invariance` (`IInv`), `MutualExclusionHolds`, `Refinement`
  (`SharedStats` implements `AtomicStats`). Mutual exclusion is not inductive alone:
  `IInv` adds that the semaphore is 1 exactly when nobody is inside, that a loaded
  value is still the one in memory, that only waiting processes sleep, and that a
  process is after one counter exactly while it is in the three statements. The loaded
  value is what makes a store an increment by one, which is the refinement.
* `Server_proofs`: `StatsProtocolHolds`: every step of the server is a step of
  `SharedStats` or leaves its variables alone, so `StatsInvariance` transfers the first
  group to main and the children. `NoLostZombieHolds` is inductive with the type of
  `cpc`. `HoldersAreAliveHolds` needs to know that a child that is forked is new, which
  is `FreshInvariance`: no connection is twice in the backlog, or there while main has
  it, or handed over twice. It is combined with the types from `StatsInvariance`.
  `ParentSurvivesHolds` follows from `FreshInv` too: main only ever asks for the peer of a
  connection it holds, and a client that has left does not come back.
  `ExactConnectionsHolds` rests on `CountInvariance`: `WantInv` (main is after
  `served_connections` and no child is) with `ExactInv` (the counter is the number of the
  finitely many children forked so far, plus one between increment and fork). `StepsApart`
  sums up all steps that neither fork nor touch the statistics; `MainCounts` and
  `OthersCount` are the steps of an increment.
* `ServerAnswers_proofs`: `LogFaithfulHolds` and `WholeAnswerHolds`, from one invariant,
  `AnswersInv`. Of each connection it says that a request stays what it was once it is
  sent, that a child's copy of `client_ip` is the address of its own connection, that its
  buffer holds nothing or the line of its answer, or the tail of it, from `write_request`
  until the child ends, and what is true once headers have gone out. `PieceInv` is about
  lines in two pieces: one that is begun in the log has its tail in the buffer while its
  child runs, and in the log afterwards unless the child crashed; it is what keeps a head
  from being without a tail, and a tail from coming first. `LogInv` says of the log that its
  pieces are right and each connection has one, or a head and then a tail. `SameConn` and
  `OneMoves` reduce a step to the connection that moves, `LogStays` is for all steps that
  write nothing.
* `ServerCounts_proofs`: `CountedFirstHolds`, `PageAddsUpHolds` and `TypeCorrect`. Neither
  of the first two is inductive, since they bound counters by one side only.
  `CountersInvariance` has the equality: each counter is the number of connections with a
  line of its code, in a buffer or in the log, that are past their store (`Counted`,
  `CountersExact`), and `CountingInv` says after which counter a child is; `StatusInv`, that
  a client with a status line has a line in the log or in a buffer. The complete lines of the
  log are mapped one to one into `Counted`, and those that are begun into `Counted` and
  `BegunUncounted` together (`LinesBound`, `BegunBound`), so that `CountedFirst` is a bound
  on cardinalities.
  The four sets `Counted(code)` are disjoint sets of forked children, which `SumBound` turns
  into an inequality between counters; `PageInv` says of a page that is half read that no
  counter falls behind what was read of it. `PageAddsUpHolds` has a hypothesis,
  `ServedLast`: `served_connections`, the first argument of `snprintf`, is evaluated last.
  C leaves that order to the compiler; gcc on x86-64 has it so, and `RightToLeft` in
  `MCServer` satisfies it. Nothing else is asked of `EvalOrder`.
* `FileServing_proofs`: `QuietLengthHolds`, `CrashHasCauseHolds` and `OneVersionHolds`,
  for files and chunks of any size, any width of int and any number of edits. `DiskInv` says that a name
  leads to an inode with a version in it; `FdInv` that the inode the child has open stays,
  whatever happens to its name; `QuietInv` what is true at each point of the child as long
  as nobody has edited since its first lookup; `OneInv` that without `Overwrite` an inode
  never changes, and that the bytes sent are all of the inode that is open. `TypeCorrect`
  adds `TypeInv` to `DiskInv` and `FdInv`: what is open has a version, so the size that is
  taken from it and the version of a chunk are typed.

* `HeaderBlock_proofs`: `TypeCorrect` and `Refinement`, for lines, pieces, blocks and first
  capacities of any size. `ReadOK` and `BlockStarted` type the reading (a piece is appended
  to a part that is there), and `ArrayInv` says that the first `count` cells hold headers and
  that there is an array while there is anything to add, so that doubling makes room.
  `InOrderHolds`, `LossHasCauseHolds` and `FirstOfNameHolds` rest on `HeadersInvariance`,
  which adds three parts. `BlockInv`: the block has the lines in the order they were sent,
  all but the last whole, and everything that has been read as long as there is room.
  `PieceInv`: a line that is begun has been read in pieces of `LineMax` each, so that a piece
  that is only a line end begins on a multiple of it; this is what a boundary of fgets is.
  `FoundInv`: the array has the headers of the parts `strtok` has passed, no others, in
  their order. `WhereItEnds` names the ways the reading ends, and each is a cause.

* `Startup_proofs`: `ReadyToAcceptHolds` and `FailsInTheLogHolds`, for any files, limits
  and faults. `StartInv` says what has been done at each point of main: `LogsInv`,
  `SocketInv` (no socket or one that is bound as configured, until listen has looked),
  `SetupInv`, and `ExitInv`, that an exit with a log has left a message. `Steps` sums the
  steps of the configuration up in one. `TypeCorrect` needs `ConfigInv`, what has been read
  of the files at each point, so that the port is an integer when `htons` cuts it.
  The lookups have an invariant of their own, `LookupInv`, for `FoundInOneFileHolds`,
  `MissedMeansAbsentHolds` and `CrashNeedsIncompleteHolds`: `PointersInv` says that the three
  pointers are what the lines read so far of the open file say (`SaidOf`, the value of the
  last line that gives one, or NULL), which is where a pointer left from the file before would
  show; `SearchedInv` that a file that was returned and is closed again is not the host's.
  `SaidOfNext` is the step from r lines to r + 1, which is what an induction over the lines
  comes to when each of them is a step.

* `DocSearch_proofs`: `PanelConsistentHolds`, `ShownIsLastSearchHolds`,
  `StrayIsLabelHolds`, `StaysUnderPointerHolds`, `FirstPressIgnoredHolds`, for any texts,
  categories, pages and bound of timers. `BoxInv` is the conjunction of the first three
  with the type of the box and of its timers, and `PanelInv` adds that the box is active
  while its field has the focus, which is why what is typed never reaches an idle box.
  Every method of the box is shown to keep `BoxInv`; where a handler passes through a
  state that does not have it, with the results half hidden, the calls are taken together
  (`CloseInv`, `EscapeFieldInv`). `PointerInv` says that the timer of the list does not
  run while the pointer is on it, and `PressInv` that between a keydown and its keypress
  nothing counts as repeated.
  `NothingLeftUnsearchedHolds` speaks of moments without keys and timers only.
  `SearchesInv` covers the others: unless a search is lost or a letter is being
  typed, no timer is running only if the last search was that of the text, up to blanks, and
  away from the field the label is in an idle box only.
  `FrameInv` is for `TypeCorrect` and the arrows: what has the focus is displayed, rows that
  are open have children, the page in the frame is one of the indexes, and a key that is
  down there is the one the document acts on. `ArrowsFollowOrderHolds` compares the loops of
  `NavNext` and `NavPrev` with the order of what is displayed: `NextRow` and `PreviousRow`
  find the neighbours of a row, `DownNext` and `UpPrevious` show that nothing displayed lies
  between. They use `SortedAssumption`; without it Up may take the children of a wrong row.

Every invariant and every action property of the passing runs is stated by a theorem.
Model-checked only: the liveness properties of `Server` (`EveryClientForked`,
`ZombiesReaped`, `ConnectionsEnd`, `ChildEndsOrSleeps`, `MainReturns`), which need fairness
and ENABLED, beyond this prover; and the three runs that refute a comment, where a
counterexample is all there is to show.

## 5. What is not modelled

Stdout, the wording of headers and dates; the failures of malloc; a process
killed from outside (by an administrator, say, between sem_wait and sem_post); clients that
stay but do not read. Site roots are taken to end with '/', which spares `check_root` its
strncat into a string of exact size. `types.txt` is taken to have lines; without any, a name
without extension would not crash the child. What is left over of a request line of 1022 or
1023 bytes is read as the first line of the headers, which is outside `HeaderBlock`, as the
request line is. The index pages are taken to be sorted (`SortedAssumption`). Mime types
beyond that, the size of the page of
statistics, the request line and the messages of the children in `errors.log` are planned
(section 6).

Of the documentation: `dynsections.js` and the rest of `menu.js` (each handler is one
toggle or builds the page once), `jquery.js` (a library), the data files with names,
positions of windows, and how names are encoded in addresses.

## 6. Plan

In this order:

1. Proofs: what the page shows under other orders of evaluation, where
   `served_connections` may be read before the answers; that the outcomes of a lookup in
   `SiteLookup` are those `Server` takes for the shapes of its requests.
2. `StatsPage`: the length of the page against the constant 381 of `stats.c:41`, as a
   function of the counters.
3. `MimeTypes`: `get_mime_type` over lines of `types.txt`, with the empty string it returns
   for an unknown extension (the default of `http.c:73` is never reached).
4. The request line: `rewrite_target`, the version the last assertion of
   `tests/test_http.c` expects.

## 7. Running

    tlc -workers 2 -config MCServer_safety.cfg MCServer
    tlapm Server_proofs.tla
