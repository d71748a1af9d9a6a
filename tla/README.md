# A verification of resolve-avahi-compat

`resolve-avahi-compat` offers the GObject interface of `avahi-gobject` on top of
`systemd-resolved`. This directory models it in TLA+, checks the models with TLC
on small instances, and proves with TLAPS, for every size, each safety property that
a passing run checks, that publishing implements an abstract specification of it, and
that the two example programs use the library as its models allow.

Paths and line numbers below are those of the repository.

## The system

| Component | State it keeps | Operations | Talks to |
|---|---|---|---|
| **GaEntryGroup** (`ga-entry-group.c`) publishes services | the group's `state`, its table of services (name, type, port, TXT entries, `frozen`, the file name of the last commit), the array `created_files` | attach, add_service and variants, freeze, set, set_arbitrary, remove_key, thaw, commit, reset, dispose | writes `/run/systemd/dnssd/*.dnssd`, calls `ReloadDNSSD` over D-Bus, emits `state-changed` |
| **GaServiceBrowser** (`ga-service-browser.c`) discovers services | the varlink `link`, the GSource watching it, `initial_snapshot_done` | attach (waits up to a second, processing messages), the io callback, the notification callback (which reconnects), dispose | `BrowseServices` of systemd-resolved; emits `new-service`, `removed-service`, `all-for-now`, `failure` |
| **GaServiceResolver** (`ga-service-resolver.c`) resolves one service | properties, `address`, `port`, `txt`, `resolved` | attach (a GTask thread per call), completion on the main loop, get_address | `ResolveService` of systemd-resolved; emits `found`, `failure` |
| **GaRecordBrowser** (`ga-record-browser.c`) queries records once | the varlink `link` while the call lasts | attach: call, emit every record, disconnect | `ResolveRecord`; emits `new-record`, `all-for-now` |
| **GaClient** (`ga-client.c`) | `state`, `context` | start: connects once to see whether systemd-resolved is there | emits `state-changed`; the other objects keep references to it |
| **String lists** (`ga-entry-group.c`, `ga-service-resolver.c`) carry TXT entries | linked lists of texts; a service's table of keys and values | build a list from an array, add its texts to a service, set and remove entries, find a key, take a text apart | the publisher's list becomes the table, the table a file, the answer of a lookup a list again |
| File names (`generate_dnssd_filename`) | none | one pure function | the path of a service |
| Enumerations, errors, allocation wrappers, Avahi headers | none | | |
| **`example-publish.c`** | `group`, `main_loop` and what they point to | start a client, publish a service with three TXT entries, wait for Ctrl+C | GaClient, GaEntryGroup; its POSIX signal handler resets the group |
| **`example-browse.c`** | the browser, a resolver per announced service, `main_loop` | browse, look up each service in the handler of `new-service`, quit on failure or Ctrl+C | GaClient, GaServiceBrowser, GaServiceResolver |

What is hard, component by component:

* **GaEntryGroup.** `ga_entry_group_commit` emits REGISTERING before it does
  anything, so the application's handlers run in the middle of it and may reset
  or commit again. A write may fail after others succeeded; an unlink and the
  reload may fail unnoticed. Several processes share one directory and one
  systemd-resolved, whose reload reads everybody's files; a process may be killed
  between a write and its reload. Correct means: a group that failed, was reset
  or is gone leaves nothing behind; an established one has all its services on
  the disk, up to date; nobody disturbs the files of another; systemd-resolved
  has read what was written.
* **GaServiceBrowser.** It is one thread, and deeply re-entrant: the callback of
  a message may disconnect and attach again in the middle of the loop that is
  processing messages, the attach waits in a loop of its own, and that loop may
  call the callback again. What a wait loop has read and left undone wakes nobody.
  Correct means: what a watched link announced is signalled when its queue is
  processed, what is lost with a watch was reported, a browser that will never hear
  anything again says so, a lost connection is noticed, a service on the network is
  signalled.
* **GaRecordBrowser and GaClient.** Both emit signals in the middle of a call, and
  the handlers may make the same call again: an attach replaces the connection
  that owns the reply another is reading, a start overwrites the state of the one
  that was suspended, properties set between two records show in the next. Correct
  means: no reply is freed while it is read, every return disconnects, a record is
  labelled with the question it answers, the client outlives its users, and its state
  is that of the last connection test.
* **GaServiceResolver.** Lookups overlap with each other and with changes of the
  properties; each completion overwrites only what its answer has. Correct means:
  address and port belong together, a lookup asks what its attach asked, every
  attach is answered once, and what is in use stays alive.
* **String lists.** A text is cut in two places of the code, by `strchr` and by
  `memchr`; a list keeps duplicates and a table does not; "key" and "key=" are the
  same in one place and differ in another; an array may end with a NULL or a length; a
  text goes into a file with a syntax and nothing is escaped. Correct means: whoever
  looks a service up reads what its publisher said last, as far as such a line can
  carry it.
* **The examples.** A signal handler runs between any two steps of the main thread,
  the library's own included, and uses what they use, as does the handler of the other
  signal inside it; the pointers outlive the objects. A failure of the browser arrives
  in the middle of nested attaches.
  Correct means: a program that returns has withdrawn everything it could and freed
  everything, and one that was told to stop stops.

## Modules

| Module | Models |
|---|---|
| `EntryGroup`, `MCEntryGroup` | GaEntryGroup, any number of groups and processes, the directory and what systemd-resolved has loaded |
| `EntryGroupProofs` | theorems about `EntryGroup`, and that it implements `Publication` |
| `Publication` | what publishing promises, without loops and system calls |
| `EntryGroupRefines` | the mapping from `EntryGroup` to `Publication` |
| `StringList`, `MCStringList`, `StringListProofs` | the way of a TXT entry from the publisher's array to a reader's list |
| `DnssdFilename`, `MCDnssdFilename`, `DnssdFilenameProofs` | `generate_dnssd_filename`, character by character |
| `PublishExample`, `PublishExampleProofs` | `example-publish.c`, interrupted by signals anywhere; its steps are those of `EntryGroup` |
| `ServiceBrowser`, `MCServiceBrowser`, `ServiceBrowserProofs` | GaServiceBrowser, libsystemd's queue and systemd-resolved |
| `ServiceResolver`, `MCServiceResolver`, `ServiceResolverProofs` | GaServiceResolver, its task threads and systemd-resolved's answers |
| `BrowseExample`, `BrowseExampleProofs` | `example-browse.c`, which extends `ServiceBrowser` with lookups and a main loop |
| `Client` | GaClient |
| `RecordBrowser`, `MCRecordBrowser`, `RecordBrowserProofs` | GaRecordBrowser, any number of them, composed with `Client` on one call stack |

### EntryGroup

Each group is in a process of its own and each system call is a step: `EnsureDir`,
`WriteService` per file, `Unlink` per file, `Reload`. `pc[g]` says what the
thread is doing (`"app"`: the application's code runs and may call the library),
`op[g]` which call is cleaning up or reloading, `todo[g]` and `togo[g]` what the
write and unlink loops have left. Commits suspended in their REGISTERING handlers
are a number, `depth[g]`: a suspended commit has no local state, so
`HandlersReturn` is the same for each. All other emissions are the last thing a
call does, so the code of their handlers is the application code that follows.
`Cleanup`, the head of `cleanup_dnssd_files`, starts the unlink loop or, with
nothing created, ends the call through `Finish`, which sets the state the call
leaves the group in.

A service's group and its path are the constants `GroupOf` and `FileOf`:
`generate_dnssd_filename` is deterministic and depends on name and type only.
Services with the same path, in one group or in two, are instances. A TXT record
is a function from keys to values. Two variables are history: `owner` (who wrote
a file last and still lives) and the `dirty` field of a handle (its TXT record
was changed since it was written).

Left out here: `ga_entry_group_attach` and a reset from a POSIX signal handler
(`example-publish.c:58`), which interrupts the library inside a step; both are in
`PublishExample`. Left out for good: `add_record`, which always fails, and a handler
that frees the group or uses a freed handle, which is undefined.

### Publication

A group is idle, publishing, published, withdrawing or dead; it wants paths, holds
those it has to withdraw, and `shown` says whose file is at a path. `Succeed` needs
every wanted path held, `Release` that none of the group's files is left at any
path, and whatever ends a publication or a withdrawal leaves systemd-resolved up
to date (`fresh`). `EntryGroupRefines` maps `EntryGroup` to it: the phase is where
the thread is and what call that is, what is held is `created_files`, what is shown
is `owner`, and a path is fresh when what is loaded is what is on the disk. The
property `Publishes` is `Publication`'s specification under that mapping. What it is
good for is `NothingShown`: a group that is idle or dead shows no file.

### StringList

Texts are sequences of bytes, because every conversion cuts them at a byte: "=" or
NUL. One behaviour is the life of one service: `NewNode` is the loop of
`ga_string_list_new_from_array`, `AddEntry` that of
`ga_entry_group_add_service_strlist`, `Set`, `SetArbitrary` and `RemoveKey` the calls
that change the table, `Publish` writes the `file`, a line for each entry (`Lines`),
`Answer` is a line of it in the answer of `ResolveService`, and in the resolver's list.
`Finds` is `ga_string_list_find`, `KeyOf` and `ValueOf` are `ga_string_list_get_pair`.
`mentions` is history: what the publisher said of which key.

`generate_dnssd_content` escapes nothing. A line without a byte of `Special` (newline,
white space, quotes, backslash, what is not UTF-8) is read back as it was written
(`Plain`); any other may come back as any of `Misread`, which is any set of lists of
texts: nothing, another text, or several. systemd-resolved is external, and what it
makes of such a line is not the code's; it answers with the lines in any order.

Left out: the empty key, and keys that contain "=", which no reader can take apart as
meant.

### PublishExample

`main` is what the main thread does next, in steps as fine as a signal can tell
apart: the write of the file, the copy of its path (`Copy`), the entry in
`created_files` (`Track`) and the name in the handle are four. `Signal` enters
`on_signal`, and the main thread stands still until `HandlerReturns`. The handler has
steps of its own: `TestGroup` looks at the group and its array, `Unlink`, `Forget`,
`ReloadUnlinked` are `cleanup_dnssd_files`, `Clear` the rest of the reset. The other
signal is not blocked meanwhile: `handler` is what the innermost handler does next,
`outer` what the one it interrupted does. An unlink may fail (`UnlinkMayFail`);
`stuck` is history: one did. `group`, `loop` and `service` are `"null"`, `"live"` or
`"freed"`, since nothing clears the pointers; a use of freed memory goes on or ends the
process (`ended = "crashed"`), and a handler, which prints, allocates and takes the
main context's lock, may at any time wait for ever for a lock that the code it
interrupts holds (`"hung"`). `E` maps the state to an `EntryGroup` with one group and
one service.

The withdrawal in `UnrefGroup` is one step because nothing is left to withdraw there
(see its comment).

### ServiceBrowser

The calls under way are a `stack` of frames: `varlink_io_cb` in its loop (`"io"`,
or `"oldio"` once its own source was destroyed), the wait loop of an attach of
the application, the wait loop of an attach nested in `browse_notify_cb`.
`Read` is what `sd_varlink_process` does when its buffer is empty: it takes from the
socket what is there. `Dispatch` is a message of the buffer given to the callback,
`Reconnect` the callback of `io.systemd.Disconnected` or `io.systemd.TimedOut`, all
taken from whichever loop is innermost. The main loop polls the socket only
(`IoBegins`): what a wait loop has read and not dispatched, because it stops at the
first service or its deadline, stays there until more arrives (`Stranded`). Time is the number of 100 ms waits left
to a deadline, and a `Tick` passes for every waiting call.

systemd-resolved, the network and libsystemd are external and modelled from their
use: a notification carries what changed since the last one on the link; a
closed connection is answered with `Disconnected` once everything received was
dispatched, and polled as a hang-up by the main loop; an error ends the
subscription. `refs`, `failed`, `known` and `waited` are history.

Left out: handlers that drop the last reference to the browser (the loop goes on in
freed memory), an attach while a watch is active (which leaks the first link),
properties that change while browsing.

### ServiceResolver

`task[i]` is the lookup of the i-th attach, with the properties it copied;
`ThreadAnswers` and `ThreadFails` are the thread, `CompletesFound` and
`CompletesFailure` the callback on the main loop. `SelectAddress` and
`SelectPort` are `extract_address_from_services`: the last address of a family and
the last port of all SRV entries count (`LastOfProto`, `WithPort`). What
systemd-resolved may answer for a name is the constant `Announced`; it answers with the family it was asked for.
`answered`, the order of the completions, is history. The number 0 is the absence
of a port, as in the code, also when it is announced.

Left out: the nodes of the TXT list (an earlier list is never freed), bytes of an
address that are not numbers, ports beyond 65535, `ga_address_snprint`.

### Client and RecordBrowser

`RecordBrowser` extends `Client`: the calls of both are frames of one `stack`,
innermost last, and the application's code runs when the stack is empty or the
innermost call is emitting (`AppRuns`). `Start`, `Probe` and `StartReturns` are
`ga_client_start_in_context` up to its first emission, up to its second, and to
its return. `AttachRefused`, `AttachFails` and `AttachAnswered` are the three
outcomes of a query; `EmitRecord` and `EmitAllForNow` emit, `AttachReturns`
disconnects whatever link the browser has by then. `SetProperties` sets the question
(`props`: the interface, and `name` for name, class and type), in handlers too;
a frame copies the interface, as the code does (`ifindex`), while `Emitted` reads the
name from the object again for every record. Connections are numbered, so
that the one a reply belongs to (`link` of a frame), the one in `priv->link` and
those that are `open` can be told apart. `probe`, `made`, `replaced`, `renamed`, and
`asked` and `said` of a frame (the query, and what the last record said of itself) are
history.

Left out: a handler that drops the last reference to the object whose call is
under way (the call goes on in freed memory); the protocol, which is read again at
every record too but is no part of the query; the bytes of rdata, of which those
that are not numbers stay uninitialised; the client's main context and flags,
which nothing reads.

### BrowseExample

The module extends `ServiceBrowser`: each step of the program is a step of `main`, or
a step of the browser together with the handlers its signals call. `Notified` makes
a resolver for each announced service, `Reattaches` and `Reports` call `on_failure`
when the browser fails, `Completes` is the answer of a lookup, which drops the
resolver. `running` is `is_running` of the main loop; quitting a loop that is NULL
or does not run yet has no effect. A resolver is its thread and its reference to
the client; what it answers is in `ServiceResolver`. `told` is history: the running
loop was told to stop. The signal handler may hang wherever it interrupts the main
thread (`MayHang`), the main loop included.

### DnssdFilename

One step is one character of the name or of the type, with the character classes
of the code: `Alnum`, the four that have a case of their own, and `Other`.
`EntryGroup` takes the result as `FileOf`.

The reference the loops are compared with is a predicate, `IsFilename`: a character
that is kept stands at the place that is the number of kept ones up to it
(`NamePlace`, `TypePlace`), replaced or not. It speaks of places where the code appends,
so neither follows the other.

## Runs

Passing runs:

| Run | Instance | Shows |
|---|---|---|
| `group_reentrant` | one group, two services with own files, one TXT key, commits nested two deep, reloads lost, unlinks failing | `TypeOK`; `CleanAtRest`: a reset, failed or gone group has nothing left to withdraw, so the failure return that skips the cleanup is harmless; `EstablishedOnDisk`: an established group has its committed services on the disk, up to date; `CallsEnd`, `RegisteringEnds`: calls end and REGISTERING is left |
| `groups_shared` | two groups, one path | `Tracked`: a file is in the `created_files` of the live group that wrote it last; `QuietInSync`: with no call under way systemd-resolved has read the directory as it is; `Publishes`: every step is one of `Publication` |
| `groups_crash` | two groups, two paths, processes killed at any step | `OwnedIsLoaded`: what a group at rest wrote last is loaded; `Undisturbed`: nobody changes another's file |
| `txt` | three keys, one the beginning of another; values empty, with "=", with NUL, with a newline that is misread in three ways; lists of up to two texts, three mentions | `TypeOK`; `FindsPublished`: if no entry has a special byte, `ga_string_list_find` finds what was said of a key last, and no other entry; `WalkReads`: a walk meets each entry without such a byte with its last value, and, if none has one, each key once and nothing else |
| `publish` | up to three signals, one inside the handler of another, unlinks failing | `TypeOK`; `NothingLeftBehind`: when `main` returns no reference is left, and no file unless its unlink failed; `UsesGroup`: until the first signal every step is one of `EntryGroup`; `StopsFromLoop`: if no handler hangs, Ctrl+C in the main loop makes `main` return, or a later signal crashes on what was freed |
| `browser` | two services, two slices of waiting, four attaches, two queued messages, retries | `TypeOK`; `ViewOfLink`: every announcement of a watched link is signalled or queued, and what is lost with a watch was reported; `DeafIsReported`: a browser that will hear nothing more has said so; `BoundedWait`: a call waits at most a second for each link it opens; `LossNoticed`; `Discovered`: a service that stays is signalled, or its message is stranded |
| `browse` | two services, three attaches, two lookups, one signal | `ClientCounted`: nobody uses a freed client, and only lookups under way and reconnects keep a reference at the end; `QuitStops`: if no handler hangs, a running loop that was told to stop makes `main` return through any nesting of attaches, or a later signal crashes on the freed loop |
| `resolver` | two lookups, two names, both families, an announced port 0 | `TypeOK`; `LastAnswer`: `get_address` returns address and port of the last answer that had an address; `AnswersTheAttach`; `ClientKept`; `Answered` |
| `records` | two browsers and a client, calls nested two deep, two starts, replies of up to two records, three connections, three references, two questions that differ in interface and name | `TypeOK`; `StateSettled`: the client's state is that of its last test; `ReplyAlive`: no reply is freed under the attach that reads it; `NothingLeftOpen`; `ClientHeld`; `RecordOfQuery`: a record carries the interface of its query, and its name unless that was set meanwhile; `Disconnected` |
| `filename` | all names of up to three of seven characters, six types | `Contained`: the name is one path component; `Computed`: the reference definition; `PlainIsUnique`: plain names and well-formed types do not collide |

Runs that are expected to fail, each on what a text of the repository says:

| Run | Property | What happens |
|---|---|---|
| `browser_ghost` | `VanishedIsRemoved` | a service that vanishes around a reconnect is never signalled removed (`ga-enums.h:65`) |
| `resolver_mixed` | `PairAnnounced` | address and port of different SRV entries ("IP addresses and ports", `README.md:16`) |

Some texts hold only with a condition that the code does not establish, which the
model has as a switch or leaves to its environment:

* With `ReloadMayFail` a lost reload still ends in ESTABLISHED ("Service is now
  published!", `example-publish.c:43`): `signal_resolved_reload` has no result.
* With `UnlinkMayFail` a failed unlink is logged and the path forgotten; TLC then
  finds `Tracked` violated, and the theorem assumes the switch is off. For the same
  reason `NothingLeftBehind` excepts a file whose unlink failed.
* A message that the wait loop of an attach has read and left is not processed until
  systemd-resolved sends another: `Discovered` and `VanishedIsRemoved` except it.
* A TXT entry with a byte that means something in a `.dnssd` file may be published as
  something else, even as an entry for another key: see `Readable`.
* A signal handler that waits for a lock of what it interrupts hangs the program:
  `StopsFromLoop` and `QuitStops` assume that none does.
* `all-for-now` is emitted after the first message with a service, with more
  possibly queued ("no more records will show up soon", `ga-enums.h:67`).
* Ctrl+C between "Press Ctrl+C to stop" (`example-publish.c:133`) and
  `g_main_loop_run`, and a failure of the browser during the first attach of
  `example-browse.c`, quit a loop that is not there or not running, and are lost. So
  `StopsFromLoop` and `QuitStops` speak of a running loop.

`BoundedWait` is as strong as the code allows: "bounded, up to 1s"
(`ga-service-browser.c:527`) is true of each link, and not of a call that
reconnects inside its wait.

Every property of a passing run has a mutant: a definition changed as a bug in
that code would change it, stated just before the definition it replaces.

### Bounds

* `MaxDepth`: commits nested in handlers. Two is a commit inside the handler of a
  commit; the suspended ones have no state that a third could differ in.
* Two groups: all interactions are through a file, the directory and a reload,
  which are pairwise. The theorems cover any number.
* `Slices`, `MaxAttach`, `MaxQueue`: two slices let a nested wait use up what the
  outer one has left; four attaches are a first one and three that replace it,
  nested or from the main loop; two messages let one be read with another
  waiting. `Die` and `Expire` are not taken when no attach is left, so that the
  last state of a run is not an artefact of the bound.
* `MaxDepth` 2 in `records`: a call and one in its handlers, of the same browser,
  of the other or of the client; with `MaxLinks` 3 a handler may attach twice in a
  row. Three references are the application's and two attaches, so that a browser
  may hold two, or both one.
* Names of three characters hold a separator between two others, and the types
  contain hyphens and subtypes, which is what could make two file names equal.
* Two questions in `records` differ in interface and name, which is all that a record
  can get wrong; two records let a handler set them in between.
* `txt`: a list of two texts repeats a key or not; a third mention is a change or a
  removal after it. One special byte stands for all, since any line that has one may be
  read as nothing, as an entry of another key, or as two. The theorems cover any bytes,
  keys, lists and misreadings.
* `publish`: three signals are one while the group exists, one inside its handler or
  for what the first left, one in the cleanup. There are two handlers at most, for two
  signals are handled. The theorems cover any number.
* `browse`: a slice and a queued message, as the waiting itself is the subject of
  `browser`; three attaches are one, a reconnect, and a reconnect nested in it or
  after it; two lookups may be in different states.
* Two lookups: completions are applied one at a time, so a pair shows every order
  of two of them, with the second failing, empty or of another family.

Deadlock is checked in all runs but those of things that end: the two of the resolver,
which stop when it is gone, `filename`, which has a result, and `publish` and
`browse`, whose programs return.

### Fairness

* Group (`group_reentrant`): weak fairness of the library's steps, because a call under way runs, and
  strong fairness of `HandlersReturn`: a handler may make calls of its own any
  number of times, but comes to its end. No call of the application is fair.
* Browser: weak fairness of the main loop's callbacks, of the wait loop with its
  clock, and of systemd-resolved's notifications. Deaths, restarts, timeouts and
  the application's calls are not fair.
* Records: strong fairness of the steps that follow a handler (`EmitRecord` and its
  like, the connection test, the return of a start): a handler may call the
  library any number of times, but comes to its end.
* `publish` and `browse`: weak fairness of the main thread as a whole, its handlers
  included (`MainStep \/ HandlerStep`), which the operating system schedules. Signals,
  threads and systemd-resolved are not fair.
* Resolver: weak fairness of each thread and each completion: GTask runs every
  task and its callback, and libsystemd ends a call with its own timeout.

## Proofs

Every theorem is about the specification of its module and for all values of the
constants that the module's named assumptions allow.

`EntryGroupProofs`, for any groups, services, paths, keys and nesting:

| Theorem | States | Assumes |
|---|---|---|
| `TypeCorrect` | `[]TypeOK` | |
| `NothingLeft` | `[]CleanAtRest` | |
| `EstablishedStaysOnDisk` | `[]EstablishedOnDisk` | |
| `NotDisturbed` | `Undisturbed` | |
| `NothingForgotten` | `[]Tracked` | unlinks do not fail |
| `OwnedStaysLoaded` | `[]OwnedIsLoaded` | reloads are not lost |
| `QuietStaysInSync` | `[]QuietInSync` | reloads are not lost, processes not killed |
| `PublicationImplemented` | `Publishes` | unlinks do not fail, reloads are not lost |
| `PublicationKeepsPromise` | `Publishes => []NothingShown` of `Publication` | |

The assumptions are the ones under which the property is true: with the switch
on, TLC finds a counterexample to each. The constants need only the types that
`EntryGroup` assumes of them (`GroupOfType`, `FileOfType`, `DepthType`,
`SwitchType`, `NoneIsNew`).

The argument: `IInv` is `TypeOK` and, for each group, `GroupInv`: what the loops
hold belongs to the group and is in use, the unlink loop is inside
`created_files`, what is created is a path of the group's and means the directory
exists, and a group in a withdrawing call is emptied before its reload. The
directory part is what makes `CleanAtRest` true at all: the failing mkdir skips
the cleanup, but only where nothing was ever created. `GroupInv` speaks of one
group only, so a step is either that group's own, one lemma per kind of step, or
leaves it untouched (`OtherUntouched`). `CInv` adds, for each service with a path
of its own, that it is current on the disk once the write loop is past it;
`OwnerInv` that what a group owns it tracks and still has to unlink; and for the
last two theorems that a group whose writes are not loaded is inside a call that
will reload.

`PublicationImplemented` shows that every step maps to one of `Publication`, or to none:
`UntouchedMap` says that the groups a step leaves alone keep their image, and then
there is a lemma per kind of step. It needs `CInv` (a group that is past its write
loop has every path it wants in `created_files`) for `Succeed`, and `OwnerInv` (what a
group owns it has yet to unlink) for `Release`.

The other proof modules:

| Theorem | States | For any |
|---|---|---|
| `StaysInDirectory`, `LoopsCompute`, `PlainNamesAreUnique` (`DnssdFilenameProofs`) | `[]Contained`, `[]Computed`, `[]PlainIsUnique` | alphabet, names, types |
| `MatchesOnlyItsKey` (`StringListProofs`) | the test of `ga_string_list_find` is true of a text of its key with a value, and of no other | bytes, keys without "=", values |
| `TableTyped`, `WhatIsSaidIsFound`, `EachKeyReadOnce` (`StringListProofs`) | `[]TypeOK`, `[]FindsPublished`, `[]WalkReads` | bytes, keys, values, lists, changes, misreadings |
| `ProgramTyped`, `ReturnsClean`, `ExampleUsesGroup` (`PublishExampleProofs`) | `[]TypeOK`, `[]NothingLeftBehind`, `UsesGroup` | number of signals |
| `RecordsTyped`, `ClientSettles`, `ReplyStaysAlive`, `NothingStaysOpen`, `ClientStaysHeld`, `RecordsAnswerTheQuery` (`RecordBrowserProofs`) | `[]TypeOK`, `[]StateSettled`, `[]ReplyAlive`, `[]NothingLeftOpen`, `[]ClientHeld`, `[]RecordOfQuery` | browsers, questions, nesting, records, connections, references |
| `BrowserTyped`, `LossesAreReported`, `DeafnessIsReported`, `WaitIsBounded` (`ServiceBrowserProofs`) | `[]TypeOK`, `[]ViewOfLink`, `[]DeafIsReported`, `[]BoundedWait` | services, deadline, attaches, queue |
| `ExampleUsesBrowser`, `ExampleIsTold`, `ExampleCountsClient` (`BrowseExampleProofs`) | `ServiceBrowser`'s `Spec`, `[](ViewOfLink /\ DeafIsReported)`, `[]ClientCounted` | services, lookups, attaches, signals |
| `ResolverTyped`, `AddressOfLastAnswer`, `EachAttachIsAnswered`, `ClientStaysKept` (`ServiceResolverProofs`) | `[]TypeOK`, `[]LastAnswer`, `[]AnswersTheAttach`, `[]ClientKept` | lookups, names, answers, settings |

They assume the types of the constants, that the values standing for NULL and the
classes of characters are different from what they are told apart from
(`NoneIsNew`, `CharsApart`, `BytesApart`, ...), that an answer is a finite list of SRV
entries (`AnnouncedType`), and, for the references of `BrowseExample`, that
a notification announces finitely many services (`ServicesFinite`). The arguments:

* **File name.** The string is not empty once the name is done, which makes the
  name more than its suffix; `SafePieces` is the lemma about the two tables of
  characters. For `LoopsCompute` the invariant (`Progress`) says that after `p` characters
  the name has as many as were kept of them, each in its place; a step adds one
  place or none (`OnePlaceMore`). For `PlainNamesAreUnique` a file name is read from its end:
  the last label begins after the last two hyphens in a row, for a label has
  no two and begins with none, so it has one place to begin (`OneLabel`); then the
  label before it, and what is left is the name.
* **String lists.** A text `key=value` has its first "=" right after the key
  (`FirstAfterKey`), since keys have none; so the table, the file, the answer and the
  two ways of taking a text apart agree on what the key is. The invariant says that
  the table holds what was mentioned last of the texts passed so far, that the file
  has the lines of the table (`Written`), and that each plain line that was sent is in
  the answer, once and with nothing beside it while all are plain (`Answered`).
  Nothing is assumed of the others but that they come back as texts. That a byte which
  occurs has a first occurrence (`FirstExists`) comes from the well-foundedness of the
  naturals.
* **Publishing example.** A file that is on the disk is tracked, except between the
  write and the entry in the array, or its unlink failed (`FileTracked`); `main`
  cannot return from those steps, and no handler forgets the path before the innermost
  of them has unlinked it (`Handlers`). The references to the client follow `main`
  (`Refs`). Until the first signal `main` says what the group, the service and the
  file are (`Uninterrupted`): nobody ends the loop, so the group is disposed of only
  after a commit that failed, with nothing to withdraw. Then there is a lemma per kind
  of step that names the step of `EntryGroup` it is, and one for the steps that are
  none (`UnseenSteps`).
* **Record browser.** `priv->link` is the connection of the browser's innermost attach
  or NULL (`LinkOfInnermost`), and attaches further out have older connections
  (`Older`); so what a return closes is never what an outer attach reads. Outcomes
  of tests are in order because a test still to be made is an excuse (`Tested`), and
  each browser that refers to the client has a reference of its own (`Counted`). What a
  record says fits the query of its frame (`Labelled`): the frame's copy is the query's
  interface, and while any attach of a browser is under way a name that was set is
  remembered (`renamed`).
* **Service browser.** A browser that is attached or attaching, and has not failed,
  has its link and its watch (`Connected`), and an answer that ended the subscription
  is still queued or was reported (`EndIsComing`). No frame of the stack has more time
  left than the links opened allow (`InTime`), and a frame that opens a link has one
  to open (`Budget`). `NoneIsNew` says that NULL is not a link. `ViewOfLink` follows
  from what holds of every queue, whether anybody will process it or not
  (`QueueHasRest`), and from `Connected`, which says that no watch is lost without a
  failure: a message that is queued decides for the services it names, unless a later
  one does (`SeenOneMore`), the one that is read has been decided for (`SeenOneLess`),
  and before the first attach nothing was seen (`Unattached`).
* **Browsing example.** `ExampleStep` shows that each step of the program is one of the
  browser or leaves it alone, so its behaviours are the browser's and the theorems
  about the browser hold of it. Its references are counted by `Count`: the program's
  own, one per attach of the browser, one per lookup that is not finished; a
  notification adds as many lookups as it announces services (`LookupsAdded`).
* **Service resolver.** Address and port are those of the last completed answer with an
  address, or nothing has one (`Filled`); until it is gone the resolver has a
  reference for each of its attaches (`Counted`). What is selected from an answer is an
  entry of it (`AddressSelected`): the last of a family is at the greatest of the
  places that have one, and a set of places has a greatest (`MaxExists`). So each result
  answers the question its thread copied (`AInv`), which nothing changes afterwards.

Only model-checked: the liveness properties (`CallsEnd`, `RegisteringEnds`,
`LossNoticed`, `Discovered`, `Disconnected`, `Answered`, `StopsFromLoop`, `QuitStops`),
since the prover does not do fairness; and the two disagreements, which are
counterexamples.

## Not modelled

* Type registration, signals and properties of GObject as such, enumerations, error
  quarks, allocation wrappers and the Avahi headers: they have no behaviour of
  their own. `ga_entry_group_add_record` and its variants always fail.
* Handlers that drop the last reference to the object that is calling them, and the
  use of a service handle after a reset: the library goes on in freed memory, and
  what happens then is not the library's to say. `PublishExample` has the one case
  that the repository itself contains.
* An attach of a browser while its watch is active, which replaces the link
  without closing it; main contexts other than the default one.
* Bytes: of addresses and rdata that are not numbers, ports beyond 65535, the list
  of TXT entries an answer overwrites (it is never freed), `ga_address_snprint`.
* What systemd makes of a TXT text with quotes or white space (any reading is allowed),
  of the empty key, and of keys with "=".
