# MK Livestatus: a verification development

MK Livestatus is a broker module ("NEB module") that Nagios loads. It opens a
Unix socket on which clients ask, in a small line-based language, for the
current state of hosts and services, for log messages and for availability
reports. This directory holds TLA+ models of its core logic, the TLC
configurations that check them on small instances, and TLAPS proofs of the most
important results for every instance.

Source paths below are relative to `src/src/` unless they start with `api/`.

## 1. The system

### Threads

- **Nagios thread.** Loads the module, calls its callbacks on every event, and
  unloads it (`nebmodule_deinit`). It knows nothing of locks: a callback may run
  at any moment between any two steps of the other threads.
- **Socket thread** (`main_thread`). Polls and accepts; queues descriptors.
- **Client threads** (`client_thread`, `g_livestatus_threads` of them). Each pops
  a descriptor, answers its requests, closes it, and pops the next one.

### Components

| Component | State it keeps | Operations | Correct if |
|---|---|---|---|
| Module lifecycle (`module.cc`) | `fl_should_terminate`, thread ids, counters, pointers to queue, store and triggers | start_threads, main_thread, client_thread, terminate_threads, nebmodule_deinit, callbacks | a descriptor has one owner and is closed once; shutdown terminates, and deletes nothing that is in use |
| Client queue (`ClientQueue.cc`) | deque, termination flag, mutex, condition variable | addConnection, popConnection, terminate | first come first served; no wakeup is lost; nobody sleeps after terminate |
| Triggers (`Triggers.cc/.h`, `Query::doWait`) | one mutex, eight condition variables | wait_for, notify_all | a query returns when its condition is true or its time is over |
| Request protocol (`InputBuffer.cc`, `OutputBuffer.cc`, `Store.cc`) | read/scan/write index, lines of the request, response | readRequest, nextLine, answerRequest, flush | no byte lost or doubled, one answer per request, in order |
| Filters (`AndingFilter.cc`, `OringFilter.cc`, column filters) | immutable tree in negation normal form | accepts, negate, partialFilter, bounds | meaning preserved; every restriction is a superset of the filter |
| Query headers (`Query.cc`) | stack of filters | Filter, And, Or, Negate, ... | the tree means what the headers say |
| Query execution (`Query.cc`, `StatsColumn.cc`) | stack of statistics columns, aggregators by group, line count, limits | Stats, StatsAnd, StatsOr, StatsNegate, Columns, AuthUser, Limit, Timelimit, processDataset, finish | an answer has the rows it should, once, or says why not; statistics are exact |
| Status tables (`TableHosts.cc`, `TableServices.cc`, five of groups) | none; they walk the lists of Nagios | answerQuery, isAuthorized | the walk meets every row of the filter |
| Authorisation (`auth.cc`) | none | is_authorized_for, ..._host_group, ..._service_group | |
| Log cache (`LogCache.cc`, `Logfile.cc`) | index of files, messages per file, read classes, message counter | update, getEntriesFor/load, logLineHasBeenAdded | a query finds all lines of its classes; memory is bounded |
| Log entries (`LogEntry.cc`) | none | the constructor: class, type and fields of a line | the class fits the host that the line names; old forms of a line are read alike |
| Table log (`TableLog.cc`) | iterator over files | answerQuery | the newest lines that the filter selects, however few files and classes are looked at |
| State history (`TableStateHistory.cc`) | iterators into the log, a record per host and service, periods | answerQuery, getNextLogentry, updateHostServiceState, process | every entry of the frame is read; every second of it is spent on the right state |
| Callbacks (`module.cc`) | the callbacks Nagios knows of | register_callbacks, broker_*, deregister_callbacks | each fires the triggers it should |
| Downtimes and comments (`DowntimesOrComments.cc`) | a map by id each | registerDowntime, registerComment, walks of queries | a walk sees what is there all along; who waits is woken |
| Timeperiods cache (`TimeperiodsCache.cc`) | states of periods, time of the last update | update, logCurrentTimeperiods, inTimeperiod | cache and log agree, and know every period |
| Statistics counters (`global_counters.cc`) | counters and averages | counterIncrement, do_statistics | |
| Client libraries (`api/`) | connection | query, reconnect | |
| Columns, renderers, logger, tools | none or text | | |

### Interactions

Socket thread -> queue -> client threads (a descriptor changes owner at each
arrow). Client thread -> InputBuffer -> Store -> Query -> Table -> LogCache,
under `LogCache::_lock` for the log tables. Nagios callbacks -> triggers ->
waiting queries, and -> external commands, downtimes, comments, counters. Nagios
-> log files -> log cache, through the file system.

### Hard behaviours

Handing over and waking between four kinds of threads; a notification that does
not take the waiters' mutex; unloading while threads work or wait; the file that
is read while Nagios writes or rotates it; memory eviction inside the loading it
is triggered by; index arithmetic of a buffer that is read, shifted and enlarged;
equivalences of filter trees at the ends of the integers; objects that
disappear and come back in the history. `PROJECT.json` lists every hazard at the
line where it bites, with the properties that would catch it.

## 2. The modules

| Module | Models | Role |
|---|---|---|
| `ClientQueue` | `ClientQueue.cc` | each critical section and each notification is an action |
| `LivestatusThreads` | `module.cc` | extends `ClientQueue`; all threads, whole lifetime |
| `ConnectionService` | - | abstract: a first-come-first-served service with at most `MaxActive` at a time |
| `LivestatusThreads_proofs` | - | 7 theorems |
| `WaitTriggers` | `Triggers.h`, `Query::doWait`, callbacks of `module.cc` | waiting queries against callbacks |
| `WaitTriggers_proofs` | - | 4 theorems |
| `NebModule` | `module.cc`, `DowntimesOrComments.cc`, `TimeperiodsCache.cc`, the walks of `TableDowntimes.cc` and `TableComments.cc` | callbacks against waits and walks; composed with `WaitTriggers` |
| `NebModule_proofs` | - | 3 theorems |
| `LogCache` | `LogCache.cc`, `Logfile.cc` | loading and eviction against appends |
| `LogCache_proofs` | - | 8 theorems, two of them of `LogIndex` |
| `LogIndex` | `LogCache::update`, `addToIndex`, `firstTimestampOf` | the index against rotations |
| `Filters` | the filter classes | pure: accepts, negation, partial filters, bounds |
| `FilterStack` | header parsing in `Query.cc` | state machine that builds every filter of a bounded size |
| `LogEntry` | `LogEntry.cc` | pure: what a line of the log means |
| `TableLog` | `TableLog.cc`, the backward walk of `Logfile.cc` | extends `FilterStack` and `LogEntry`: the answer of a log query |
| `HistoryReader` | `TableStateHistory.cc` | extends `TableLog`: the entries that a report reads |
| `TableLog_proofs` | - | 9 theorems, five of them of `FilterStack` |
| `QueryExecution` | `Query.cc` without filter headers, `StatsColumn.cc`, `auth.cc`, seven tables | a query from its headers to its last row |
| `QueryExecution_proofs` | - | 4 theorems |
| `RequestReader` | - | abstract: a stream is lines, lines are requests |
| `InputBuffer` | `InputBuffer.cc` | byte-level buffer |
| `ClientConnection` | `client_thread`'s loop, `Store.cc`, `OutputBuffer.cc` | extends `InputBuffer` |
| `ClientConnection_proofs` | - | 5 theorems, of `InputBuffer` too |
| `StateHistory` | `TableStateHistory.cc` | a log entry per step |
| `StateHistory_proofs` | - | 5 theorems |
| `MC*` | - | constants for TLC; `MCQueryExecution` takes its filters from `Filters` |

### LivestatusThreads and ClientQueue

The variables of `ClientQueue` are `_queue`, `_should_terminate` and the set of
threads blocked in `_cond.wait`; each critical section is atomic, since nothing
in it blocks with the mutex held, while `notify_one` follows the unlock and is an
action. `popConnection`'s spurious wakeups are modelled. `LivestatusThreads`
adds program counters for the Nagios, socket and client threads; the
descriptor each of them holds; the set of open descriptors; and
`g_num_queued_connections`, whose `++` and `--` are a load and a store, since it
is a plain int. `fl_should_terminate` is a plain bool too, but its address is
handed to other translation units, so the compiler must load it at each test and
a load returns the last store; that is what the model does. The refinement
`ImplementsService` maps the queue to the abstract line and the descriptors that
client threads hold to `inService`; the service is open until `nebmodule_deinit`
returns.

### WaitTriggers

`wait_for` holds the mutex while it evaluates its predicate and registers, but
`notify_all` is called without it and the state has been changed without it. So
evaluation and registration are two steps. An `Event` changes the objects and
queues the condition variables that `notify_all` signals, "all" before the kind,
one `Notify` step each; `_LOG` commands notify twice. The wait condition of a query is
a Boolean that an event may turn either way. The ghost `due` says that the
condition has been true since an event the query listens to, and `missed` that
a notification fell into the window; `SleepsOnOnlyIfMissed` says there is no other
way to sleep on with a true condition.

### NebModule

The Nagios thread from `nebmodule_init` to `nebmodule_deinit`: which callbacks are
registered, and what each of them does. `registered` is a set of pairs of a type and a
function, because `deregister_callbacks` may name another function than was
registered. A callback runs to its end before the next one; a change of a registry is two
steps (`BeginChange`, `EndChange`), between which a query may take a step of its own.
What such a step sees of a `std::map` that is being changed is undefined behaviour; the walk is then `Lost`,
as is one whose entry is erased, and no property speaks of it. `listed` is what
Nagios has, which is ahead of the registry by the change under way. The wait condition,
which is free in `WaitTriggers`, is here whether there is a downtime; the waits and
notifications are the actions of `WaitTriggers`, so that its theorems hold of the
module (`CallbacksAreEvents`). Of a timeperiod there is the truth
(`inside`), what the cache says and what the log says last; a period changes at
most once between two updates, as the comment in `TimeperiodsCache.cc` says.

### LogCache and LogIndex

A line is its class, a cached message its line number and class. `fgets` is a
step, so that Nagios may append between any two; `logLineHasBeenAdded` flushes or
frees one candidate per step. A query chooses files in any order, `load` makes
its two passes, growth of the known classes and the whole file for the
missing ones, which share one `_read_pos`. Rotation
happens between two queries here; its races are `LogIndex`'s. `AppendWhen` says in which phases
Nagios writes, to tell what holds without the race from what the race breaks.
In `LogIndex` the clock ticks several times a second, as Nagios records
rotations in whole seconds and the cache compares with the system clock, and a
rotation is several steps of Nagios, as is the update of the index (`phase`). Its specification is
`IndexSpec`, so that one module of proofs can extend both.

### Filters and FilterStack

A filter is a record tree. `AndingMake`, `OringMake`, `Negate`,
`PartialFilter` and the four restrictions are the methods of the same names. Beside the stack of filters
`FilterStack` keeps the set of rows each header means; `SelectsWhatWasMeant`
compares the two on all rows. Integers lie between `-MaxInt - 1` and `MaxInt`, and bounds wrap as
the `int32_t` of the code does. The filters there are, `AllFilters`, are built in levels: the
column filters, and connectives of filters of the level below, `MaxDepth` times. A walk over a tree
(`Accepts`, `Negate`, the bounds) is a recursive function on that set, so that it
can be proved about; `ColumnFilters` and `MaxDepth` are bounds that no query of the run
meets, since every header adds one level at most. The operators that compare integers by their bits give no bound but do
give value sets (`IntFilter.cc:135`); they are modelled, by the sets of bits (`BitsOf`), for times and
integers alike. In a list filter "=" is modelled with the empty value only, for "the
list is empty"; with another value, like "=~", it is "not implemented" in the
code: it accepts nothing, and neither does its negation. Regular
expressions, and dictionary and double filters, restrict nothing and are left out.

### LogEntry, TableLog and HistoryReader

`LogDefinitions` is the table of texts of `LogEntry.cc`; `Entry` gives class, type, name
and state of a line. In `TableLog` the filter that `FilterStack` has built
chooses, by its bounds, the log to begin with, the entry in it, the classes and where to
stop; `AnswerQuery` is compared with `Expected`, which looks at every line.
`extra` are the classes that earlier queries have left in the cache, so that the
answer depends on no other query. A user is `[hosts, services, authorization]`: what he is a contact of, and the
option `service_authorization`. Whether he may see an entry depends on the host and on the service
that it names, if they exist (`IsAuthorizedFor`); if the host does not, on its class. An entry gets its place among those of its log
by time and line number (`Insert`), as the keys of the map `_entries` put it. `HistoryReader` has the
other choice of files, that of the state history, which goes forwards.
Logs are in the order of time (`InOrder` in `TableLogAssumption`): each begins with a time
stamp, without which `addToIndex` leaves it out, and has no line older than that or younger than
the first one of the next log. A second may be divided between two logs. Nagios writes so
as long as its clock is not set back; after that the code does lose lines, by its design.
`StateHistory` takes the entries from there: any sequence in the order of time.

### QueryExecution

A header is an action, and so is every outcome of `processDataset`: refused for
the termination flag, the size, Limit or Timelimit, skipped, consumed. `todo`
is the rest of the walk over a table: rows and, before them, the groups and
hosts whose lists the nested loops are still to enter (`Enter`). `AnswerQuery`
chooses the index as the tables do. A filter is the set of rows it accepts with the
values it restricts the index columns to; `FilterAssumption` demands of them what
`StringRestrictionSound` shows of the filters that headers build, and
`MCQueryExecution` computes both with the operators of `Filters`. `consumed` is a
ghost: what has been written or given to the aggregators. The size of an
answer is its rows, and a query with Stats has written none before its end.

### InputBuffer, RequestReader, ClientConnection

`InputBuffer` has the three indices and the bytes; one action is one pass of the
loop in `readRequest` or one `read`. A read may return any prefix of what the
client has sent. A timeout may come whenever the code looks for it. The
refinement maps the consumed prefix to the position of `RequestReader`.
`ClientConnection` adds the loop of `client_thread`, the dispatch of `Store`, and
an answer of a header and a body of two pieces that may be cut at any point by a failing
write or by termination. `RequestsAsSent` names for every answered request the
line of the stream at which it began: these lines ascend and skip no request.

### StateHistory

One step is one pass of the loop in `answerQuery` (prelude, switch, update of the
object and its services). Rows are kept as sums: `Process` adds the time since
`from` to the current state. The ghost `meant` counts the seconds forward as an
observer would: an object is in the state last reported; after a restart its
seconds are pending until it is heard of, and then go to its state or to
UNMONITORED. `SpentAsMeant` compares the two bookkeepings. The filter of the query applies to the rows, whose time is
their end: one that ends before `since` does not reach the client (`Refused`). The other conditions that a
filter may put on rows are left out. A query that asks only for some states, say, gets some of the
rows whose sum is here.

## 3. What the runs check

All times are of two workers; every run finishes within five minutes. Each
property of a passing run has a mutant in `PROJECT.json`: a plausible slip in a
mapped definition, under which TLC finds the property violated.

| Run | Bounds | Shows |
|---|---|---|
| `threads` | 2 connections, 2 client threads, queries that may wait, fair; 124 000 states | one owner per descriptor (`OneOwner`), `NoLostWakeup`, nothing deleted in use, nothing left open, `ImplementsService`, no deadlock; a queued connection is served, a served one closed, and `nebmodule_deinit` returns, each unless a query sits in an untimed wait |
| `triggers` | 2 queries on "all" or "log", timed or not, all callbacks, fair; 297 000 states | a timed wait always returns; a query sleeps on only after an event in the window, and recurring events wake it |
| `module` | 1 client that waits for "all" or "downtime" and walks, 2 downtimes, 1 comment, 1 timeperiod; 677 000 states | who waits for a downtime is woken by it, walks see what lasts, cache and log of the timeperiods agree |
| `logcache` | 2 files of up to 3 lines (limit 2), 2 classes, room for 1 message; no writes between the passes of `load`; 251 000 states | the counter is exact, memory is bounded, a class marked as read is in the cache, a query finds all it asks for, eviction spares it |
| `logcache_append` | the same with writes at any time and no file over the limit | finding 1 |
| `logindex` | 2 ticks a second, 9 ticks, 3 rotations | a rotation that meets no update is noticed and leaves a complete index |
| `logindex_race` | the same | finding 2 |
| `tablelog` | 5 headers, 2 on the stack at a time, 6 leaves on 4 columns, one of them by bits, integers of 5 bits, time zone 1, 4 archives of up to 3 logs and one with every text, 2 users, an existing host that is not theirs and one that is gone; 11 000 filters, all rows | meaning, partial filters and string restrictions of all filters, bounds of those without uneven disjunctions; `LogAnswerExact`, with and without AuthUser and Limit; users see only lines of existing hosts, of their own or of their services, with loose and strict authorization; notifications are read alike in both orders of their fields; `ReportReadsItsFrame` |
| `query` | 3 headers on 7 tables, 2 hosts, 3 services, 2 host groups and a service group, 8 filters, Limit up to 1, 1 row until the answer is too large, 1 contact of a host; 432 000 states | answered rows are wanted and come once, missing ones are accounted for, statistics are what the headers say |
| `connection` | all streams of up to 5 bytes over 4 letters, five longer ones with pipelined requests, buffer of 2 to 5 bytes; 372 000 states | `BufferHoldsStream`, requests answered once and in order, only the last answer may be cut, `ImplementsRequestReader` |
| `statehistory` | 1 host, 1 service, 1 period, logs of 5 entries over 3 seconds, any frame; 624 000 states | durations of the rows that the filter accepts sum up, are spent as the log tells, host changes reach the services, periods survive a disappearance |
| `statehistory_hostdown` | the same with 4 entries | finding 3 |

Why the bounds are enough. *Threads*: the races are between a pusher and a
popper, between two poppers, and of either with the terminating thread; two
client threads and two connections allow all, and the safety properties are
proved for any number of them. *Triggers*: waiters only interact through the mutex and
`notify_all`, so two suffice. *Log cache*: eviction distinguishes
earlier files, the same file and later files, other classes and the same; with
two files each file is in turn the one being read and the other, and with three
lines a file exceeds the limit. *Index*: a rotation before, in and after the
second of an update, and a second one that repairs. *Module*: with two downtimes each can come and go before, at and behind
a walk that is at the other; each client walks for itself, so one suffices, and the
invariants are proved for any number. *Filters*: two operands per
connective and three nested connectives; wider connectives fold
the same operations. The reference values are a start of the logs and one next to the least integer. *Log table*:
three logs are one before, one with and one after the begin of the time range;
a log ends in the second in which the next begins, or in an earlier one.
*Query*: an index finds a
group, none, or a host; a user sees a row by the host only; with two rows and more
in every table each limit stops the walk before, at and after the last row.
*Connection*: the buffer fills, is shifted, doubles, and refuses, with five
bytes. *State history*: appearance, restart, absence, reappearance and one more
change are five entries; objects only interact as a host and its service.

`CHECK_DEADLOCK` is off for the log table and the query, which have a bounded number
of headers and an end, and for the module, which may stop when it is unloaded or refused. The threads have an explicit end (`Unloaded`).

### Fairness

- Every thread that can run does run (WF on each thread's steps). `Accept` has
  SF: `poll` is called with a timeout, so acceptance is enabled again and again,
  and a connection in the backlog is reported each time.
- `ClientLastAnswer` has SF: a client does not keep a connection busy for ever.
  The code closes an idle one after the idle timeout. The assumption fails for
  a client that never stops asking, and for one that does not read its answer
  (observation 9).
- A mutex is not refused for ever (SF on `Lock`), deadlines pass, and Nagios
  finishes a callback it has begun. Nothing is assumed of what Nagios, clients or
  events start on their own; therefore the untimed wait is excepted in the
  properties, and it really blocks the unloading of the module.
- The hazards that these assumptions exclude (an untimed wait, a client that
  does not read) are listed in `PROJECT.json` with no property.

### Findings

1. **Lines written between the passes of `load` are lost** (`Logfile.cc:120`,
   run `logcache_append`). Both passes set the same `_read_pos`, so what Nagios
   appends in between is skipped for the classes of the first pass.
2. **An index update that meets a rotation leaves a log out** (`LogCache.cc:61`,
   run `logindex_race`) until the next rotation: a time in whole seconds is
   compared with a precise one.
3. **Services are not told of an INITIAL HOST STATE** (`TableStateHistory.cc:560`,
   run `statehistory_hostdown`): their `host_down` is wrong after a restart.

### Observations without a run of their own

1. `g_num_queued_connections` (`module.cc:221`) loses updates of two threads and
   drifts; the model contains the race, no property depends on the counter.
2. After `freeMessages` during the growth pass (`Logfile.cc:112`, `199`) a class
   is forgotten that the pass goes on loading; the next query for it meets its
   own lines again and warns of a "strange duplicate logfile line".
3. Disjunctions ignore subfilters without a bound (`OringFilter.cc:94`), so that a log
   query with `Or` of a condition on the time and one on something else looks at too
   few files and classes. `EvenOrs` is the premise that excludes it. With `Localtime`, reference value minus offset can wrap (`TimeFilter.cc:109`)
   and an upper bound becomes negative; `EvenBoundsSound` allows for it.
4. The idle timeout is looked at only when `readData` times out: never with a
   query timeout of 0; and the query timeout starts anew with each piece of
   data (`InputBuffer.cc:123`).
5. `InputBuffer.cc:143` calls an end of file in the middle of a request
   unexpected and yet treats what has come as complete lines.
6. The buffer doubles, so the longest line is 256 MiB, not the 500 MiB of
   `maximum_buffer_size`.
7. A COMMAND does not take its header lines: `Store` answers it from the first line,
   and lines that follow without an empty one begin the next request. Error texts reach the
   client only with `ResponseHeader`.
8. Grouped Stats rows leave out a group column that is an empty string in CSV
   (`Query.cc:714`).
9. `OutputBuffer.cc:75` writes on a blocking descriptor without looking at the
   termination flag: a client that does not read holds up `nebmodule_deinit`.
10. `_notification_periods` outlives a query (`TableStateHistory.h:72`): a report
    may begin with a transition of a later time that an earlier query has read.
11. An object that is found, in the time frame, to be missing since a restart
    before it gets a first row that ends before the frame begins, with a negative
    duration (`TableStateHistory.cc:653`, `616`). The filter that set `_since` refuses that
    row (`Query.cc:665`), but the next one begins where it ended, so the client sees an
    UNMONITORED that is longer than it was, and the columns `duration_part` sum up to more than 1. For
    such objects `DurationsSumUp` and `SpentAsMeant` say only that nothing is left
    out. A row that ends in the frame before it begins, as of an object whose
    timeperiod changes while it is absent, is negative and makes the sums right.
12. A host that comes back has `_in_downtime` reset but not `_in_host_downtime`
    (`TableStateHistory.cc:664`), so that the next DOWNTIME STARTED changes nothing.
13. A StatsAnd, StatsOr or StatsNegate that meets an aggregation such as `Stats:
    sum x` fails, and the columns it has taken off the stack by then are lost
    (`Query.cc:254`). The answer, if the client does not ask for a response
    header, has fewer columns than the client expects.
14. `servicesbyhostgroup` shows the services of a group that strict group
    authorisation hides in `hostsbygroup` and `servicesbygroup`
    (`TableServicesByHostGroup.cc:55`); `HidesGroup` follows the code.
15. The maximum response size does not bound a query with Stats, which
    writes its groups at the end (`Query.cc:712`), and an answer it cuts short
    carries no error; `MissingRowsExplained` allows for that.
16. `getNextLogentry` moves on before it returns, so a report never reads the
    entry it begins at (`TableStateHistory.cc:222`): the first of its classes in the
    first log, even if it is in the time frame. `ReportReadsItsFrame` allows for it.
17. An upper bound of INT_MAX makes `until` overflow and the answer of a log query
    empty (`TableLog.cc:139`).
18. The column `class` is described with "1:state" (`TableLog.cc:66`), but 1 are alerts
    and states are 6 (`LogEntry.h:91`).
19. `logCurrentTimeperiods` follows `end()` of a map for a period it does not know
    (`TimeperiodsCache.cc:50`); `PeriodsTold` shows that the update before the
    threads start excludes it. It tells the log of a transition, but not the cache, so
    that the next update tells it again. An update before the timeperiods exist
    would block the next one for a minute.
20. A `_LOG` command is counted as a log message by `broker_command` and again by
    `broker_log`; `broker_check` is the one callback that `neb_callbacks` leaves out.
21. `deregister_callbacks` names `broker_program` for process data, for which
    `broker_process` is registered (`module.cc:873`).
22. The loop that closes descriptors after a fork stops before `g_max_fd_ever`
    (`module.cc:182`).
23. Counters are plain doubles that all threads increment (`global_counters.cc:51`).
24. `_abort_query` is overwritten with every row (`TableStateHistory.cc:888`), so
    a later row can take back that the limit was reached.
25. Users see no timeperiod transition of the log: it names no host, so
    `isAuthorized` looks at its class, which is that of a state.
26. `createPartialFilter` takes `host_down` for a column of the host, since its name begins with `host_`
    (`TableStateHistory.cc:270`), and asks it of a record that has just been created (`443`), in which it is 0.
    A report with `Filter: host_down = 1` drops every service at its first entry. That
    `PartialFilterIsWeaker` holds is no help: the row changes, not the filter.

## 4. What is proved

TLAPS checks these for every value of the constants that satisfies the named
assumption of the module.

**`LivestatusThreads_proofs`** (assumes `ThreadsAssumption`: finitely many
connections, a natural number of threads, `NoFd` is no connection). The
invariants of the run are not inductive one by one: that nothing is deleted in
use depends on the order of joins, which depends on where each thread can be.
The inductive invariant is

    IInv == TypeOK /\ Control /\ OneOwner /\ Shutdown /\ NoLostWakeup

`Control` relates program counters to what the threads hold and to the phase
of `nebmodule_deinit`; `Shutdown` is `NoUseAfterDelete`, `NobodySleepsAfterTerminate`
and an empty queue at the end. There is a lemma per conjunct, with a step
per action. `NoLostWakeup` counts: sleeping threads against queued connections and
notifications under way, so it uses the cardinality theorems of the library.
`NobodySleepsAfterTerminate` has no run of its own. From `IInv` follow `TypeCorrect`, `Ownership`, `SafeDelete`, `TerminateWakesAll`,
`CleanShutdown`, `NoWakeupIsLost`, and `ThreadsImplementService`: every step is a
step or a stutter of `ConnectionService`.

**`WaitTriggers_proofs`** (assumes `TriggersAssumption`). The inductive invariant
is `TypeOK /\ MutexHeld /\ WaitsSoundly`; the last says that an event that is due
for a query past its evaluation is still to be notified or fell into the window.
From it follow `TypeCorrect`, `MutualExclusion`, `OnlyWindowLosesWakeups` and the
action property `UntimedMeansTrue`.

**`NebModule_proofs`** (assumes `NebModuleAssumption`: positions are natural
numbers and ids are smaller than `End`; the clients wait for triggers that exist). The
inductive invariants are three. `PeriodsInv` adds to `PeriodsTold` what holds before
the threads start: an update within the last minute has seen every period. `RegistriesInv`
relates what Nagios has, the change under way and the registry (`ListedInv`:
they differ by that change only) and says of each walk that
what it has still to meet is in the registry (`SoundOver`); without it a walk could step
over an entry that Nagios has and the registry has not. From them follow
`PeriodsAreTold` and `WalksAreSound`. A step of the module is a step of `WaitTriggers` or leaves
its variables alone, as the actions are composed (`CallbacksAreEvents`). The types of the waiting queries are
therefore not proved again but carried over from `WaitTriggers_proofs` (`TriggersTyped`),
and with `WaitsInv`, which says of a query past its evaluation what `DowntimeWakes` says
of a sleeping one, `DowntimesWake` follows.

**`StateHistory_proofs`** (assumes `StateHistoryAssumption`: hosts and services are
disjoint finite sets, every service has a host, every object a set of periods).
The inductive invariant is

    IInv == TypeOK /\ PeriodsFollowed /\ HostReachesServices /\ UnknownHostIsUp

`UnknownHostIsUp` is the strengthening: a service met before its host is neither
in host downtime nor knows the host to be down, because only entries of the host
say so. Without it the step that meets the host for the first time could break
`HostReachesServices`. First come lemmas on what `Process`, `Revive` and `Update`
do to one record, then one lemma per action; `ObjectEntry` is divided into the
object itself, the services that are told and the rest. From `IInv` follow
`TypeCorrect`, `PeriodsAreFollowed` and `HostsReachServices`.

The seconds have an inductive invariant of their own, on top of `TypeOK`:

    SecondsInv == ReadingInv /\ DurationsSumUp /\ SpentAsMeant

`ReadingInv` compares a record with the observer at the time now reached. Neither
bookkeeping is ahead of the other for good: the code writes late, at a change, and the
observer decides late, when a pending object is heard of. So each record *owes* the
seconds since `from`, to its current state (`Present`) or, if it is found absent, to that state and UNMONITORED
(`Absent`); the observer owes what is pending. What is written plus what is owed
is what the observer has counted (`Matches`), exactly or, for an object that was found to be missing since a
restart before the frame, at least (`Excepted`). Before the frame nothing is written (`BeforeFrame`), which is what makes
the step into the frame agree. Two conjuncts are about sums: the rows so far add up to at least
what lies between `since` and the current row (`Laid`), and the observer has given a state to every
second since `since` (`Complete`); at the end they give `DurationsSumUp`. There is a lemma per action that its
record stays accounted for; TLC has checked `SecondsInv` on the 624 000 states of the run. From it follow
`RowsCoverTheFrame` (`DurationsSumUp`) and `SecondsAreSpentAsMeant` (`SpentAsMeant`).

**`LogCache_proofs`** (assumes `LogCacheAssumption`; among others, `CheckMemCycle`
is not zero, by which the code divides). Two inductive invariants. `SizeInv` is
`TypeOK /\ Numbered /\ NumCachedExact /\ EvictionInv /\ MemoryInv` and holds
whenever Nagios writes: no line is cached twice, the counter is the number of
messages in all files, an eviction under way is still to come to every other file that
has messages and takes none of the classes asked for, and the last check of the
memory bounds what may have come since. From it follow `TypeCorrect`, `CountIsExact`, `MemoryIsBounded` and the
action property `EvictionSparesTheQuery`. `ContentsInv` is
`PositionInv /\ LoadingInv /\ CacheCoherent /\ LoadComplete`: a class marked as
read has all its lines up to `_read_pos` in the cache, and during a load, up to the
line the pass has reached. From it follow `CacheIsCoherent` and
`LoadsAreComplete`, under the premise `NoWriteBetweenPasses`: Nagios writes at any
time except between the two passes of `load`. The premise is finding 1, not a
convenience: without it the run `logcache_append` refutes the conclusion.

The theorems of `LogIndex` are in `LogCache_proofs` too; they assume `LogIndexAssumption`. Their inductive invariant is
`TypeOK /\ DiskInv /\ RotationNoticed /\ IndexSound`. `DiskInv` says that archives
are older than the log in use, and in which order a rotation does its steps. `RotationNoticed` is the heart: a
rotation that met no update is later than the last update, by its second, and, once
Nagios has noted it, by the time that Nagios tells; so the next update sees
it. `IndexSound` says what the index holds after each step of an update that met none.
From it follow `IndexTypeCorrect` and `RotationRepairsIndex`.

**`ClientConnection_proofs`** (assumes `SizeAssumption`: a buffer begins with at least
one byte and no more than the maximum, and blanks, newlines and zero bytes are no letters). `InputInv` (types and
`BufferHoldsStream`) is inductive for `InputBuffer` and gives the positions of
the three indices in the stream; every action of the connection is a step of the buffer or
leaves it alone. With it, `ConnectionInv` adds where the loop of `client_thread` is, what
the call under way has read, which parts of the last answer have been sent, and
`OnlyTheLastReplyIsCut`. `AnswerInv` strengthens `RequestsAsSent`: there is a place in the
stream up to which every request is answered, and the request being read begins
there or after empty lines. From them follow `TypeCorrect`, `NoByteIsLost`,
`RepliesAreWhole`, `AnswersAreInOrder`, and `BufferImplementsReader`: every step is a
step or a stutter of `RequestReader`. That commands are single lines
(`CommandsAreSingleLines`) is a premise of the property itself; observation 7 says
why it is needed.

**`QueryExecution_proofs`** (assumes `NagiosAssumption`, `FilterAssumption` and
`BoundAssumption`). The inductive invariant is

    IInv == TypeOK /\ PhaseInv /\ OnlyWantedRowsOnce /\ WalkInv /\ CoverInv

A step of the walk stands for the rows that are `Under` it: itself, or all of a
group or host that is still to be entered. `WalkInv` says that no two of the
steps left stand for the same row (`Apart`) and that none stands for one consumed or hidden,
so that no row comes twice; `CoverInv` that every wanted row has been consumed or is under a step left
(`Covers`), unless the query has stopped early and says why. The lemmas on `AnswerQuery` show that
each of the seven walks starts so, whichever index it chooses. With it `StatsInv`
says that every aggregator holds the count, sum, minimum or maximum of
the consumed rows of its group that its filter accepts. From these follow `TypeCorrect`,
`RowsAreWanted`, `NothingElseIsMissing` and `StatisticsAreExact`. TLC has checked both
invariants on the 432 000 states of the run. The attempt to prove `StatsExact` has shown
two overlapping guards of a CASE in the expected value of a column
that aggregates nothing; they are exclusive now.

**`TableLog_proofs`, the filters** (assumes `FiltersAssumption` and `FilterStackAssumption`: reference values and
times are ints, filters on a column are negated into filters on that column, and there are enough
levels for the headers). The inductive invariant is `TypeOK /\ Meant`: the filter at each place of the
stack selects the rows that are meant there, and lies in a level that the headers
read so far have opened. That a level exists for whatever `make` builds is what lets a recursive
function on filters be evaluated, so `TypeOK` carries the depth. The work is below the
invariant. A recursive function on `AllFilters` exists because subfilters lie in a
lower level (`Recursion`, by well-founded recursion), and has the equation of its
definition; what holds of the leaves and passes from subfilters to connectives holds of all filters
(`FilterInduction`). On these rest `ConnectiveAccepts` (flattening, unwrapping and the
shortcuts keep the meaning), `Negates` (the negation accepts the other rows),
`PartialAccepts`, `RestrictionsHold` and `BoundsHold`. From the invariant follow `StackTypeCorrect`,
`QuerySelectsWhatWasMeant`, `PartialFilterNeverExcludes`, `RestrictionLosesNoRow` and
`BoundsLoseNoRow`. The last has the premise `RefsFit`: a reference time minus the offset of the time
zone is an int. It is true of every instance without a `Localtime` header, and of the run; where
it fails, the code computes a bound on the wrong side (observation 3). The bounds need it only at
reference values: that `+ 1` and `- 1` wrap at the ends of the range is within the theorem, since a filter that accepts
a row has not wrapped.

**`TableLog_proofs`, the log** (assumes `TableLogAssumption` besides: the columns of the log
table, a natural `Now` below the largest int, no line from the future, logs in order). What the filter of
the query is comes from the invariant of `FilterStack`; the rest is about `AnswerQuery` and
`ReportRead`, which are functions of it. The bounds of a filter contain every wanted
entry (`FrameHolds`, on `BoundsHold`), and the table of texts has no class that it could miss
(`ClassesOfLines`). `AnswersOfFile` is about one file: what the backward walk gives is
the wanted entries reversed, and if it ends early an older entry than the bound is the reason. The
invariant of the walk from file to file (`WalkFindsAll`) is

    rows of the walk so far \o Reverse(wanted entries of the files left) = the answer

and a walk that has ended has left no wanted entry. With `Walks` (the recursive function that
`AnswerQuery` defines exists and starts at the right file) follows `LogIsAnsweredExactly`, with the premise
`RefsFit` of the bounds. `UsersSeeOnlyTheirHosts` needs that the walk
makes up no rows (`WalkFindsWanted`), what `is_authorized_for` decides of a host and a service that exist, and that the entries
with a host are of the classes in `HostClasses`, for those whose host does not; `NotificationsAreReadAlike` that the two orders of the fields make the same entry
(`OrderOfFields`). `ReportsReadTheirFrame` divides all entries at the one where the report
begins: those before it are older than the frame or the first of a log
(`FirstLogSkips`), those behind it are in the order of time, so that reading until one is too young
reads all that are not (`ReadsUntil`). Below are lemmas about sequences: `Those` (a filter
on sequences) against concatenation, reversal, prefixes and order, all by `AllSequences`, the
induction over sequences that the library has only for operators.

Sums over finite sets are folds of the community modules, and what a fold
computes needs induction, for which the library has only theorems that take operators.
`AllNumbers` and `SumsExist` do that induction by hand, from the least
counterexample of a well-founded order (`WFMin`). Both `StateHistory_proofs` and
`QueryExecution_proofs` hold these lemmas, since neither module extends the other.

**Only model-checked**: all liveness (it needs fairness and ENABLED). Every invariant and action
property that a passing run checks is stated by a theorem. The properties of the three findings
are false, and TLC shows it.

## 5. Not modelled, and why

Parsing and formatting (log entries, columns, renderers), the logger and the tools
hold no state a model adds to. The event console is a client of an external
service. The counters are doubles that only the status table shows. The
client libraries are planned. Of modelled parts: argument
parsing and socket set-up; the descriptors closed after a fork;
regular expressions, dictionary and double filters; the aggregations std, suminv
and avginv; the clock of timeouts; `getPreviousLogentry`, whose effect the next
query overwrites.

More than half of the C and C++ lines of the repository hold no behaviour of
its own: the headers of Nagios 3 and 4 under `nagios/` and `nagios4/`, the descriptions of
about a thousand columns, the classes that read them out of the structures
of Nagios, and the client libraries of three languages. What decides, keeps or hands over
something is modelled; the map covers that, not the whole tree.

## 6. Plan

Order, the most important behaviour first; "done" marks what exists.

1. (done) Threads, queue, shutdown, refinement of a service, proofs.
2. (done) Triggers and waiting queries, proofs.
3. (done) Log cache and log index, proofs.
4. (done) Filters and headers, proofs.
5. (done) Requests and responses, refinement of a reader of requests, proofs.
6. (done) State history, proofs, those of its sums of seconds too.
7. (done) Log entries, table log, the entries that a report reads. Left: its composition
   with `LogCache`, so that `LoadComplete` is stated of the answer.
8. (done) Query execution, authorisation, status tables, proofs. Left: joining its
   answer to those of `ClientConnection`.
9. (done) Timeperiods cache, downtimes and comments, callbacks and their
   registration, proofs. Left: counters with their averaging.
10. The descriptors closed after a fork.
11. The reconnecting Python client against `ClientConnection`.
12. (done) Proofs: the answers of `TableLog` and `HistoryReader`, on those of the filters.

Abstract specifications worth stating next: the response stream of a
connection as a function of its requests.

## 7. How to run

    tlc -workers 2 -config threads.cfg MCLivestatusThreads.tla
    tlapm LivestatusThreads_proofs.tla

`PROJECT.json` lists module and configuration of each run.
