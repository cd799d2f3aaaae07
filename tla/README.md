# A TLA+ model of work-mcp

work-mcp is an MCP server in Python: it gives a coding agent tools for a database, Jira,
DingTalk, a remote file system and its logs. This directory holds a model of it in TLA+, the
TLC runs that check the model on small instances, and proofs that TLAPS checks for every
value of the constants. Paths are relative to `src/work_mcp/`, line numbers to the commit
the model was made from.

## 1. Inventory

| Part | State it keeps | Operations | What is hard about it | What makes it correct |
|---|---|---|---|---|
| connection pool (`tools/database/mysql.py`, `sqlserver.py`) | sessions by database, a lock by database, one re-entrant lock over both, `atexit` hook | `_run_with_cursor`, `_get_connection`, `_discard_connection`, `close` | several threads, sessions the server drops, a reconnect in the middle of a call, `close()` under a running statement | a session has one user, none leaks or is closed twice, a retry has a new session, calls return |
| database tools (`tools/database/service.py`, `register.py`) | none | `db_list_databases`, `db_list_tables`, `db_get_table_schema`, `db_execute_query` | driver errors are classified by codes and texts; a statement may run twice; the world changes during a call | the answer names the fault; an internal error is real; a statement reaches the server twice only if its session was lost while the server had it |
| Jira tools (`tools/jira/service.py`, `client.py`) | the identifiers of the token's user, cached | list, details, start, resolve; an image (not registered) | four requests with other users in between; lost answers and posts that arrive late; retries by the agent | only own issues are moved or shown; answers are true; a retry moves nothing twice |
| HTTP client (`http.py`) | none | `request_bytes`, `request_json` | a request may be carried out and still fail; which exceptions are wrapped | every failure is an `HttpRequestError` |
| remote_fs tools (`tools/remote_fs/service.py`) | none | describe, list_tree, grep, read_file, search_file | files grow, are rotated, removed, replaced and closed to the server between two accesses; which of these become answers and which exceptions; asynchronous calls interleave at each await; limits and pages | pages make up the file or the listing; an answer that is not truncated is complete; line numbers are right |
| log_search tools (`tools/log_search/service.py`) | none | `list_log_files`, `search_log` | as above | as above |
| configuration (`config.py`) | none; reads `config.yaml` | `get_settings`, `validate_settings` | what YAML makes of a key that is absent, null, blank or of another type; sections of disabled plugins | validated settings suffice for the tools; disabled sections make no difference |
| check (`check.py`, `scripts/check.py`) | none | `make check` | one plugin's failure among several; the file changes between check and start | a configuration that passes starts; the report blames the right plugins |
| server start (`server.py` 87-190, `tools/__init__.py`) | the settings, the registered tools | `main`, `create_mcp`, command line | constructors that raise in seven files, one `except RuntimeError` | what is wrong is found before a tool is registered, and is told in a message, but for the exceptions of section 5 |
| tool wrapper and logger (`server.py` 61-84, `logger.py`) | level and directory; the context id | `info`, `error`, `_wrap_with_logging` | a disk that is full or gone; calls that interleave; cancellation; one call that stops the loop for all | the log changes no answer but where no directory can be made; no record is lost but behind a torn line; the records of a call tell what became of it; calls end |
| DingTalk tool (`tools/dingtalk.py`) | none | `dingtalk_send_markdown` | a message that is delivered and reported as not sent | ok means sent; "not sent" is wrong only if the webhook's answer was lost |
| read-only guard (`tools/database/security.py`) | none | `validate_query` | quoting and comments of two dialects | only read statements pass |
| `normalize.py`, `jira/inspect.py`, `scripts/` | none | conversions and reports | - | - |

How they interact: `main` reads the settings, configures the logger and calls the register
function of each enabled plugin, which builds one service object and hands FastMCP a closure
for each tool. From then on FastMCP calls the closures, each wrapped in the logging wrapper.
Synchronous tools (database, Jira, DingTalk, the listings) run to their end on the event loop;
the asynchronous ones (read_file, search_file, grep, search_log) interleave at each `await`.
Services of different plugins share nothing but the logger. The clients of the
database nevertheless take locks as if several threads called them, and `close()` is called by
`atexit` from whichever thread ends the process: the pool is modelled as the locks promise,
with any number of threads.

## 2. Modules

| Module | Models | Source |
|---|---|---|
| `DatabaseAccess` | what a pool promises: calls on one database are served one at a time, an operation runs once and may run once more (why it does is left to `DatabaseService`) | abstract |
| `ConnectionPool` | the pool, one action for each stretch of code that other threads cannot observe half-done | `mysql.py` 176-318, `sqlserver.py` 84-217 |
| `ConnectionPoolProofs` | proofs about it, and that it implements `DatabaseAccess` | |
| `DatabaseService` | one caller of the four tools over either client: validation, connection, statement, classification of the error, retry, answer | `service.py`, both clients |
| `DatabaseServiceProofs` | proofs about it | |
| `HttpExchange` | what one exchange can come to: not sent, carried out and answered, carried out and failed, given up on | `http.py` |
| `JiraTransition` | list, details, image, start and resolve on one issue, request by request, with other users and retries | `jira/service.py` 57-320, `client.py` |
| `JiraTransitionProofs` | proofs about it | |
| `TextLines` | lines as `splitlines` and as iteration over a file see them | `remote_fs/service.py` |
| `RemoteFile` | read_file with its pages, search_file and search_log on one path | `remote_fs/service.py` 143-181, 431-606, `log_search/service.py` 105-188 |
| `RemoteFileProofs` | proofs about it | |
| `ListTree` | list_tree page by page, list_log_files | `remote_fs/service.py` 119-141, 200-271, `log_search/service.py` 45-103 |
| `ListTreeProofs` | proofs about it | |
| `Grep` | the walk, the limits and the line-by-line reading of grep | `remote_fs/service.py` 277-425 |
| `GrepProofs` | proofs about it | |
| `Config` | get_settings and validate_settings as functions on a file | `config.py` |
| `Startup` | a check and a start of the server, side by side, on files that change | `check.py`, `server.py` 87-190 |
| `StartupProofs` | proofs about it | |
| `ToolServer` | calls of tools on one event loop, each in the logging wrapper; the logger and its disk; the DingTalk tool over `HttpExchange` | `server.py` 61-84, `logger.py` 181-211, `dingtalk.py` |
| `ToolServerProofs` | proofs about it | |

`MCx` instantiates `x` for TLC. Names of variables, steps and error types are those of the
code. Definitions called "Mutant" in a comment are plausible bugs; none is used by a
specification, and each makes a property of the run fail when it takes the place of the
definition below it. Variables marked "history" are not in the code: they record what
properties speak about.

### How the models correspond to the code

* **ConnectionPool.** `connections`, `operationLocks` are the two dicts, `enteredBy` the owner
  of `_connections_lock`, `heldBy` the owners of the operation locks. A thread is at a step
  `pc`; the outer and the inner `try` of `_run_with_cursor` are the attempts 1 and 2. The set
  of `Sessions` is the set of driver objects; a closed one may stand for a new one. The two
  clients differ in how an error is classified, which is the constants `HealthyErrors`,
  `BrokenErrors` and `ClosedErrors` (what a statement meets on a session that is well, dropped
  by the server, closed by another thread); with both classes in each set the run covers
  both clients. Two facts came out of it: the discard inside a forced reconnect
  (`force_new=True`) never finds a session (`IInv`), and nothing but `close()` ever closes a
  session in use.
* **DatabaseService.** A driver error is the set of things the client looks for in it.
  `client` chooses the classification; `odbcNamed` says that the driver's name is in every
  message. The codes 2006 and 4031 of MySQL are not among the client's connection
  codes, so a loss that is reported with them is a query error; the texts that come with them
  are what the client recognises. A statement is sent and its reply read in two steps, and the
  session may be lost between them (`cut`): then nobody can know whether the statement ran.
  Left out: a process without pymysql.
* **JiraTransition.** Each request is one action that either fails, or reads or changes the
  issue as it is at that moment. A post the tool gave up on is `inFlight` and may be
  carried out at any later moment. `userKnown` is the cached user. The workflow is a
  constant. A transition that leads from a status to itself may be posted again by a retry;
  the status does not change, and `AppliedOnce` speaks of changes. The JSON that Jira returns
  has the members the client expects. A list has an upper limit of 100 issues, so an issue that
  is not in it (`"unlisted"`) may still be open; an empty list (`"none_open"`) says that it is
  not. `jira_get_attachment_image` is commented out in `register.py`; its method is complete and
  is modelled. `seen` collects what was true of the issue at any moment of the call, and the
  properties compare the answer with that.
* **RemoteFile, ListTree, Grep.** Each access to the file system is a step; other programs act
  between any two. Texts are sequences over five characters: a match, another character, a
  newline, a form feed (which stands for every break that only `splitlines` knows) and a null
  byte. What the tools compute from one read is an operator.
  - Permissions. A path may be read, may not be read, or lies below a directory that may not be
    searched, where `exists`, `is_dir` and `stat` raise a `PermissionError` themselves
    (`Accesses`, `Places`, `Barred`; `Path` of Python 3.12, which the project requires, passes that
    error on). In `Grep` what the server may not read is `locked`; a directory that may be listed
    and not searched is one in which everything is locked. One that may be neither listed nor
    searched behaves as one of the two.
  - Links. In `ListTree` an entry may be a link whose target is missing (`Dangling`) or out of
    reach (`Barred`). `os.walk` does not follow links to directories, so the tree of `Grep` has none.
  - The second `is_dir()` of `_walk_tree` (line 267) and that of `_resolve_directory` belong to the
    step of the access before them. `ListTree` assumes that a write raises the modification time.
  - A path that `Path.resolve` itself refuses (a null character, a link to itself) is not among
    the arguments of the agent.
  - The expression of a grep is one character, so a match that a half-written line cuts in two is
    not represented; the line is.
* **Config, Startup.** A value of the file is one of a few classes, those the readers tell
  apart (`Values`). `Keys` gives the keys of each section in the order in which they are read, since the
  first reader that raises decides how reading ends. A process reads the file and the
  directories in one step. Exceptions are `"message"` (a RuntimeError, which `main` and
  `run_checks` catch) or `"traceback"`. `Raises` is what the constructors behind the tools
  demand, read from their files and not from the validation; errors of importing the plugins'
  modules (`server.py` 119) are not in it. A log directory that is a link to itself is a property
  of the file's value, as if the link were always there. The directory of `config.yaml` itself can be
  searched (`exists()` at `config.py` 150). A connectivity probe is a choice of its outcomes.
* **ToolServer.** `loop` is the call that runs on the event loop. A synchronous call takes it
  and gives it back when it returns; an asynchronous one also gives it back at each `Await`.
  Three kinds of tools are told apart: DingTalk, the tools that await, and a synchronous tool
  that may take any time (`database`). The Jira tools and the listings are
  like a database call that ends. A record is its call and its topic, and is one line. `written` has the
  records handed to the disk, `legible` those that a reader finds in a file or on stderr.
  `dir` is `"there"`, `"gone"` (`mkdir` makes it) or `"blocked"` (`mkdir` fails); `full` stands
  for everything that makes `open` or `write` raise an `OSError`. On a full disk a line may
  be cut short (`torn`). `odd_names` is a success whose file names are not UTF-8. Two
  things are assumed of the host: stderr always works, and nobody deletes the log directory
  once something has been written to it.

## 3. Runs

| Run | Instance | Shows |
|---|---|---|
| `pool_safety` | 3 threads, 2 databases, 5 sessions, 2 locks, symmetric | `ExclusiveSession`, `SessionsAccounted`, `OnlyCloseInterrupts`, `RetryOnNewSession`; the pool implements `DatabaseAccess` (`AccessSpec`) |
| `pool_liveness` | 2 threads, 2 databases, one of which never answers | `CallsReturn`: calls on the other database and `close()` return |
| `database` | 2 tables, each client, with and without the default driver's name; 79 040 states | `AnswerNamesTheFault`, `InternalErrorIsReal`, `SecondRunHasCause` |
| `jira_transition` | 4 statuses, 2 changes by others, 2 late posts, 2 retries | `OnlyOwnIssues`, `AnswerIsTrue` (of what is said and of what is shown), `AppliedOnce` |
| `remote_file` | limits of two lines and two matches, files of up to 7 characters, 2 characters written, 2 files one after the other, 1 change of permissions; 1 766 743 states | `PagesAreTheFile`, `AnswerWasTrue` (of answers and exceptions), `SearchIsRight` (complete, with the lines around each match) |
| `list_tree` | 3 names, one of which may be a link, pages of one entry, 3 changes of an entry or of the directory; 1 886 764 states | `PagesAreTheListing` (`SkipsAreDeletions`, `QuietListingIsSorted`), `FailureHasCause` |
| `grep` | 3 roots, two of them inside the first, 4 files, a limit of 3, 1 change of a text, a file or a permission, texts that end in half a line; 1 484 327 states | `GrepIsComplete`, `HitsAreRight` (`FirstMatchIsNear`, `ReadFileShows`, `CountIsRight`), `OneResultPerRoot` |
| `startup` | 92 files: every key of every section wrong in each way its reader tells apart, two faults at once, log directories that cannot be resolved, the file as a whole broken; roots that are there, missing or out of reach; 18 command lines; 1 change; 329 545 states | `PassedCheckStarts`, `FailsBeforeRegistering`, `RunningIsConfigured`, `DisabledIsIgnored`, `ReportIsRight`, `FailureIsMessage` |
| `tool_server` | 2 calls of any tools, levels info and error, every change of the disk at any moment | `AnswerIsTheTools`, `LostToTears`, `StoryIsTrue`, `SyncCallsAreWhole`, `DeliveryIsKnown`, and `CallsEnd` |
| `missing_table_query` | as `database`, MySQL | violates `QueryIsAnswered` |
| `rejected_query_sqlserver` | as `database`, SQL Server | violates `BadQueryIsQueryError` |
| `jira_timeout` | as `jira_transition` | violates `FailureIsAnswered` |

Why the bounds are enough. Pool: three threads are a caller with a stale session, one that
waits for its lock and one that closes; a second database is what an operation lock must not
block; with five sessions each thread can hold a session to close while every slot of the pool
is full. Jira: two changes by others are one that makes a check of the tool stale and
one that restores it; two late posts are one of this goal and one of the goal before. Files:
a limit is crossed as soon as there is one element more than the limit, and files are
long enough for three pages and for a match before, at and behind a page's edge; two
characters written are a half line and its end. list_tree: with a page of one entry every entry
is at an edge, and three changes are one that moves an entry and two that lose some. grep: the
limit is reached in the middle of a directory, at the end of one, and in the second and third root;
the file `py` is below two roots and `dep` in a directory that the walk of the first root ignores;
one change is a half line that is ended, a file made binary, removed, created, closed or opened
while any other file or this one is being read. startup: readers are applied key by key, so one fault at a time covers
them; two faults show that the report and the chain of `elif` treat them separately. tool_server:
interference is between two calls, and each call meets every change of the disk and the
directory between any two of its steps; once all calls have ended only `full` goes on changing.

Fairness is used in two runs. In `pool_liveness`, strong fairness of `Progress` says that a thread
that can again and again take a lock at last gets it: Python's locks give it to one of the
waiting threads, and a session is opened or refused within `connect_timeout`. Weak
fairness of statements is assumed for databases not in `Hung` only: the code sets no time
limit for a statement. So the run shows that one hung server does not take the others with it,
which needs the operation locks to be separate and `_connections_lock` to be
free during a statement. In `tool_server`, strong fairness of `Resume` and of the end of a
file tool says that the event loop takes up the tasks that are ready in turn and that such a
tool awaits a finite number of times (files have ends); they are enabled only while the loop
is free or the call has it, hence strong. Weak fairness of `Send` and `LeaveReported` is the
time limit of 10 s of the request and the wrapper that goes on. A database statement has no time
limit, so `CallsEnd` assumes instead that none holds the loop for ever: one that does
stops every other call, and the pool's separate locks do not help against it.

No deadlock: TLC checks it in every run.

## 4. Proofs

`ConnectionPoolProofs`, for any sets of threads, databases, sessions and locks, assuming only
that `None` is none of these and that errors have one of the two classes:
`Spec => []IInv`, and from it type correctness, `ExclusiveSession`, `SessionsAccounted`,
`RetryOnNewSession`, `OnlyCloseInterrupts` and `Spec => AccessSpec`. The invariant has two
parts. `LockInv`: who is inside `_connections_lock` owns it, and a thread past `acquire` holds
the operation lock that the dict has for its database; hence at most one thread serves a
database. `SessionInv`: every open session is in one slot or in one thread's hands, and a
thread that executes does so on the session of its database's slot unless `close()` has taken
it. Neither holds without the other's help: exclusiveness needs the lock, and
the pool's books are kept only if nobody else touches the slot of a database that is being served.

`JiraTransitionProofs`, for any workflow in which an id names one destination
(`WorkflowAssumption`; Jira's transition ids are of this kind): type correctness,
`OnlyOwnIssues`, `AnswerIsTrue`, `AppliedOnce`. The properties are about
the moment a post is carried out or an answer given, and what makes them true was settled
requests earlier; `StepFitsGoal`, `CurrentSeen`, `ReadSeen`, `PostIsOwn`, `PostReaches` and
`MovedToTarget` carry it along.

`StartupProofs`, for any set of files whose `plugins.enabled` is a list of names and whose
values are of the kinds that `Config` tells apart (`FilesAssumption`): type correctness,
`PassedCheckStarts`, `FailsBeforeRegistering`, `RunningIsConfigured`, `DisabledIsIgnored`,
`ReportIsRight` and `FailureIsMessage`.
`Validated` says what a result of `get_settings` is worth, `NothingRaises` that it is worth
enough for the constructors, `NothingNeededIsMissing` for the tools, `DisabledIsNotRead` what it
does not depend on, and `IInv` that both processes act on such results only. `ReportInv` says
that the plugins in the report and those still to be probed are together the enabled ones,
`FailInv` that a traceback was one while the file was read or one of the log directory, and
`OnlyInfinityEscapes` which values of a section can be its cause (`Escapes`: an infinite number, and
roots that may not be looked at). `LogDirRefused` is an exception of three theorems: no validation
looks at the log directory, and `log_search/service.py` 28 resolves it when other tools have
already been registered. `TypeInv` needs `Validated` too: a report has lines for
known plugins only because `get_settings` lets no other name through.

`DatabaseServiceProofs`, for any clients and tables: type correctness, `AnswerNamesTheFault`,
`InternalErrorIsReal`, `SecondRunHasCause`. An answer comes at the end of a path through the
pool, the driver's error, its class and one reconnect. `RestInv` says which session the call
is on at each stage when nothing has changed since it began (the one it found, or one it opened
itself); `SentInv` where the reply to a statement comes from: the session was found stale, or the
server has answered, and then an error that speaks of the connection has the driver's name in it;
`LossInv` that a session found dead after the reconnect died during the call; `RunInv` that a
statement the server has had once and is about to get again was cut off from its reply, or is a
query that the driver's name spoils.
`ErrorsOfALiveSession` is the lemma on the driver, `SessionInv` what it needs: a live session of
SQL Server has its database.

`RemoteFileProofs`, for any limits, texts, arguments and number of changes: type correctness,
`AnswerWasTrue`, `PagesAreTheFile` and `SearchIsRight`. `SeenInv` says that the history `seen`
keeps up with what each access could find, permissions included. The pages make up a file that is only appended to
because each but the last ends with a line that had ended (`PagesInv`), and such a line stays
the line it is, at the number it has (`LinesStay`; lines are defined by the breaks counted
before them, so this is a fact about cardinalities and needs no induction on texts). A search is
a loop over the lines, written as a function on the number of lines looked at; `LoopSteps`
derives from its definition what one round does, and `ScanInv` holds after each: the matches
kept are matches, each once with the lines around it, and one is missing only behind the limit.

`ListTreeProofs`, for any finite directory, page size and number of changes: type correctness,
`FailureHasCause` and `PagesAreTheListing`. For the first, `VisitInv` keeps the history `met` up with
what the next access may find. An entry's place in the sorted listing is the number
of entries before it (`Rank`); `RanksAreOrder`, `SortedByRank` and `FirstAreCounted` say that this
sorts, and `PageIsThere` that a page is the entries at the ranks after the offset. What falls
between two pages is an entry that moved in front of the offset, and offsets say nothing about
which: the proof needs a ledger (`SkipInv`) of the entries `F` in front of the offset when the
last page was made, those of them deleted since (`C`), those deleted after this call had looked
at them (`D`), and those already lost (`L`). An entry of `F` that was not deleted is
still in front of every untouched entry behind it, since a write only moves it forward; so a lost
entry has taken the place of one in `C` (`Counted`), and `L`, `C` and `D` together never outnumber
the deletions. `QuietInv` is the other half: while nobody changes anything, what the agent has got is
the first part of one and the same listing (`GotIsFirst`).

`GrepProofs`, for any set of directories, any roots (at least one, nested or not), files, texts,
writes and changes of permissions: type correctness, `GrepIsComplete` and `HitsAreRight`, and
`OneResultPerRoot` if the directories are a tree (`IsTree`; os.walk follows no links). The tree
below a directory is defined as the least set closed under "is in", which needs no recursion;
`ChildrenApart` says that directories side by side have nothing below them in common. `WalkInv` says
that the trees still ahead of the walk of one root are apart from each other and from every file
taken so far. `CompleteInv`: a file that is due (it matched when the search began and does, was not
removed, and could be read all the time) is `ToCome` until it has its result, in hand, with its
match ahead of the reader, or below a directory still to be listed. `RightInv`: the counters are those
of the lines begun so far and of the parts of lines that were read by themselves (`ReadingInv`), and
a file that is only appended to keeps the breaks it had (`GrownInv`), so a result stays as near the
truth as it was. `OnTrack`: the walk takes nothing that a search from its root leaves out.

`ToolServerProofs`, for any number of calls: type correctness, `DeliveryIsKnown`,
`AnswerIsTheTools`, `SyncCallsAreWhole`, `LostToTears` and `StoryIsTrue`. `LoopInv` ties the loop to
the call that is inside its tool; `OrderInv` says that the records of a synchronous call that has
the loop are the last of the log, which is why none of another call can come between; `DiskInv`
that whatever makes the logger raise was seen by `noDir`, or is an answer with names that cannot
be encoded. `TearInv` counts a torn line together with the records lost so far: each tear is paid
once, whether it has already cost a record or still may. `StoryInv` says at each stage of a call
which part of its story is in the log, at ascending places among the records of other calls, so
that a record that is added is the last of its call's.

Only model-checked: liveness (`CallsReturn`, `CallsEnd`), which is beyond the prover. Every other
property of a run is a theorem. What the theorems leave open is the fit of the operators to
what Python computes, which no proof can give.

## 5. What the code does that its documents do not say

Found while modelling, and shown by a run:

* A query of a table that does not exist leaves `db_execute_query` as an exception:
  `execute_query` does not catch `TableNotFoundError` (`service.py` 142).
* "odbc driver" counts as a sign of a lost connection, and is in every message of the
  default driver: a statement SQL Server rejects is run twice and becomes an internal
  error (`sqlserver.py` 72).
* A time-out after the request was sent is a bare `OSError`, which no tool catches
  (`http.py` 68).

Not shown by a run of their own:

* A transition that succeeded but whose answer was lost is retried, as the hint says, and the
  retry answers that the change could not be completed (`jira/service.py` 279, `strings.py` 31).
* When the log directory cannot be made, the logger's exception takes the place of an answer
  (`logger.py` 191), and so does a `UnicodeEncodeError` for a file name that is not UTF-8
  (`logger.py` 206). Both are exceptions in `AnswerIsTheTools`.
* A line torn by a full disk swallows the next record of its file, and no more (`LostToTears`).
* Nothing sets the context id of the log, so the records of two asynchronous calls to one tool
  cannot be told apart; those of a synchronous call stand together (`SyncCallsAreWhole`).
* DingTalk's "could not be sent" is also said of a message that was sent if the webhook's answer
  was lost (`DeliveryIsKnown`).
* `remote_grep` numbers lines by newlines, `remote_read_file` by `splitlines`: in a file with a
  form feed, a vertical tab, NEL or a Unicode separator the line numbers differ
  (`ReadFileShows` says up to where they agree).
* These end in a traceback instead of a message (the exceptions in `FailureIsMessage`): a
  `config.yaml` that is not UTF-8 or has a scalar that PyYAML recognises and cannot construct, like
  the date 2024-02-30 (`config.py` 126), a number `.inf` (141), a root below a directory that may not
  be searched (`resolved.exists()`, 268), and a log directory with a null character
  (`log_search/service.py` 28).
* The log directory is resolved by a constructor and checked by nobody: one that is a link to itself,
  or has a null character, passes `make check` and fails the start after other tools have been
  registered (the exceptions in `PassedCheckStarts` and `FailsBeforeRegistering`).
* A file that the server may not read is answered by an exception: `_is_binary` takes it for text
  (`remote_fs/service.py` 66), and the open of read_file, search_file and search_log raises the
  `PermissionError` (452, 548; `log_search/service.py` 154), although the comment at 438 and 531 calls
  the file verified as "readable text". Below a directory that may not be searched `exists()`
  raises it already. The same open raises for a path that has gone or become a directory
  since the checks.
* `logging: {dir: }` makes the directory `None`, since the null goes through `str()`.
* A probe that raises anything but RuntimeError ends `make check` without a report.
* With one root inside another, which the settings accept, a file has a result in a grep for each
  root above it, and they share the limit (`OneResultPerRoot`); "one result per matched file"
  (`strings.py` 42) holds for roots that lie apart.
* A half-written last line that grep reads is counted again when the rest is there: the line numbers
  behind it are too high by one, and so may the count be (`halves` in `HitsAreRight`).
* grep passes over files and directories that it may not read without a word, also when the answer
  is not truncated (`remote_fs/service.py` 364, 422; `Open` in `GrepIsComplete`).
* An entry deleted between two pages of list_tree moves the entries behind it forward, past the
  offset: each deletion can cost one entry (`SkipsAreDeletions`), while the last page says
  that the listing is complete. A directory that cannot be read is listed as empty and complete.
* `list_log_files` looks at each entry without a guard (`log_search/service.py` 82): one that has just
  been removed, a link to nothing, or an entry that is out of reach ends the call with an exception,
  and so does a directory that it may not read.
* `list_tree` guards `stat()` of an entry and not the `is_dir()` before it (259): in a directory that
  may be read and not searched, or for a link into one, it ends in a `PermissionError`. Both
  tools fail when the directory itself goes between two accesses (`FailureHasCause` has the list).

## 6. Plan

The modules of the plan are written, and every safety property of the runs is proved. Left for
later: a pool whose database is dropped under its session and a loss that pymysql reports with
another code, and a statement that holds the loop for ever, which are hazards without a property;
the two disagreements of documents and code that have no run of their own (a file that is not
readable and was verified, a result for each of two nested roots); a grep for matches longer than
one character.

## 7. Not modelled

* `tools/database/security.py`: a pure function on the characters of a query. The system
  uses its verdict and nothing else of it, and the verdict is an input of `DatabaseService`.
* `DatabaseService` composed with `ConnectionPool`: the tools are synchronous, so the server
  never has two of them in the clients at once (`ToolServer`); `DatabaseService` has the one
  caller, `ConnectionPool` what the locks promise to more.
* The rows of a query and whether they are truncated, `normalize.py`, the wording of messages,
  hints and error summaries (`error_messages.py`): formatting of data that no step depends on.
* Path resolution and pattern matching (`path_guard.py`, globs, expressions): their outcomes are
  inputs of the models.
* The redirect of a POST into a GET by urllib, in `HttpExchange`: a 2xx answer counts as carried out.
* The record of the log (shortened strings, exception chains, caller) and the signature in
  DingTalk's URL.
* `tools/jira/inspect.py` and `scripts/preview_tool.py`: reports that keep and change nothing.
