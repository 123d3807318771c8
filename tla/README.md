# Verification of p2pbackup

TLA+ models of p2pbackup, a peer-to-peer backup program in C++ (`src/src`): a
*tracker* that keeps the metadata of all peers, and a *client* that runs on
every peer. The modules follow the code; the comments in them name the functions they
translate and `PROJECT.json` maps each definition to its lines.

## 1. The system

| Part | Source | State | Operations |
|---|---|---|---|
| Thread pool | `core/Dispatcher`, `Worker`, `Job` | `pendingJobs_`, `stopped_`, a mutex, a condition variable, threads | `scheduleJob`, `doJob`, `stop` |
| Metadata record | `metadata/MetadataRecord` | address, blacklisters, list of replicas per backed-up file, stored files | add/update/remove, `serialize`, `unserialize`, totals |
| Tracker database | `tracker/server/TrackerDatabase` | `records_`, `sortedIDs_`, a mutex | `join`, `findClosest`, `getRecord`, `blacklistNode`, `backupFile`, `updateFileSize`, `removeBackup` |
| Tracker connections | `tracker/server/TrackerSocketConnection`, `TrackerProtocol`, `Tracker` | one socket per connection, run by the pool | receive one request, one handler, one reply |
| Tracker client | `tracker/client/TrackerInterface`, `metadata/MetadataInterface.h` | none | one command per call: connect, send, receive |
| Accept loop | `core/NetworkController` | acceptor, `stopped_` | `start`, `connectionHandler`, `stop` |
| Console, controllers | `core/ConsoleController`, `BTSyncController`, `MetadataController`, `Controller` | threads, `shouldStop_` | start all, stop all, poll |
| Peer connections | `core/PeerSocketConnection` | one socket | ping, or receive a secret and register it |
| Local backup info | `metadata/LocalBackupInfo` | a JSON value and a file | dump, read |
| BTSync client | `btsync/BTSyncInterface` | none | HTTP requests to a daemon |

`peer::Peer`, which connects the parts of the client, is used by the code and is
not in the repository. There are no tests; what the code should do is taken from
the comments in the headers and from `paper/paper.tex`.

**Interaction.** A peer calls `TrackerInterface`, which opens a TCP connection for
each call. In the tracker `NetworkController` accepts it and schedules a job in a
`Dispatcher` with 20 threads. The job reads the request, calls one method of the
database under its mutex, and writes the reply. `get` is the exception: it takes
a reference to a record under the mutex and serializes it without. The client
program runs the same accept loop and pool (with 10 threads and another handler)
next to two polling controllers and the console, which starts and ends them all.

**What is hard in it.** Notifications sent outside the mutex; draining and joining
on stop; reads without a timeout that hold pool threads; a handler that ignores a
failed receive; exceptions and arithmetic that end the process; an accept loop that is
stopped from another thread; destruction while handlers still run; two records that
must agree although each operation updates one after the other; a loop that erases
from the map it walks; replies that are lost after the command took effect; a
tracker that forgets everything when it restarts; a file that is emptied before it is
written again; requests to a daemon that may fail after they were carried out. `PROJECT.json` lists these hazards
line by line with the properties that watch them.

**What makes each part correct.** The pool runs every job it accepted, once, in order,
and `stop` returns after all of them. In the database a node that an owner counts on
must be known and obliged to store the file, nothing may be stored that nobody claims,
and whatever `findClosest` answers must have a record. Through `get` a peer must learn
all its replicas and stored files. A call takes effect at most once and its result is true. The client serves the
connections it accepted, exits when it is told to, and leaves no thread behind. What a
peer dumped of its backups it must find again. A request to the BTSync daemon must ask
what the caller said, once, and its result must be the answer to it.

## 2. Modules

    JobService         what the pool promises           (abstract)
    Dispatcher         the pool                         implements JobService
    Dispatcher_proofs  its theorems
    MetadataRecord     the operations on one record     (operators)
    MetadataCodec      serialize, unserialize           (operators)
    TrackerDatabase    the database                     EXTENDS MetadataRecord
    TrackerRecords_proofs   lemmas on records and databases
    TrackerDatabase_proofs  its theorems
    PeerView           the database seen through get    EXTENDS TrackerDatabase, MetadataCodec
    PeerView_proofs    its theorems, for the database and for TrackerServer
    MetadataCommands   the commands of TrackerInterface EXTENDS TrackerDatabase
    MetadataService    what the calls promise           (abstract)
    TrackerServer      callers, sockets, pool threads, handlers, database
                                                        implements MetadataService
    TrackerServer_proofs    its theorems
    PeerConnection     the handler for other peers and the other side of a connection
    ClientLifecycle    the client process               EXTENDS PeerConnection,
                                                        INSTANCE JobService
    ClientLifecycle_proofs  its theorems
    LocalBackupInfo    the peer's own backup information and its file
    LocalBackupInfo_proofs  its theorems
    Arguments          named arguments                  (operators)
    SyncService        what the calls of the BTSync daemon promise  (abstract)
    BTSyncInterface    the methods, their URLs, request_  implements SyncService
    BTSyncInterface_proofs  its theorems
    MC...              instances for TLC

Definitions under a comment that starts with "Mutant:" are not part of a model. Each is
a plausible mistake in the definition below it, and shows that a property can fail.

### Dispatcher

One critical section is one step; the notification after it is another. `wstate` is
where a worker is in `doJob`: "ready" (about to take the mutex), "waiting" (asleep on
the condition variable), "running" (in `func`), "exited". `notifying` holds the callers
between `unlock` and `notify_one`. Releasing the mutex and falling asleep is one step,
as for `std::condition_variable::wait`; a sleeper may wake spuriously. A job may throw,
which ends the process since nothing catches it, or block for ever, as a read on a
socket does. `submitted`, `taken`, `finished` and `late` are history.

### MetadataRecord, TrackerDatabase

A `std::map` is a function on the set of its keys. A list of replicas is a function from
slots, since the order of a list is never read and equal entries do occur twice.
`operator[]`, which inserts, is modelled as such: `updateFileSize` reaches the replica
nodes through it. Each method has an operator `Db...` that gives the new records,
and one, `Db...Result`, that gives the answer; the actions and `TrackerServer` use both.
Each action of the database is a whole method, which the mutex makes atomic.

The file IDs are random secrets of their owner (`paper.tex:313`, `407`), so a file has one
owner and commands on it name that owner. Timestamps of files are never read and left out.
`findClosest` answers any entry (`rand()`), or kills the process when there is none.
Erasing inside the range-for of `serialize` is undefined; `WalkOutcome` allows the loop
to reach everything, to stop after an erasure, or the process to die. Dying loses all
records (`Restart`).

### MetadataCodec, PeerView

`Serialize` and `Unserialize` keep the structure of the JSON, with the names at their
nesting level, and nothing of its text. `View(n, visited)` is the record that
`TrackerInterface::get` fills for node n, in any state of the database.

### MetadataCommands, MetadataService, TrackerServer

`MetadataService` says what a call is: invoked, it takes effect in one step or never;
it returns the result of that step, or it throws, in which case its command may have
taken effect, or not, or may still do so. Nothing else changes the database, except
that outdated blacklisters go, that a lost command may make the *empty* node ID join,
and that the tracker may die.

`TrackerServer` has one connection per call. `client` is the caller in `executeCommand`,
`job` the tracker's side, `sent` the requests that have arrived, `queue` the jobs of the
pool. A connection may break at any time (`Break`: the caller throws, the tracker's read
or write fails) or fall silent (`GoSilent`: neither side notices, the thread waits for
ever). A read that fails is handled as the code does it: the empty JSON value
carries command 0, which is a join with the empty ID (`JoinEmptyID`), or
`remote_endpoint` throws and the process dies (`CrashInJoin`). While a record is being
serialized, a handler that writes it races with the reader; the outcomes are that both
go through, or that the process dies (`CrashInRace`). The contents of a torn reply are not
modelled. The pool appears as its queue and a bound on busy threads, which
is what `JobService` leaves of `Dispatcher`; accepting is merged with connecting, because
the kernel's backlog and the queue are both served in order.

### PeerConnection, ClientLifecycle

`PeerConnection` has one action per read, write and call of `handlePeerSocketConnection`,
and the other side, which sends a type and a secret, closes, or is silent. The handler
goes on after its `catch`, so a failed read ends in `storeFile` of `Garbage`. `storeFile` may
refuse a secret, which the handler prints and tells nobody: `StoreFile` adds it to `registered`
or to `refused`.

`ClientLifecycle` has the main thread as `main`, a program counter over
`ConsoleController::start`, `stopAllAsync` and the destructors that follow
(`asyncControllers_` goes before the reference to the pool that the base class holds);
the accept loop as `net`; the polling loops as `poll`. The pool is `JobService`, which `Dispatcher`
is proved to implement, with a bound on the jobs that run at once. Closing the acceptor and
setting `stopped_` are two steps, as in `NetworkController::stop`, and the accept
loop may be anywhere between them. A round of a polling loop is calls of `peer::Peer` and a
sleep: it changes no state of the model. `Crash` has the ways in which the process can
die, and clears the state. One of them, `CrashInSocket`, is undefined behaviour: a handler
uses a socket after `DestroyControllers` has destroyed its `io_service`. Handlers do outlive it,
while the main thread is in `~Dispatcher` and at no other time (`NothingAfterMain`). At the end of
standard input the prompt comes again and again, which is a user who never types `exit`.
The `main` of `btbackup.cpp` is the first and the last value of `main`; that of
`bttracker.cpp` is `Restart` of `TrackerDatabase`.

### LocalBackupInfo

`data` is `data_`, a function from file IDs to values; `operator[]` inserts a null for a
key it does not find. It starts empty or with given data, one state for each constructor. A file is the set of pieces of the text that have reached it: the
opening brace and two pieces of every entry, in the order of the keys, in which jsoncpp
writes them. `dumpToDisk` empties the file when it opens it (`OpenDump`), the pieces reach the
file one by one (`Flush`), the disk may be full (`WriteFails`), and the result is `true` in
any case (`DumpReturns`). Either file stream may fail to open, whatever is on the disk; the call
then returns `false` and leaves file and `data` alone (`CannotOpenDump`, `ReadFrom`). The client may die between any two of these. `Parse` is the
reader of jsoncpp on what is there: it starts an object afresh at the brace and keeps what it
has when the text ends; that it fails then is ignored by `readFromDisk`. An I/O error in the middle of
reading an open file is not modelled. `dumped`, `kept` and
`intact` are history.

### SyncService, BTSyncInterface

A call in `BTSyncInterface` is what the caller asks, in the words of the header, and the URL that
the method makes of it. Every method is an operator. Overloads are resolved as C++ does: a string
literal would rather become a `bool` than a `std::string`, so `SecretKinds` names the kinds for
which an overload takes a secret. The daemon, which is not in the repository, reads the URL
back (`Read`) and does what it says; `SyncService` has it do what was asked.

Nothing in a URL is escaped, and a URL has no types. Whether one can carry a call is `Clear`: no
argument is in `Reserved` (texts with a space, `&`, `#`, or a comma in a list of hosts), a setting has the
type its name stands for, and none is called `secret` or `method`. Any other call is `Garbled`: the
daemon may take it for any of `Misread`. The
refinement says of clear calls that the translation loses nothing, and of every call that `request_` with
its threads, failures and lost replies has it take effect at most once and return the answer to what the
daemon took it for. The `false` of a failed get throws in all three setters; an object without `hosts`
clears the hosts. Several threads may be in a request at once; as each of them
initializes libcurl and cleans up after itself, the process may then die (`CrashInCurl`).
`AllCalls` are all calls there are with the arguments that the constants name; `Calls`, the ones a run makes,
are some of them.

## 3. Runs

All pass unless marked; sizes are distinct states.

| Run | Question | States |
|---|---|---|
| `pool` | Is a wakeup or a job lost, or run out of order? Is every accepted job taken, when fewer jobs than threads block? Does `stop` return too early, or never? Refinement of `JobService`. | 81 000 |
| `db_replicas` | Do owner lists, stored files and the index agree? Does `get` deliver all replicas, stored files and current complaints? Does a complaint survive its week? | 130 000 |
| `db_deletion` | violation, see below | |
| `view_stored` | violation | |
| `server_calls` | All commands, under failures, with reads outside the mutex: refinement of `MetadataService`, consistency of the database. | 437 000 |
| `server_return` | Does every call return or throw? | 73 000 |
| `server_closest` | violation | |
| `client_exit` | Does `exit` end every thread, in time for the destructors, and lose no accepted connection? Does every acknowledged secret reach `storeFile`? | 289 000 |
| `client_secret` | violation | |
| `info` | Is a complete dump read back as it was, and a broken one as its beginning? | 194 000 |
| `info_torn` | violation | |
| `btsync` | Does a call whose arguments a URL can carry ask what they say, any call at most once, and return its own answer? Refinement of `SyncService`. | 202 000 |

**Bounds.** Three workers, two callers and three jobs allow a worker asleep, one about to
sleep and one busy (or blocked for ever) while two notifications are under way, and a job
pushed after the stop. Two nodes, each owner of a file and possible replica of the other's (and of its own)
give every relation a pair of records can have; three list entries on two nodes are not
needed since the operations treat entries alike, two on one node are needed and there.
There is one blacklister, so a walk over blacklisters that stops half way is covered by the proofs alone:
with two the run does not end in minutes.
A clock of two units against an age of one lets a complaint be renewed while it counts,
expire, be pruned and be made again. Four calls are enough to join two nodes, back up, and
repeat, undo or read it; two connections to interleave any two of them. Three connections with two threads and
one silent connection leave a caller queued behind a caller. In the client two connections,
one silent, and two threads let one connection be handled, queued or refused in every
phase of the exit while the other holds a thread. Two files
with values that differ from dump to dump let a text be cut off before, in and between
entries. Two threads and three calls at the daemon let two overlap and a third meet what they
left; the queries that are not
among the calls pass nothing or a secret, as `getFolders` does. One path is reserved, and a call with it is read as malformed or as another folder under another secret.
`MaxEntries`, `MaxJoins`,
`MaxCalls`, `MaxCuts` and `MaxTime` are the bounds in the guards; they limit what the environment
does, and the code has no such limits. Connections
to the tracker are symmetric where only safety is checked.

**Fairness.** `Dispatcher`: a worker that can proceed does, except in a job that blocks; a
caller sends the notification it owes; `stop`, once called, runs. Nobody must schedule a
job or call `stop`. `TrackerServer`: threads run, callers send their request and notice a
connection that was closed, as TCP reports it. Nobody must call, and a dead tracker may
stay dead. `ClientLifecycle`: threads run, calls of `Peer` return, and another side that is
not in `Silent` sends or closes sooner or later; nobody must connect or type a command.
`StopReturns` and `ExitReturns` leave out the case that a thread is held for ever.
`JobsServed`, `AcceptedIsServed` and `CallsReturn` assume that fewer jobs or connections block
than there are threads, which the configuration states; with as many, they fail, since
nothing in the code has a timeout. The runs of `LocalBackupInfo` and `BTSyncInterface` check
safety only: nobody must call, and neither a daemon that says nothing nor the code
promises an end.

**What the properties tolerate.** `MetadataService` and `SyncService` allow the process to die at any
time, `JobService` while a job that may throw is running, and `SyncService` also allows any call to be rejected. So the refinements say nothing against the crashes the code has (an exception in a job or
in `remote_endpoint`, `rand() % 0`, the race on a record, libcurl in two threads). These are `ThrowJob` and the actions named
`CrashIn...`; what is shown is only that the calls caught in them return nothing false. A process that has died also satisfies `ExitReturns` and
`AcceptedIsServed`. `OneFolderPerCall` counts calls of all kinds, so it bounds the folders of a
sequence in which every call adds one. `AckedIsHandedOver` lets `storeFile` refuse.

**Violations.** Each is a statement of a header or a comment that the code does not
meet; `findings` in `PROJECT.json` has the lines.

- `DeletionReachesReplicas`: `updateFileSize(f, 0)` empties the list before it walks it, so no replica node is told.
- `StoredFilesSurvive`: owner and size of stored files are written in one place and read from another.
- `ClosestIsInNetwork`: a connection without a request makes the empty ID a member.
- `RegisteredWasReceived`: after a failed read the handler registers an uninitialised buffer.
- `AllFilesAreKnown`: a dump that is cut short replaces the last complete one, and reading it succeeds with files missing.

Seen while translating, each visible in one line, and so without a run of its own:

- `removeBackup` returns `false` for a file that was backed up twice on the node, although
  it removes it (`RemoveBackupResult`; `MetadataRecord.h:70-71` promises `true`).
- `join` leaves the address of a node that joins again as it was (`DbJoin`; the paper calls
  the field the most recent address, `paper.tex:321`).
- `getTotalBackupSize` adds the numbers of replicas and not the sizes, and
  `getNumberStoredFiles` counts blacklisters (`MetadataRecord.h:54`, `:57`); not modelled.
- After it has erased an entry the loop over the blacklisters may stop and leave out the
  others (`WalkOutcome`; `MetadataRecord.h:119` says they are kept for a week).
- `backup` and `rm` without a name read behind the end of a vector (`CrashInUsage`).
- `dumpToDisk` returns `true` when the disk is full (`DumpReturns`).
- An answer of the daemon that is an error object is returned as it is, although
  `BTSyncInterface.h:11` says that errors return `false`; fed into `setFolderHosts` it clears the
  hosts. The `false` itself makes all three setters throw (`Throws`).
- The other peer is acknowledged before `storeFile` is asked, and a refusal is only printed (`StoreFile`).
- `BTSyncInterface` sends integers of type `int` through `asInt` and everything else through `asString`, and
  escapes nothing (`JsonValueToString`, `Clear`).

## 4. Proofs

TLAPS proves for every value of the constants, under the assumptions stated in the modules:

*Dispatcher* (`PoolAssumption`: finite non-empty sets of threads, named subsets of jobs).
The invariant `IInv` joins the types with the facts that tie a worker's state to the job
it holds, the queue to the histories, and the stopping thread to `stopped`. It gives
`TypeOK`, `NoSleeperAfterStop` and `DrainedAtStop`. `WakeupPerJob` needs it because counting
notifications against sleeping workers is inductive only with the callers in
`notifying` and the workers awake as two disjoint finite sets. `QueueOrder` follows
step by step. `Refinement` maps every step to a step of `JobService` or a stutter.

*TrackerDatabase* (`DatabaseAssumption`). `NoDanglingReplica` is not inductive: a removal
erases a stored file, and that is safe only if no *other* owner lists it. The invariant
therefore states that a list contains files of its owner only (`OwnLists`), that a stored
file is held for its owner (`StoredForOwner`), and that every replica is stored
(`ReplicasStored`). The lemmas behind it are in `TrackerRecords_proofs`: a layer for records (what
each operation does to the *set* of replicas of a file), one for databases (`BackedUp`, `Removed`,
`Updated`), and one that shows that the two directions are kept. They are stated for any set of
slots and for node IDs that include the empty one, since the tracker with its callers needs both.
`StoredClaimed` adds `Claimed`, and
assumes that no file is deleted: with deletions it is false (`DeletionReachesReplicas`).
`ComplaintsKept` (the property `KeepBlacklistersOneWeek`) follows step by step: no operation on files
touches the blacklisters, a complaint that is repeated is not renewed, and `Get` erases
only what is older than `PruneAge`, however far its walk comes.

*TrackerServer* (`ServerAssumption`, `CommandsAssumption`). `ServerInv` joins what the database needs
(`DataOK`) with the queue, which holds each queued connection once (`QueueOK`), the calls and
handlers, which must agree on how far a request has come (`CallOK`), the bound of the pool
(`PoolOK`), and two facts about the process: a dead tracker works on nothing, and the record
a handler reads outside the mutex exists (`ReferenceIsValid`, the theorem
`NoDanglingReference`: it holds only because no operation erases a record and a crash ends the
handlers with the records). `ServerTypeCorrect`, `ServerIndexAgrees` and `ServerNoDangling` follow.
`ServerImplementsService` maps a call to its phase and its outcome: it is *open* while its
command may still take effect, and has its outcome when the handler has left the mutex, long before the
caller learns it. One lemma per group of steps shows that callers, handlers and the end
of a handler are steps of `MetadataService` or stutter; reads that fail (`JoinEmptyID`) and
walks outside the mutex (`SerializeReply`) map to the two things the service allows besides calls.
The records change only by the operations in `Effect` (in `TrackerRecords_proofs`) or by a restart, which
`ServerEffect` shows for every step of the tracker. So `ServerComplaintsKept` and `ServerStoredClaimed`
carry over what holds of the database alone: no overlap of calls and no late or repeated command adds
a way to lose a complaint early, or, again if no file is deleted, to store a file nobody claims.

*PeerView*. What `get` delivers is a statement about the codec: for every well-formed
record, serializing, walking and unserializing keeps each list of replicas with its sizes, the
stored files, and the complaints that are not outdated. `RecoveryInfo`, `StoredIDs` and
`CurrentComplaints` apply it to the states of the database, `ServerViews` to those of the tracker
that serves many peers, where records are also pruned outside the mutex.

*BTSyncInterface* (`ArgumentsAssumption`, `CallsAssumption`). `ReadsAsAsked` says of every call in
`AllCalls` that is `Clear`, one lemma per method, that the daemon reads in the URL what was asked: flags, settings with
their types, and lists of hosts of any length (`SplitCsv`). With it, and `Heard` for the others,
`InterfaceImplementsSyncService` maps every step of requests, replies, failures and crashes to
a step of `SyncService`. `OneFolderPerCall` is not inductive: the next folder may be made by a request that
is still on its way. `FolderInv` counts these with the folders; a request leaves `sent` in the
step that handles it, and none is made again.

*LocalBackupInfo* (`InfoAssumption`: file IDs are ordered). The invariant says that the file
always holds a *beginning* of the text of the last dump (`StartOf`), with the rest still
pending while it is being written, and all of it if the dump was written to its end. The lemma
`ParseStart` says what reading a beginning gives, `RoundTrip` what reading all of it gives.
`StartOfDumpRead` and `LastDumpRead` follow for every step that reads; the latter for reads that report
`true`, while one that reports `false` leaves the data as they were.

*ClientLifecycle* (`ConnectionAssumption`, `PoolSizeAssumption`). None of the three invariants is
inductive. `ThreadsInv` ties the place of the main thread to the threads that may run:
none before it starts them, and none that it has joined. `PoolInv` ties the phase
of the pool to that place, and with it every submitted connection to those that `stop` owes: a
connection can be submitted only while the accept loop runs, so none comes after
the pool is closing. `HandlersInv` says that a handler which has acknowledged is about to hand its
secret to `storeFile` or has done so (`AckedReachesStoreFile`). `NoThreadIsLeft` is about the accept loop, the
pollers and the end of `main`, with the bound on handlers without an `io_service` said above. Together they hold in every step, one lemma for each group of threads.

Only model-checked: liveness (`JobsServed`, `StopReturns`, `CallsReturn`, `ExitReturns`,
`AcceptedIsServed`), which rests on fairness and is out of this prover's reach. Every other property
of a passing run is a theorem. The violations are counterexamples of small instances.

## 5. Plan

Done: the modules above and the theorems of all their safety properties; for the tracker they hold of
the database alone and of the tracker with its callers. Next:

1. The safety half of the liveness properties, as theorems: what a waiting caller or a queued job
   waits for.
2. Shorter models, where a module says the same thing at two places.

Not modelled: `peer::Peer` (not in the repository), the BTSync daemon beyond what the client asks of
it, and `experiments`. The rounds of the polling loops, and so how long a stop may have to wait
for them, depend on `Peer` and are represented by the fairness that its calls return.
