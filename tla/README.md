# A TLA+ model of Buxton

Buxton is a configuration service: a daemon, `buxtond`, keeps typed values under
`layer / group / name`, checks Smack labels on every access, and tells clients that
registered for a key when its value changes. Clients speak to it over a stream socket
through `libbuxton`, through the blocking calls of `libbuxtonsimple`, or with the tool
`buxtonctl`. This directory models all of these, checks the models with TLC and proves,
with TLAPS, every safety property of every one of them, the conversions of messages and
records included; liveness is model-checked only.
Paths below are relative to the root of the repository.

## The system

| Component | State | Operations | Modules |
|---|---|---|---|
| Direct store operations (`src/shared/direct.c`) | none of its own | get, set, unset, set label, create and remove group, list names | `BuxtonDirect` |
| Backends (`src/db/gdbm.c`, `memory.c`) | one database per layer, or per layer and user | get, set, unset, list names | `BuxtonDirect` |
| Smack (`src/security/smack.c`) | `have_smack`, `_smackrules` | cache and reload rules, check an access | `Smack` |
| Daemon handlers (`src/core/daemon.c`) | `client_list`, `notify_mapping`, `client_key_mapping` | the message handlers, `buxtond_notify_clients`, `terminate_client` | `BuxtonDaemon` |
| Main loop (`src/core/main.c`, `handle_client`, `add_pollfd`, `del_pollfd`) | `pollfds`, `accepting`, `client_list`, partial messages | poll, scan, accept, read, reply, reload rules, signals | `EventLoop` |
| Client library (`src/shared/protocol.c`, `src/libbuxton`) | `callbacks`, `notify_callbacks`, `_msgid` | requests, callbacks, timeouts, synchronous calls | `BuxtonClient`; parameters and results in `Wire` |
| Serialization (`src/shared/serialize.c`, `parse_list`) | none | messages, records | `Wire` |
| Simple client library (`src/libbuxtonsimple`, `buxtonsimple-internals.c`) | `client`, `_group`, `errno` | blocking get and set | `SimpleClient` |
| Configuration and layers (`src/shared/configurator.c`, `backend.c`) | settings, layers, backend modules | precedence, opening, closing, `create-db` | `Setup` |
| Command line tool (`src/cli`) | the connection | one command per run | `Buxtonctl`, `Setup` |
| Lists, hash map, iniparser | | containers and third-party code, used as sequences and functions | not modelled |

Components interact so: a client's request reaches a handler of the daemon, which puts
the client's uid in the shared control structure, calls one `buxton_direct_*` function
and writes a reply. The direct function reads the group and the key from the layer's
backend, asks Smack, and calls the backend again to write. After a granted SET or UNSET
the handler walks the registrations of the key and writes CHANGED messages. A connection
that fails is taken out of the registry by `terminate_client`.

What is hard here:

- The data side has one thread and no interleaving within a request, but a long life:
  layers overlap, groups are removed and made again by others, rules are reloaded, the
  daemon restarts and only the gdbm files survive. Its properties are about *sequences*
  of requests by clients with different rights.
- The registry is two maps, one keyed by key and holding pointers to clients, one keyed
  by descriptor and holding keys. `abort()` waits where they disagree, a freed pointer
  where an entry is forgotten, and the kernel hands descriptors out again.
- Peers close at any time, between two writes of one walk too. A reply that cannot be
  written ends the connection in the middle of the handler.
- In a client process threads share one connection, two tables and a counter. Entries
  time out after three seconds while synchronous calls wait for five; callbacks of CHANGED
  messages run with the mutex released and call the library again.
- What a client was last told is compared with the new value by `memcmp` on a union.
- The daemon scans an array of descriptors while serving them adds and removes entries; it
  reads without blocking and writes by spinning, and its clients may be anywhere in the
  middle of a message.
- The same message passes eight conversions between a call and its answer. Strings and
  lists have limits, and the daemon and the client draw different conclusions from them.
- Whoever waits for an answer may give up; the request is carried out all the same, and its
  answer comes to whatever uses the connection next.

`PROJECT.json` lists each hazard at its line, with the properties aimed at it.

## Modules

`Smack` holds the rule cache and the access check as operators. A rule file is a sequence
of `[subject, object, access]`; of two rules for one pair the first counts. The file is
one that can be read to its end: on any other the daemon exits, which is a step of
`EventLoop` and of `BuxtonStore`.

`BuxtonDirect` holds one pair of operators per `buxton_direct_*` function: whether the
request is granted (`CanSetValue`, ...) and the databases after it (`SetValue`, ...). A
database maps slots `<<group, name>>` to `[data, label]` or `Null`; `<<group, Null>>` is
the entry of the group itself. A database file belongs to a `Resource`: a layer, with the
uid for a User layer. Three things depend on the medium the resource opens with: a file
that cannot be opened answers `-ENOENT` to reads and refuses writes, a read-only one
refuses writes. Results are the codes that callers tell apart. `ChosenLayer` is the loop
over the layers of `buxton_direct_get_value`: `ChosenOf` is the recursive function of its
turns, over `LayerOrder`, the order in which the hash map happens to be iterated.

`BuxtonStore` is the state machine of the data: variables `db` and `smack`, one action per
request, `ReloadRules` for the inotify event and `Restart`, which also stands for a reload
that fails and so ends the daemon. A refused request leaves no trace. Read requests change nothing and are the operators `ClientGet` and
`ClientListNames`.

`BuxtonDaemon` is the state machine of the daemon over the same operators:

| Variable | Code |
|---|---|
| `db` | the backends |
| `accepted`, `client_list`, `fd`, `hungup` | the `client_list_item`s, their descriptors, and whether the peer has closed |
| `notify_mapping` | the hash map of that name: key to list of `BuxtonNotification` |
| `client_key_mapping` | the hash map of that name: descriptor to list of key names |
| `task` | where the thread is: idle, in the loop of `buxtond_notify_clients`, in that of `terminate_client`, or dead |
| `out` | the message the last step wrote |
| `known`, `stale` | history: what replies told each client, and which registrations have not been told of the last write |

Every message handler is one action (`Set`, `Unset`, `SetKeyLabel`, `CreateKeyGroup`,
`RemoveKeyGroup`, `Get`, `ListNames`, `Notify`, `Unnotify`, `BadMessage`), since nothing
can intervene between the request and the reply. The two loops over lists take one step
per element, because peers may close between two writes. A reply to a peer that has closed
fails and starts the termination, as `handle_client` does. The keys of the client's list
are read once, when termination starts, and the entry of `client_key_mapping` is removed
at its end, as in the code; the thread does nothing else in between.

A write to a peer that closed sends nothing and is ignored during a walk
(`daemon.c:602-626`). An element of `Conns` is one `client_list_item` and is not used a
second time, so that a pointer to a freed one can be told from one to a new client;
descriptors (`Fds`) are reused.

`Requests` is an abstract specification of the client library: a request waits, and ends at
most once, with the daemon's decision on this request, or is forgotten.

`BuxtonClient` is the library in one process:

| Variable | Code |
|---|---|
| `callbacks`, `notify_callbacks`, `msgid` | the static tables and counter of `protocol.c` |
| `stack` | per thread the calls in progress, innermost first: before the locked part of `send_message`, before its `_write`, in `poll`, in the loop of `buxton_wire_handle_response`, or in a callback of this loop |
| `now` | `gettimeofday`, in units in which `TIMEOUT` is 1 and the wait of `poll` 2, as 3 s < 5 s |
| `open`, `requests`, `responses`, `hungup` | the connection: two channels, closed by the daemon or not |
| `registered` | the daemon's registrations of this client |
| `made`, `said`, `done`, `result`, `ended`, `strayed` | history: what was sent, what the daemon decided, how the request ended here, what the call returned, which registrations an UNNOTIFY ended, which ones an undefined read took the callback of |

What `callback_guard` protects is one step; a callback that runs under it does not call
the library (the comment of `protocol.c:266-269`), one of a CHANGED message may, up to
`MaxDepth`. Between `get_msgid`, the locked part, the write and the wait, other threads
run. One thread reads: `read` takes header and body apart, and nothing keeps two readers
from each other's bytes. The application closes when none of its threads is in the
library. `list[2]` of the reply to UNNOTIFY lies outside the list (see *Findings*) and has
any value of `StrayReads`; in the `client` run that is any message id or none. A failed
write means that the application ignores SIGPIPE. A wait ends with something to read, after
its time, or with an error of `poll` (`PollFails`), as when a signal comes; the call then
fails at once and its entry stays. A request is stamped before it waits for the mutex
(`Call`), and enters the table under it (`Put`).

Messages to the client are read whole. The daemon writes each at once, and the kernel takes
one of at most half a socket's buffer as a whole or not at all. A read that met the middle
of a message would throw away the part it has (`protocol.c:348-351`), as the same code does
in the daemon, where `EventLoop` models it.

`EventLoop` is the daemon's loop, with everything between `poll` and a handler:

| Variable | Code |
|---|---|
| `pollfds` | `self.pollfds` and `self.accepting`, which move together |
| `client_list`, `cred` | the list of that name, and whose credentials an item has |
| `pc`, `i`, `offset`, `size`, `limit`, `towrite` | the place in `main` and `handle_client`, and their locals |
| `leftover`, `signals` | `leftover_messages`, the signalfd |
| `rules`, `inotify` | whether the cached rules are those of the file, and the events of its watch |
| `conn`, `sent`, `taken`, `outbox`, `backlog` | clients and kernel: bytes written, read, replies kept, connections waiting |
| `handled`, `thrown`, `missed` | history: messages served, messages of which a part was dropped, and whether the last change of the rules was one whose event was discarded or that came before the watch |

A stream is counted in units, the header or a part of the same size of a message of
`MsgLen` units. A payload that is read as a header claims any size up to `MaxGarbage` and
never deserializes. A read gets whatever is there, so partial messages arise from the
clients' writes. The daemon's `_write` is a state of its own (`write`), since it spins when
the client's buffer is full; `ReplyBuffer` is 1, so that this happens. What a message asks
for is `BuxtonDaemon`'s matter. `Terminate` takes the first item of `client_list` that is
the client's, as `terminate_client` does with its pointer. A SIGPIPE and a SIGTERM are both
read from the signalfd. The rules are read again (`RereadRules`) and then the events are
discarded (`DiscardEvents`): two steps, between which the file may change. A file that cannot
be read ends the daemon (`Exit`). At first the rules may be stale already, since they are
read before the file is watched.

`KeyValueService` is an abstract specification of the service: each call is carried out at
one moment on the very key and value of the call, or fails and changes nothing, and its
answer is what was found then. `Wire` is one connection with all the conversions between
the two: the checks of the API, the parameter list of each request, the message and its
length, `parse_list`, the packed records of the databases, the replies and the accessors
of a response. Strings are atoms with a length; `OffsetsOf` is the recursive function of the
offsets of a message, `Oversized` the strings in the databases that no message could have
brought. Each handler may refuse, since rights are
`BuxtonStore`'s matter. CHANGED messages belong to `BuxtonDaemon` and `BuxtonClient`. The
refinement of `KeyValueService` is also what checks the types of `Wire`.

`SimpleClient` is `libbuxtonsimple` in one process with the daemon it talks to: calls that
give up, whose callbacks expire or not before the answer arrives, and a daemon that ends
and starts again. `up` outlives the connection on the client's side only, as the daemon
reads what was written before a close. A wait ends with an answer (`Respond`), after five
seconds (`TimesOut`), at the end of the stream (`EndOfStream`) or by a signal (`Interrupted`);
`sbuxton_set_int32` keeps its connection and its callback after the last three. `Hears` is
what the callbacks leave in `ret` when all that is there is read: its own reply if its own
callback runs, otherwise that of an earlier call whose callback is kept and writes where the
earlier call's variable was, which may be where this one's is. `from` in `last` is the call
whose answer was noted, `interrupted` the calls that a signal ended; both are history. An
application that opens a `BuxtonClient` of its own
and the numeric types other than int32, which behave alike, are left out.

`Setup` is how a program finds its settings and opens its layers: `configurator.c`, the
layers and modules of `backend.c`, and the starts of `buxtond`, `buxtonctl` and an
application. Files, directories and absent paths are kinds of a path; a section is a
function of its settings, as `iniparser` folds case and merges sections. `Turns` is the
loop of `initialize`, the settings after each of its turns; `OrElse` is the precedence
within one.

`Buxtonctl` is one run after another of the tool, over the operators of `BuxtonDirect`,
with a daemon that comes and goes, serves others and may answer after the tool gave up. A
direct run is made while no daemon has the databases open. What it prints and its exit
status follow each command's own code, such as the uninitialised status of a list whose
callback did not run. SIGPIPE kills the tool. Bound: a run starts when the request of the
one before has been read.

`Occurrences` of `BuxtonDaemon` counts the places of an element in a sequence; the
consistency of the two maps of the registry is stated with it. The `MC` modules give the
constants values for TLC.

## Runs

| Run | Question | Bounds |
|---|---|---|
| `store` | who may change what, what is read back and from which layer, across reloads and restarts | 5 layers, iterated in an order that follows neither type nor priority: gdbm and memory System layers and a gdbm User layer as in `data/buxton.conf`, a read-only one shipped with data, of the priority of another, and one that cannot be opened; root and one labelled application, 1 group, 1 name, 2 values of different types, 2 labels, 2 rule files |
| `store_priority` | does the highest priority decide a read that names no layer, as the manual pages say: no (see *Findings*) | as `store`, without Smack |
| `daemon` | do the two maps agree, does termination abort | 3 connections on 2 descriptors, 2 message ids, at most 3 registrations on the key |
| `daemon_view` | do clients know what they registered, is each CHANGED wanted | 2 connections, an integer and a string value, a proper and an empty name |
| `daemon_live` | is every change delivered, is every closed peer reaped | 2 connections, 2 integer values, patient peers |
| `client` | does each request end as promised, is what comes in time heard, does every call return | a thread that reads and one that does not, 2 requests, 2 ticks of the clock, signals at any moment, callbacks nested twice, 1 key, at most 2 messages waiting when a change is announced, undefined reads of anything |
| `loop` | do the poll list and the client list agree, is each message served once, in order and under the right credentials and rules | 2 slots, 2 messages of 2 units each, a limit of 2 messages per turn, room for 2 units and 1 reply, signals, new rules at any moment, reloads that fail |
| `loop_live` | is everything read, is every closed peer reaped, does SIGTERM stop the daemon | 2 slots, 2 and 1 messages, a limit of 1, room for 4 units and 1 reply, descriptors enough |
| `wire` | does each call have the effect and the answer of the abstract service | 2 calls, every operation and shape of key, numbers, and strings as long as a message allows and longer, sent or stored by `buxtonctl --direct`, two names that do not fit into one message |
| `simple` | does a call report its own answer | 4 calls, signals at any moment, 1 crash of the daemon, 1 key, 2 types, 2 values, 3 groups, of which one has too long a name |
| `setup` | which file governs, when does a program abort, how often is a module initialised | 2 paths, each absent, a directory, malformed or one of 8 files; every environment; 7 command lines |
| `buxtonctl` | does what the tool reports rest on what was done | root and a user, 2 layers, each command with each number of arguments, 2 texts that convert in different ways |

The configurations that no row lists refute one statement each of the documentation, a test
or a comment; they are described under *Findings* and run with
`tlc -config MCStoreNames.cfg MCStore`, and so on. `daemon`, `daemon_view`, `loop`, `wire`
and `simple` are checked up to symmetry; none of them checks liveness.

Why the bounds are enough. In the store every rule is about one group and at most one key
of it, and requests on different groups share nothing but the layer; two clients are
needed for one to act on what another labelled, two rule files for a reload to take away a
right, and two types for a read to fail on the type, so that the layers a client can read
are any of them. In the registry a key is touched
through its own list only; three connections on two descriptors let a descriptor be
reused while another client stays registered on the same key, and three registrations let
one client hold two among those of another. `MaxRegistrations` is the one bound in a
guard; it is named as such in `Notify`. The proofs cover all sizes for the registry.
In the client every rule is about one request or about a registration and the request that
ends it, and two threads suffice for one to come between two steps of the other; two
ticks let an entry time out and a wait end, and one tick neither.
`MaxRequests`, `MaxTime`, `MaxDepth` and `MaxQueue` are bounds in guards.
In the loop two clients make one entry move into the place of another, two messages and a
limit of one make the daemon leave a client and come back, and a slot that is used again
meets what was left of its former client. `RecvBuffer` is smaller than what a client sends
in `loop`, and at least as large in `loop_live`, for otherwise the daemon and the client may
wait for each other (see *Findings*). `Messages` and `MaxGarbage` are bounds in guards.
In `wire` a second call finds what the first one stored, and lengths are chosen on both
sides of each limit of the code. In `simple` two calls that gave up can be followed by one
that reads the answer of either, and one more sets the group. In `buxtonctl` a run meets
what an earlier one left behind in the daemon, and what others change in between.

### What each property says

- `LayerlessReadsBest`: a read without layer is answered by the one layer that outranks
  every other where this client can read the key, with ranks stated apart from the loop
  (System first, then priority, then the later one), whatever subset is readable. This is
  the order of the loop; the manual pages have another, `PriorityDecides`, which
  `store_priority` refutes.
- `MemoryKeysHaveGroup`: in a memory layer no key outlives its group.
- `WritersAreAllowed`, `AdministratorsAreAllowed`: the table of checks of
  `docs/buxton-security.7` as action properties: which entries a request may change, in
  whose database, under which rights at that moment, and that labels survive overwriting.
- `ReadYourWrite`: what a client stored it can read back at once, with a label it did not
  choose and rules that changed before.
- `RegistryOK`: descriptors of live clients are distinct and unused ones own no keys; no
  registration points to a freed client; for each client and key the number of
  registrations in one map is the number of entries in the other, at every step of a
  termination.
- `NoAbort`: the `abort()` of `terminate_client` is out of reach.
- `ClientViewAgrees`: per key, a client's message ids in order are those of its answered
  NOTIFYs less those of its answered UNNOTIFYs.
- `ChangedIsWanted`: no CHANGED message goes to a client that took the registration back,
  or that took over a descriptor.
- `NoMissedChange`, `ChangeIsDelivered`: after a walk no registration is out of date, and
  every one that is gets up to date.
- `HungupIsReaped`: a closed peer is eventually removed.
- `KeepsRequests`: `BuxtonClient` implements `Requests`.
- `AnswersInTimeAreTaken`: an answer is dropped only more than `TIMEOUT` seconds after its
  request, whatever other threads do between `get_msgid` and the write.
- `ChangesAreHeard`: a CHANGED message finds its callback unless the reply to the
  registration came too late, or an undefined read met its id.
- `SilentAfterUnnotify`: a callback does not start again after its end was confirmed,
  though its entry stays in the table.
- `FailsForAReason`: a call whose request got out and whose wait no signal ended fails only
  when the daemon is gone or silent for the whole wait.
- `RequestsEnd`, `CallsReturn`: every request is answered or forgotten, every call returns.
- `PollListAgrees`: the poll list and the list of clients, kept apart, hold the same clients
  in the same order, at every step of the scan that adds to and takes from both.
- `ServedInOrder`: messages are served in order and once, and one that is skipped was in
  part thrown away.
- `JudgedByRights`: the credentials are those of the connection, though a slot is used again
  and they are fetched only once; a change of the rules that poll has seen is read before
  anyone is served, and rules that are not those of the file are used only while the event
  of the change waits for poll, or after it was lost (see *Findings*).
- `Consumed`, `Reaped`, `Stops`: no client's messages wait for ever, a slot whose client hung
  up becomes free, SIGTERM stops the daemon.
- `ImplementsService`: `Wire` implements `KeyValueService`: nothing is lost, cut or mistaken
  on the way through all conversions.
- `EndsForCause`: the daemon cuts off a client of the library only for LIST, which its
  `parse_list` refuses, or a request that is too long; the client falls out of step only
  after a list of names, or a string that was stored past the daemon and is longer than a
  message.
- `OwnAnswer`: what a call of `libbuxtonsimple` reports is the daemon's answer to this call,
  or to an earlier one whose wait a signal ended (see *Findings*), and to no other that gave
  up.
- `NamedFileGoverns`, `AbortsForCause`, `OneInstance`: a file given on the command line
  governs all settings and layers, a documented configuration never aborts a program, and
  the layers of a backend share one instance of its module.
- `ReportsWhatWasDone`: what `buxtonctl` prints was read for this run, and a command sent to
  the daemon never succeeds unless the daemon handled it.

### Fairness

`FairSpec` assumes weak fairness of the steps of a walk (the daemon has one thread, and
writes return if peers read or close: `_write` spins on EAGAIN, so a peer that does
neither does stop the daemon, which is excluded here) and strong fairness of `EndOfStream`
for each connection: poll reports a closed descriptor on every round, and a round serves
each ready descriptor; strong because the action is disabled while another message is
served. `main.c:347` leaves the round after each accept, so an endless stream of new
connections could starve the others; `Conns` is finite, which excludes that. No fairness
is assumed of clients there. `daemon_live` also sets `Patient`: peers close only once their
last reply is written, since otherwise a change can be stored and not announced
(see *Findings*).

In `BuxtonClient`, `FairSpec` assumes that threads run and the daemon serves (weak
fairness), that callbacks return (strong, since a callback may call the library meanwhile)
and that the application calls `buxton_client_handle_response` when `poll` finds the
connection readable, as the manual pages show. `RequestsEnd` holds until the daemon hangs
up. `CallsReturn` assumes that changes are not announced without end, for the loop of
`buxton_wire_handle_response` reads on while there is something to read.

`FairSpec` of `EventLoop` assumes that the daemon runs (`WF_vars(Daemon)`: it is one thread,
and every round of `poll` reports what is ready) and that a client finishes the message it
is writing (`_write` of the library loops) and reads what it is sent, or hangs up. Nothing
makes a client send, hang up or connect. `MaxFds` leaves a descriptor for every slot in
`loop_live`.

## Findings

Each of these is a counterexample found by TLC, with the configuration named first.

- `MCStoreRecursive` (docs): removing a group of a gdbm layer leaves its keys, which come
  back when the group is created again; `docs/buxton_create_group.3:67-69` says that it is
  recursive.
- `MCStorePriority` (docs; the run `store_priority`): a System layer answers a read without a
  layer before any User layer, whatever their priorities. `docs/buxtonctl.1:111-114` says "the
  layer with highest priority that the client has permission to read",
  `docs/buxton_get_value.3:47-50` that layers are traversed "in priority order".
- `MCStoreNames`: `list_names` looks in the daemon's own database of a User layer.
- `MCDaemonZero`: after UNSET, setting zero or false is not announced.
  With `Values <- OnlyString`: after UNSET, setting a watched key to a string dereferences
  null.
- `MCClientSync`: a synchronous call returns 0 after any message: a change, an earlier
  answer, or its own answer after its entry was dropped, which is so when the daemon takes
  between three and five seconds.
- `MCClientUnnotify`: the client takes the id of the registration that ended from outside
  the reply, so the callback stays, and another may go.
- `MCEventLoopResend`: a message that arrives in pieces can be dropped, and what follows
  is taken for a header and the client cut off, while the comment expects it to resend.
- `MCEventLoopFull`: without descriptors `accept` fails and the round ends before any
  client is looked at, so those that hung up keep theirs.
- `MCEventLoopSpin`: the daemon spins in `_write` while its client waits to write.
- `MCEventLoopRules`: a change of the Smack rules between the reading of the file and the
  discarding of the events (`main.c:289-294`) loses its own event, and the daemon decides by
  the old rules until the next change. So does one between `main.c:128` and `131`.
- `MCWireLists`: a list of names longer than 32768 bytes is sent and cannot be read; the
  client takes its body for headers. So is a string longer than a message, which only
  `buxtonctl --direct` can store: whoever gets it loses the connection.
- `MCWireMany`: a group with more than 4095 names aborts the daemon on LIST_NAMES.
- `MCSimpleErrno`: a call that failed may leave `errno` as it was.
- `MCSimpleDead`: after a failed `sbuxton_set_int32` the dead connection is used again.
- `MCSimpleInterrupted`: a signal ends the wait of `sbuxton_set_int32`, which leaves a callback
  that points to its stack frame; the next call runs it, and may report the success of the
  first for its own failure.
- `MCSetupFile` (docs): `buxton_set_conf_file` has no effect once a setting was read.
- `MCSetupCreate`: `create-db` of a layer kept in memory calls a null pointer.
- `MCBuxtonctlExit`: commands that change something exit with 0 when they were refused.
- `MCBuxtonctlLayer`: a direct `get` without a layer fails when it finds the key.

Seen while modelling and not the subject of a configuration:

- A SET whose reply fails is stored and not announced (`Reply`, excluded by `Patient` in the
  liveness run).
- `buxton_client_list_keys` always gets its connection closed, as `parse_list` refuses LIST.
- `docs/buxton-protocol.7` gives a message id 8 bytes where the code has 4;
  `buxton_response_value_type` returns -1 where `buxton.h:417-422` says `BUXTON_TYPE_UNSET`.
- `sbuxton_remove_group` does not cut the name of a group as `sbuxton_set_group` does.
- When the daemon refuses `get-label`, `buxtonctl` prints `(null)` and exits with 0.
- The System layer "user-0" and the User layer "user" of uid 0 are one file
  (`util.c:66-94`); a misspelled `Access` means writable; a missing backend module aborts
  the daemon at first use; `buxtonctl` ignores an unusable `-c` in server mode.

## Proofs

Each theorem below holds for every value of the constants that meets the assumptions of its
module: any number of connections, slots, threads, layers, groups, clients and calls. Most
follow one pattern: an inductive invariant, checked by TLC before it was proved, one
lemma per action that it is kept, and from it the property of the run.

### The store (`BuxtonStoreProofs`)

- `StoreTypeCorrect`: `Spec => []TypeOK`
- `MemoryKeepsGroups`: `Spec => []MemoryKeysHaveGroup`
- `WritersNeedRights`, `AdministratorsNeedRights`: `Spec => WritersAreAllowed` and
  `Spec => AdministratorsAreAllowed`
- `WritesAreRead`: `Spec => ReadYourWrite`
- `LayerlessReadsAreBest`: `Spec => []LayerlessReadsBest`

through `StoreInductive`: `Spec => []IInv`. The inductive invariant is small, for the store
has no hidden state; the work is in the action properties, where a request is shown to
differ from the old databases in one entry, or in one group, and its guard to hold what
the property asks for. `MemoryKeysHaveGroup` is inductive by itself: a set finds the group,
and removing a group of a layer kept in memory empties all its slots at once, as does a
restart.

`LayerlessReadsBest` is about a loop, not about steps: after each turn the layer chosen
outranks every readable one seen so far. The induction over the turns is done by hand, for
the prover cannot apply an induction theorem: were there a turn after which this fails, there
would be a least one (`WFMin` on the natural numbers), and the turn before refutes it.

The module begins with lemmas on the operators of `BuxtonDirect`: every operation on the
databases yields databases, and a successful read returns an entry that is stored.
`BuxtonDaemonProofs` and `BuxtonctlProofs` begin with those they need, each proved anew over
their own variables.

### The daemon (`BuxtonDaemonProofs`)

- `TypeCorrect`, `RegistryConsistent`, `NeverAborts`: `Spec => []TypeOK`, `Spec => []RegistryOK`
  and `Spec => []NoAbort`
- `ClientViewsAgree`: `Spec => []ClientViewAgrees`
- `ChangesAreWanted`: `Spec => []ChangedIsWanted`
- `NoChangeMissed`: `Spec => []NoMissedChange`, if `Patient` and `PlainValues` hold

The first three need each other, `Inductive`: `Spec => []IInv` with
`IInv == TypeOK /\ RegistryOK /\ NoAbort`. `NoAbort` holds because `MappingsAgree` finds a
registration for each key left to a terminating client; `MappingsAgree` is kept by
`terminate_client` only because during a termination it counts the keys still to do
(`KeysOf`), and by `Accept` only because `DescriptorsOK` says that a free descriptor owns no
keys; and the freed client leaves no pointer behind because with no keys left its count in
every list is zero. The module begins with the facts about counting that the argument rests
on: what appending an element, removing the first match or removing an index does to the
number of occurrences, proved from cardinalities of finite sets by explicit bijections.

`ViewInductive` adds what the clients know. `ClientViewAgrees` compares a client's list of
message ids with the places of its registrations in the list of a key. That UNNOTIFY and a
termination, which remove one place from the middle, keep the order of the others is proved
with the increasing list of these places (`ListedAt`). `StrangersKnowNothing`: an
accepted client starts with nothing. A CHANGED message leaves its walk under way until the
next step (`SentToKnown`).

`ToldInductive` says where a registration that is out of date may be: on the key of the walk
under way, at or behind its place, with an `old_data` that differs (`StaleOK`). The
hypothesis `PlainValues` (one type of fixed size, never zero) excludes what *Findings* says
of zero and of strings, where the property is false, and `Patient` the peers that close
before their last reply; `daemon_live` checks the property under the same two, and they are
met by its constants.

### The client library (`BuxtonClientProofs`)

- `TypeCorrect`: `Spec => []TypeOK`
- `RequestsAreKept`: `Spec => KeepsRequests`, that `BuxtonClient` implements `Requests`
- `InTimeTaken`: `Spec => AnswersInTimeAreTaken`
- `FailuresHaveReasons`: `Spec => FailsForAReason`
- `Silenced`: `Spec => SilentAfterUnnotify`
- `ChangesFindCallbacks`: `Spec => ChangesAreHeard`

through `Invariance`: `Spec => []IInv`, where `IInv` follows a request on its way. A call
that has yet to enter its request in the table has an id that nobody used (`SendsOK`); once
entered, the request is in one place only, a frame, the channel to the daemon or the one
back (`SendsOK`, `RequestsOK`, `AnswersOK`); until its answer is read it is in the table as
it was made, or it is older than `TIMEOUT` (`Kept`); and the answer on its way says what the
daemon decided (`AnswerOK`). The parts need each other: that an entry belongs to the answer
being read follows from `TablesOK` only because ids are not used twice, and the next
answers are still kept after one has been taken only because no two have the same id.
`TypeOK` itself needs `AnswerOK`: the reply to an UNNOTIFY that succeeded names a
registration. Each action has a lemma that it keeps `IInv` and maps to a step of `Requests`
(`AbstractStep`): `Put`, `PollReady`, `HandleResponse` and `Close` to `Turn`, `Serve` to
`Decide`, `ReadAnswer` to `End`, the others to a `Turn` that changes nothing. The
counter of ids, 32 bits wide in the code, does not wrap in the model (`MaxRequests`).

Three more invariants rest on it. `Waiting`: only the thread that reads makes synchronous
calls, it polls no earlier than it made its request, and it goes on to read without having
handled a message only when there is one or the daemon has hung up (`WaitsOK`). `Events`:
changes are announced only of registrations that the daemon has accepted and not ended,
and in the channel they lie between the replies to the NOTIFY and to the UNNOTIFY
(`RegisteredOK`, `ChangesOK`, `EndsOK`), so none is left when the end has been read,
whether or not the callback is still in the table. `KnownOK`: a registration whose reply
was taken in time has its entry in `notify_callbacks` as long as the daemon has the
registration or a change of it is on its way, unless its id is one that the read past the
parameters of a reply to UNNOTIFY has met (see *Findings*). Nothing is assumed of what that
read finds.

### The simple library (`SimpleClientProofs`)

- `SimpleTypes`: `Spec => []TypeOK`
- `AnswersAreOwn`: `Spec => []OwnAnswer`

through `SimpleInductive`: `Spec => []IInv`. The daemon answers in the order of the requests
and ids grow, so all answers waiting to be read precede all requests (`InOrder`), and each is
what was done for its own call (`QueuesOK`); callbacks kept between two calls are dropped
before the next one adds its own, those of interrupted calls excepted (`CallbacksOK`).

### The main loop (`EventLoopProofs`)

- `RightsAreJudged`: `Spec => []JudgedByRights`
- `PollListsAgree`: `Spec => []PollListAgrees`
- `LoopTypes`: `Spec => []TypeOK`
- `MessagesInOrder`: `Spec => []ServedInOrder`

`LoopInductive`, `Spec => []IInv`: `ListOK` says that the daemon's own descriptors stay in
front and no client is on the poll list twice or also in the backlog, `CredentialsOK` that no
entry of the list still has the credentials of a former client, and `PlaceOK` that the scan
has not passed the inotify descriptor while rules that poll has seen are unread. Credentials
stay right only because a slot's entry is gone before the slot is used again, and the rules
only because nothing removes an entry in front of the clients'. `RulesInductive` adds that
stale rules have an event to tell of them or were missed, and that while the events are being
discarded only a missed change can have made them stale (`RulesOK`).

`ListsInductive` adds `AgreeOK`: the clients' part of the poll list is the client list
backwards, index by index; an accepted client is put in front of one and at the end of the
other, and a removal closes the gap in both. `ServiceInductive` adds the bytes: the locals of
`handle_client` (`LocalsOK`), that no more is read than was written (`BytesOK`), and of each
connection which messages the units read so far account for (`HistoryOK`): those served
and those thrown away in part are different, increase, and cover every message that came
whole. A buffer that begins with a header has room for exactly its message, so that a message
is complete when the buffer is full; a payload taken for a header never is one.

### Set-up (`SetupProofs`)

- `SetupTypes`: `Spec => []TypeOK`
- `NamedFilesGovern`: `Spec => []NamedFileGoverns`
- `AbortsHaveCause`: `Spec => []AbortsForCause`
- `OneInstanceEach`: `Spec => []OneInstance`

through `SetupInductive`: `Spec => []IInv`. What `initialize` leaves is proved by the least
turn after which it would not (`Initialized`): the file is decided in the first turn, and
every later one finds its setting unset and takes the environment, this file or the default
(`Settled`). `ConfOK` says then that before a setting is asked for only the command line has
given one, and afterwards the settings are those of the file that was loaded, which is the
one of `-c`; `OpenedOK` that the layers are this file's sections, all usable, and each database
belongs to a backend that is loaded; `LayersOK` that the modules alive are those loaded, one
instance of each.

### The tool (`BuxtonctlProofs`)

- `ReportsAreTrue`: `Spec => []ReportsWhatWasDone`
- `ToolTypes`: `Spec => []TypeOK`

through `ToolInductive`: a report of success stays true while the daemon goes on only because
a run that succeeded has no request on its way any more (`RunOK`), and what was refused shows
nothing (`AnswerOK`). `ToolTypes` needs that a request on its way has the arguments its
command takes (`UsableOK`): the daemon reads it without looking at the count again.

### The conversions (`WireProofs`)

- `WireInductive`: `Spec => []IInv`
- `EndsHaveCause`: `Spec => []EndsForCause`
- `ServiceIsImplemented`: `Spec => ImplementsService`, that `Wire` implements
  `KeyValueService`

The first half is about the conversions alone. `OffsetSteps` and `OffsetBounds`: each
parameter of a message follows the one before it, and none lies past the end the message
was given; that the recursive function of the offsets exists for every length is shown by the
least length for which it would not (`OffsetsExist`). From this, what was serialized is read
back as it was, messages (`MessageBack`) and records (`RecordBack`), and the request of every
call the API lets through is parsed as this call, with LIST the one exception (`RequestBack`).

The second half is the induction. `IInv` follows a call on its way: a request on the
connection is the only one of its call, is what the call was turned into, and has no reply
yet (`UpOK`); what comes back is the reply on record (`DownOK`), which can be read and is too
long only for a cause (`RepliesOK`); a callback in the table is that of its call
(`WaitingOK`), and what it was given is what it reads in the reply (`GotOK`); every record
can be unpacked, and whatever in it came in a message fits into a reply (`GoodStore`). Each
handler has a lemma: on the request it reads it is the step of the service for the call,
or the daemon dies of a list with too many names (`HandledServes`). All other steps leave
the service as it is, for its answer is there when the daemon has sent it, read or not.

### Assumptions

TLC evaluates each in every run of its module.

- `LayerAssumption`, `MediumAssumption`: the layers are a sequence without repetition with a
  type, a backend and a priority each, as `buxton_layer_new` accepts them; what is in memory
  can be written.
- `NullAssumption` (of `BuxtonDirect` and of `SimpleClient`) and parts of the others: the null
  pointer is none of the values it is told from.
- `ClientAssumption`, `ConnAssumption`: clients have a uid and at most one label, as the kernel
  tells them, rule files hold rules, and an installed database survives a restart.
- `ClientLibraryAssumption`, `LoopAssumption`, `TypesAssumption`: bounds and timeouts are
  natural numbers, a message is longer than a header, buffers and limits are not zero, and a
  group name that is too long is cut to a group name.
- `LineAssumption`, `ArgumentAssumption`: a command line has one of the commands of
  `cli/main.c`; arguments in the right number name a group, a key and a value or label, where
  the command takes them.
- `WireAssumption`, `NullAssumption` of `Wire`: calls have the types of `buxton.h`, every
  string has a positive length (its zero byte), a message holds four parameters at least, and
  what the daemon stores of its own accord, a client's label and the value of a group, fits
  into a reply. The databases may hold strings of any length at first. The null pointer is no
  string, call, message or record.
- `SetupAssumption`, `SourcesAssumption`: `CONF_FILE` is the first of the settings, as in `enum
  ConfigKey`; every setting has a default; environment and files give a setting a path or
  nothing; only a program has a `-c`.

### Only model-checked

- Liveness (`HungupIsReaped`, `ChangeIsDelivered`, `RequestsEnd`, `CallsReturn`, `Consumed`,
  `Reaped`, `Stops`) needs fairness and ENABLED, which are beyond the prover.

## Not modelled

- Allocation failures (the code aborts), logging, help and version texts.
- Sockets passed by systemd. For one that `sd_is_fifo` accepts the loop would run into
  `assert(cl)`.
- Lists, arrays and the parsing of text: containers of one owner, modelled as sequences;
  `hashmap.c`, `iniparser.c` and `dictionary.c` are third-party code, modelled as functions.
- Input that no client of the library sends, beyond a message that is refused
  (`BadMessage`) and payload taken for a header (`EventLoop`).
- `BUXTON_ROOT_CHECK=0`, a switch for the tests.
- LIST, of which only the refusal is modelled, and `list_keys` of the backends behind it.
- `set_label` as the first operation on a database file, where the `errno` left by opening
  the file makes gdbm's `set_value` fail.
- Two threads that read one connection, callbacks of replies that call the library, and
  more than one client handle: each is a precondition of `BuxtonClient` or `SimpleClient`.
- The wrap of message ids, 32 bits in the code.
- A message to the client of which a part has not arrived when it is read, and errors of
  `poll` other than a signal's.

## Plan

1. *Done*: `Smack`, `BuxtonDirect`, `BuxtonStore`; runs `store` and `store_priority`.
2. *Done*: `BuxtonDaemon`; runs `daemon`, `daemon_view`, `daemon_live`; `IInv` proved.
3. *Done*: `Requests`, `BuxtonClient`; run `client`; that it implements `Requests`
   proved.
4. *Done*: `EventLoop`; runs `loop` and `loop_live`.
5. *Done*: `KeyValueService` and `Wire`; run `wire`.
6. *Done*: `SimpleClient`, `Setup`, `Buxtonctl`; runs `simple`, `setup`, `buxtonctl`.
7. *Done*: every invariant and action property of `BuxtonStore`, `BuxtonDaemon`,
   `BuxtonClient`, `EventLoop`, `SimpleClient`, `Setup` and `Buxtonctl` proved.
8. *Done*: `Wire` proved to implement `KeyValueService`; `EndsForCause` proved.
9. Left: `BuxtonSystem`, the client library and the registry over channels, with an
   abstract publish/subscribe store as the specification of both; the linked list of
   `buxtonlist.c` against sequences.
