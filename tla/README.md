# A TLA+ model of artdaq

artdaq moves data in three stages.  *Board readers* acquire Fragments from hardware and send
them; *event builders* collect the Fragments of each event in shared memory and give whole events
to *art* processes; a *routing manager* tells the senders which event builder has a free buffer.
The art processes of event builders send to *data loggers*, which write files, and to *dispatchers*,
which serve monitors.  Optionally event builders ask board readers for the data of an event (*data
requests*).  Every process is an application under run control: a state machine with threads
around it.  The modules here model the parts of this in which threads, processes and the network
meet.

Contents: [Inventory](#inventory), [Modules](#modules), [Runs](#runs), [Violations](#violations),
[Proofs](#proofs), [Observed](#observed), [Not modelled](#not-modelled), [Plan](#plan),
[Running](#running).

## Inventory

Paths are below `artdaq/`.

| Component | State | Operations | Talks to | What is hard | What makes it correct |
|---|---|---|---|---|---|
| `DAQrate/SharedMemoryEventManager` | `active_buffers_`, `pending_buffers_`, `released_events_`, `released_incomplete_events_`, `buffer_writes_pending_`, `dropped_data_`, two levels of mutexes, the buffers in shared memory | `WriteFragmentHeader`, `DoneWritingFragment`, `CheckPendingBuffers`, `startRun`, `endRun`, `endOfData`, `rolloverSubrun`, art process control | receiver threads (calls), art (shared memory), `RequestSender`, `TokenSender` | one thread per source, a buffer used after the unlock, time-outs, overwriting, lock order | one buffer per event, released once and whole, no buffer lost, a request per open event |
| `DAQrate/DataReceiverManager` | a thread per source, running sources | the receive loop: header, memory, body, done | transfers, event manager | body fails after its header was stored, retries, dropping | each Fragment stored once and accounted for |
| `DAQrate/RequestBuffer` | waiting requests, `highest_seen_request_`, `out_of_order_requests_` | `push`, `RemoveRequest`, `reset` | receiver thread and Fragment buffer | duplicates, disorder, gaps | nothing served twice, nothing withheld |
| `DAQrate/FragmentBuffer` | Fragments per Fragment ID, `WindowsSent`, `next_sequence_id_` | `AddFragmentsToBuffer`, `applyRequests` (five modes), `checkSentWindows`, `Reset` | generator thread, `RequestBuffer`, `BoardReaderCore` | partial answers, windows that time out, state kept across runs | each request answered once by each Fragment ID, or given up for good |
| `DAQrate/detail/RequestSender`, `RequestReceiver` | active requests, mode, threads; run number, running flag | `AddRequest`, `RemoveRequest`, `SendRequest`, `SetRequestMode`; the receive loop | UDP multicast | loss, duplication, throttling, datagrams of another run, end of run | only requests of this run wait; none is forgotten |
| `RoutingPolicies/*`, `Application/RoutingManagerCore`, `DAQrate/detail/TokenReceiver` | tokens, next sequence ID, routing cache, connections | `AddReceiverToken`, `GetRouteForSequenceID`, `GetCurrentTable`, `Reset`, pause, resume, stop | event builders (tokens), senders (requests, tables) | tokens, requests and tables interleaved, a trimmed cache, pauses, runs | one destination per event, no event without a token |
| `DAQrate/DataSenderManager`, `DAQrate/detail/TableReceiver` | routing table, counts | `sendFragment`, `GetRoutingTableEntry`, `receiveTableUpdate_` | routing manager, transfers | waiting for a route, repeated requests, stale routes | sends where the route says, in the end |
| `DAQrate/detail/TokenSender` | socket, `tokens_sent_` | `SendRoutingToken` in a detached thread | routing manager | count updated after the send | as many tokens as free buffers |
| `Application/Commandable` (`detail/Commandable.sm`), `*App`, `*Core` | state machine, mutexes, worker threads and their flags, run number | initialize, start, pause, resume, stop, shutdown, status, legal commands, `in_run_failure` | run control, all parts above | a thread that fails during a command, operations that throw, who joins whom | the state told is the state of the process; every command is answered |
| `Application/DispatcherCore` | registered monitors, their art processes | `register_monitor`, `unregister_monitor` and their detached threads | run control, art processes | several registrations at once, start of the run between | one art process per monitor asked for |
| `Generators/CommandableFragmentGenerator`, `CompositeDriver` | stop and exception flags, mutex, monitoring thread; the children and which are active | start, stop, pause, resume, `getNext` | `FragmentBuffer`, hardware | a command against a thread in `getNext`, of the composite and of a child | no read after a stop has returned; no exception lost |
| `DAQrate/DataSenderManager` with `DataReceiverManager`, no routing | `sent_frag_count_`, `recv_frag_count_`, end of data | `sendFragment`, its destructor, the end of a receiver thread | transfers | failed sends, failed bodies, several senders, stop | a thread that ends left nothing behind; it ends |
| `TransferPlugins/*` | sockets and their states, bundles, segments in shared memory | send and receive a header and its data, connect, accept, disconnect | the two sides of a transfer | partial writes, dead connections, restarts, lost and repeated datagrams | no Fragment cut, mixed or handed over twice |
| `ArtModules`: `ArtdaqSharedMemoryService`, `ShmemWrapper`, `ArtdaqInputHelper` | position in the broadcasts, principals, modes | take an event or a broadcast, make principals | event manager, art | a process that comes late or again; time-outs | events whole, in their run and subrun |
| `ArtModules`: `ArtdaqOutput`, `TransferOutput`, `RootNetOutput` | product lists, Init messages sent | `send_init_message`, `write`, end of subrun | data loggers, dispatchers | several senders with products of their own | the logger knows the products it gets |
| `ArtModules/detail/TransferWrapper`, `ListenTransferWrapper` | connection to a dispatcher, Init message seen | `receiveMessage`, registration | dispatcher, its art process | runs that begin and end meanwhile | events after their Init message |
| `ArtModules/RootDAQOutput*` | range sets, open file | open, write, close and switch files | ROOT, SQLite | products that span files | ranges exact, each product valid once |
| `FragmentReceiverManager`, `TransferTest`, `StatisticsHelper`, `DAQdata/*`, `tools`, `RTIDDS` | queues, counters, ports | tests, set-up and reporting | - | little | - |

The hazards of this code, each at its line, with the properties that watch it, are the `hazards`
of `PROJECT.json`.

## Modules

| Module | Models |
|---|---|
| `SharedMemoryEventManager` | receiver threads and the event builder, a step per section between two lock operations |
| `EventStore`, `EventStoreRefinement` | abstract specification of the event builder (events without buffers, locks or threads), and the mapping to it |
| `EventStoreProofs` | theorems of the event builder: its types; its books, its events, and that it implements `EventStore` |
| `MCSharedMemoryEventManager` | symmetry of the buffers, for the `EM_` runs |
| `SubrunMap`, `EventTokens`, `ArtProcesses` | what an event builder keeps beside its events: subruns, routing tokens, art processes with their broadcasts |
| `EventBuilderRun`, `EventBuilderRunProofs` | the three of them, `part` by `part`, and the theorems of subruns and tokens |
| `RequestBuffer` | the requests a board has received |
| `FragmentBuffer` (extends `RequestBuffer`) | a board in request mode SequenceID |
| `RequestModes` (extends `FragmentBuffer`), `MCRequestModes` | a board in all five request modes |
| `RequestPath` (extends `FragmentBuffer`), `RequestPathProofs` | request sender, network, request receiver and board composed, over runs, and the theorems of these and of the three above |
| `Routing`, `RoutingProofs` | routing manager with the NoOp policy, and the senders; their theorems and that of the other policies |
| `RoutingPolicies` | the policies RoundRobin, PreferSameHost and CapacityTest in all three routing modes |
| `TableConnections` | the connections that carry requests and tables between routing manager and sender |
| `CommandableSM` | the generated state machine as a table of edges |
| `Application` (extends `CommandableSM`) | the five applications under run control, with mutexes and worker threads |
| `Dispatcher` (extends `Application`), `ApplicationProofs` | the same, with the monitors of a dispatcher, and the theorems of both |
| `CompositeDriver` | a generator that has others as children |
| `DataLink` | a sender and the receiver thread of a destination, with the counts each keeps |
| `SendData`, `TCPSocketTransfer`, `MulticastTransfer`, `BundleTransfer`, `ShmemTransfer` | the transfer plugins; `SendData` is the loop of TCP around partial writes |
| `Transfers` | the five of them, and what is promised of all |
| `DataPathProofs` | theorems of `CompositeDriver`, `DataLink` and `Transfers` |
| `ArtInput`, `ArtOutput`, `MonitorInput`, `OutputFile` | in the art processes: input from shared memory, output to a logger, the input of a monitor, the file |
| `ArtProofs` | theorems of the four |
| `Sorting`, `SortingProofs` | the elements of a finite set in order, as `std::map` and `ORDER BY` give them, and numbers that pass through stages in order; lemmas about both |
| `DataPath`, `MCDataPath` | the parts on the way of the data, `part` by `part`, with their fairness |

`EventBuilderRun`, `Transfers` and `DataPath` put modules side by side that share no state: `part`
is chosen at the start and only that part moves, so a run explores the sum of their states, not the
product.  The interactions inside each part are real ones.

### The event builder (`SharedMemoryEventManager`)

A receiver thread `t` has a program counter `pc[t]` and the locals of `runReceiver_`:
its Fragment's event, its buffer, the place in it, its retries.  The chain is

    recv -> lookup -> (init) -> reserve -> header -> body -> done -> finish -> count
         -> complete -> unrequest -> check -> unlock -> recv

where `lookup` and `init` are `getBufferForSequenceID_`, `reserve` and `header` the rest of
`WriteFragmentHeader`, `body` is `receiveFragmentData`, and the others are `DoneWritingFragment`
with `complete_buffer_` and `CheckPendingBuffers`.  A lock acquired and released within a step is
a guard (`seqLock = NoThread`); a lock held across steps is a variable (`seqLock` while a new buffer
is initialised, `bufLock` from the last writer's check to the end of `DoneWritingFragment`).
`check_pending_buffers_` is an operator (`CheckPendingBooks`, `SemAfterCheck`) because it is called
with the lock held, as part of another step.  Exceptions that leave a thread end the process
(`pc = "threw"`, guard `Alive`).

Shared memory is `artdaq_core`, outside this repository, and is modelled from its use: a buffer is
Empty, Writing, Full or Reading; writing to a buffer in another state throws; art reads and empties
(`ArtRead`, `ArtDone`); `BufferTimeout` makes a buffer stale at any moment.  The content of a
buffer is the sequence of the headers in it, with whether the body has come.

Abstractions: data are their source and event; time is the choice to time out; a receiver waits
for a header, or finds none, at will.  Sources send their Fragments in event order.

`EventStore` says what the event builder promises: an event is opened, collects Fragments that
are settled (received whole, or marked invalid) while it is open, and leaves as complete, only when
enough are settled, or as given up; then its content does not change until it is consumed.

### The request path (`RequestBuffer`, `FragmentBuffer`, `RequestPath`)

`RequestBuffer` has one action per operation, all of them under `request_mutex_`.
`AsInt` keeps the truncation of `int delta`.  The loop of `RemoveRequest` is the closed form
`Consecutive`/`Advance`: the run of consecutive IDs at the low end of the out-of-order set.

`FragmentBuffer` runs three threads: `AddFragment` (generator), `PushRequest`, `ReceiverStarts`,
`ReceiverStops` (RequestReceiver), and `applyRequests`, which is a sequence of steps because other
threads act between the requests it looks at: `BeginPass` copies the waiting requests and trims the
buffers, `ServeRequest` answers one, `RecheckWindows`/`RecheckWindow` go through `WindowsSent`,
`GiveUpRequest` is one round of the loop that gives up the requests before a window that timed
out.  `StartRun` is stop and start of `BoardReaderCore`, with what `Reset` resets and what it
does not; `RunSpec` is one run of the board, `FBSpec` any number of them.  Which Fragments remain when there are too many is left open (`Trimmed`).

`RequestPath` adds the event builder's side and a network that may lose, delay, repeat and reorder:
the set `requested[r]` of what was ever sent in run `r`, any of which may arrive at any time
while the receiver runs.  Event builder and board change runs independently.

### Routing (`Routing`)

Two threads of the routing manager act on the policy's state: `AddReceiverToken` is the one of
`TokenReceiver`; `HandleRequest` and `GetCurrentTable` (`PushTable`, `TableFromCache`) take turns in
the one of `process_event_table`, and each holds the mutex of the tokens while it uses them, so each
is one action.  Replies and tables reach a sender through one ordered `channel`.  A sender sends its
events in order, asks when it has no route, and asks again if the wait times out.  `Pause` and
`NextRun` end `process_event_table`, which calls `Reset`.  A new run makes new senders (empty tables)
and new token senders; the policy object stays.  `astray` marks the sequence IDs a request in mode
EventBuilding got a route for before a table did, and with requests those whose route
`TrimRoutingCache` dropped while a sender had still to use it.

### A board in its other modes (`RequestModes`)

`RequestModes` keeps the threads and steps of `FragmentBuffer` and replaces what a pass does with a
request by mode: `Single` and `Buffer` answer the latest request for all sequence IDs up to it,
`Window` each request once its window is closed or timed out, `Ignored` hands over what there is.
Fragments are their time stamps, which grow; a request carries a time of `RequestTime`,
so that the windows of two may overlap, or an invalid one.  Data leaves a buffer when it is full, gets stale,
or is handed over, and `missing_data` is set where the code sets it.

### The run of an event builder (`SubrunMap`, `EventTokens`, `ArtProcesses`)

`SubrunMap` has `subrun_event_map_` and everything that writes or reads it: EndOfSubrun Fragments
of each source, the `rollover_subrun` command, resume (two steps: its first sequence ID is read
before the map is changed), the trimming of the map, and events that look their subrun up when they
are opened and again when a Fragment is done.  `EventTokens` counts the buffers by state and follows a
token from `check_pending_buffers_` over its detached thread, which sends and then counts, to the
routing manager and back as an event.  `ArtProcesses` has a `RunArt` thread per process (fork, wait,
decide to fork again), the command thread (`startRun`, `StartArt`, `endOfData` with its EndOfData
broadcast, `ShutdownArtProcesses` with its three signals, `ReconfigureArt`, one step per lock or
wait), and broadcasts that every process reads in order.

### Applications (`CommandableSM`, `Application`, `Dispatcher`)

`CommandableSM` writes the generated state machine down as edges: stack while the operation runs,
stack after it returned true, after it returned false.  `Application` sends any command in any
state to one of the five kinds of application.  A command is a sequence of steps: take
`primary_mutex_`, act, join the threads, leave.  A board reader's input and output threads and the
routing manager's thread come up, loop, fail (`in_run_failure`, which needs the primary mutex) or
give up on their own.  Where the experiment's code may throw, it may here.  `Dispatcher` adds `register_monitor` and
`unregister_monitor`: answered at once, done by a detached thread that starts or stops an art
process.

### Generators (`CompositeDriver`)

The thread in `getNext` and the thread of the commands are program counters that meet at the
mutexes and flags of the composite and of each child; `HeldByGetter` says which mutexes the first one
holds.  `stopNoMutex` stops the children in reverse order and waits for each mutex; `pauseNoMutex`
has the composite's mutex meanwhile; a child that throws makes the composite throw.

### Links and transfers (`DataLink` and the plugins)

`DataLink` follows the two counts that decide when a receiver thread ends: `sent_frag_count_` of a
`DataSenderManager` (which goes out in the EndOfData Fragment) and `recv_frag_count_`.  Sends succeed,
time out or fail and are tried again as the code does; bodies fail; senders follow one another.

`TCPSocketTransfer` has a sender and a receiver process and the connections ever made between
them.  The receiver's call is a sequence of steps (`poll`, read of the message head, of the
payload) over sets of open and last active connections, with the listen thread that accepts and
the last receiver that stops it; either side may be restarted.  `SendData` has the arithmetic of
its write loop byte by byte.  `MulticastTransfer`, `BundleTransfer` and `ShmemTransfer` have sender, receiver and
medium.

### Policies and connections (`RoutingPolicies`, `TableConnections`)

`RoutingPolicies` has a step per token message, per table (`GetCurrentTable`) and per request
(`GetRouteForSequenceID`) in the three modes; the three policies differ in which tokens they take
(`RoutingTable`, `CreateRoute`).  `TableConnections` has the listening and the answering
thread of the routing manager and the receiving and the asking thread of a sender, which share
`table_socket_` without a mutex; writes block when nobody reads.

### art processes (`ArtInput`, `ArtOutput`, `MonitorInput`, `OutputFile`)

`ArtInput` takes events and broadcasts from shared memory (`ReceiveEvent` over several types) and
makes principals of them, in an event builder and in a data logger, through timeouts, a restart and
`endOfData`, whose wait for the buffers may run out at any time and which kills a process that
stays (`ShutdownArtProcesses`).  `shown`, `binned` and `daq.ranOut` only record what happened to the
events.  `ArtOutput` has several senders, each with its product list, Init message, events
and ends of subruns, and the logger that takes them apart.  `MonitorInput` has both wrappers, single
and multiple runs, lost and repeated connections.  `OutputFile` reads input files that share subruns,
switches output files after any event, and keeps range sets, their data base and product
provenance.  What art, ROOT and SQLite do is modelled from the calls made to them.

## Runs

Every run is exhaustive for its bounds.  A deadlock is no error in any run: sources have sent their
last event, runs have ended, the bounds are reached, and a process may have ended with an exception.

| Run | Bounds | What it shows |
|---|---|---|
| `EM_reliable` | 2 sources, 2 buffers, 3 events, overwriting, failing bodies, fairness | `BooksMatchMemory`: lists, counts of pending writes and buffers agree and an event has one buffer; `CompleteEventsWhole`; `OpenEventsRequested`; `ImplementsEventStore`; liveness `ReleasedUnlessStuck`: every event is released, unless threads lock each other out or one looks for a failed Fragment for ever |
| `EM_stale` | 3 sources of which 2 are expected, 2 buffers, 2 events, time-outs, a list of 2 released events | `ReleasedOnce`, `DroppedDataInUse`, `MemoryBooked` when buffers are given up and Fragments come late or are surplus |
| `FB_modes` | all five modes, with and without unique windows and kept data; 2 Fragment IDs, 3 requests, 3 Fragments each, room for 2, windows that overlap and time out, data that gets stale | `ServedNotWaiting`, `ProgressCounted`, `AnsweredOnce`, `WindowWhole`, `SettledForGood`, `EachFragmentOnce`, `RemovedAnswered` |
| `RP_runs` | 2 runs, 2 requests, 1 request per datagram, 1 sending thread, fairness | `WaitingRequestsOpen` and the liveness property `RequestsProceed` |
| `RT_routes` | 2 senders, 2 builders with a token each, 2 events, a cache of 1 entry, 1 pause or change of run, both event building modes, fairness | `OneDestination`, `TokensHonoured` and the liveness property `EventsRouted` |
| `EV_runs` | subruns: 2 sources, 5 events, up to 4 subruns, a map of 2 entries, 2 resumes; tokens: 2 buffers, 3 events, 3 threads; art: 1 process, 2 RunArt threads, 3 broadcast buffers, 2 runs, 1 process that ends by itself | `EventsInSubrun`, `NoOvercommit` and the liveness properties `EventsKeepComing`, `StoppedMeansNoArt`, `ArtInitialised` |
| `AP_commands` | all five applications, three of them also with auto_run; one generation of threads; 1 monitor, 2 art processes, 2 detached threads | `StateTruthful`, `MonitorHasArt` and the liveness property `NothingLeftUndone` |
| `DP_parts` | see below | the parts on the way of the data |

`DP_parts`, part by part:

| Part | Bounds | Properties |
|---|---|---|
| `sendData_` | heads of 2 bytes, payloads of 0 to 8, 3 bytes per call | `FragmentsIntact` |
| TCP | 2 Fragments, 2 connections, restarts of either side | `FragmentsIntact`, liveness `FragmentsDelivered` |
| multicast, bundles, shared memory | 3, 4, 4 Fragments; 3 subfragments in batches of 2; 2 buffers, 2 segments | `FragmentsIntact` |
| composite | 2 children, 4 commands | `ChildrenFollow` |
| link | 2 destinations, 2 Fragments, 1 retry, 2 senders one after the other, 1 failure; all three modes | `NothingLeftBehind`, liveness `ThreadsEnd` |
| policies | 3 policies, 3 modes, 2 receivers, 2 senders, 2 sequence IDs, 1 reset | `TokensAccounted`, liveness `RequestsRouted` |
| connections | 2 connections, 2 packets under way, a sender that may be killed | liveness `StopEnds` |
| input, output, monitor, file | 2 events and 1 restart; 2 senders, 2 events, 2 subruns; 2 runs, 2 messages under way, 2 events; 3 input files that share subruns, 4 output files | `ArtSeesEvents`, `LoggerFollows`, `MonitorsFollow`, `FilesExact` |

Why these bounds are enough to be of interest:

- *Event builder.*  Every lock conflict and every race here is between two threads over one or two
  buffers.  With two buffers and two
  events a buffer can be reused (overwriting, time-out) while a thread still holds its number; the
  third event of `EM_reliable` makes the sources wait for a buffer.  In `EM_stale` there is a third
  source, whose Fragment is surplus; for `EM_reliable` two are enough, since what it says of safety is proved for
  any number (see [Proofs](#proofs)).  `MaxEventList` is 10, or in
  `EM_stale` just the number of events, so nothing is trimmed: see the hazard on trimming.  The
  counterexample of `EM_retries` needs one buffer and two sources.
- *Board.*  Three requests make an order, a gap and its closing; two Fragment IDs make a partial
  answer; room for 2 of 3 makes data be dropped.  Four time stamps and windows of two make windows
  overlap, lie before the first Fragment and after the last.  `HalfInt` is 8, more than the IDs.
- *Request path.*  One request per datagram makes the list overflow at the second one.
- *Routing.*  A cache smaller than the number of events makes it forget a route a late sender needs;
  one packet under way per sender orders replies after tables.
- *Run of the event builder.*  Five events and four subruns overflow a map of two entries, and two
  sources reach a boundary in either order with an event between.  Two RunArt threads let a process of
  the run before live beside one of the next.
- *Applications.*  Every command is tried in every state, so sequences have no bound.  `MaxGen` 1
  leaves out two pairs of threads at the same time, which a resume after a thread that never ended
  would make.
- *Data path.*  Two connections make one that is stale beside one that is used; two children make one
  that reads while another is told to stop; a retry, a failed body and a second sender are what the
  counts of a link depend on; three input files make a run product valid in the last of several.

Fairness.  Threads that can run do run (operating system), receivers poll, art keeps reading,
boards acquire, a waiting sender repeats its request when its wait times out, and event builders
send tokens for free buffers.  Processes that are told to end do so or are killed after the time-out
that waits for them.  Nothing is assumed of the experiment's code, of time-outs otherwise, of the network, of
when events are opened, or of commands, except that a paused run is resumed (`RT_routes`).  Weak
fairness is enough but in one place: `ReceiveEnds` in `TableConnections` is strongly fair, since the
last `epoll_wait` of a receiver finds nothing only between two packets, and tokens and routes come
to an end (`DataPath` says so at its fairness).

Some properties are conditional, and say so.  `AnsweredOnce`, `SettledForGood`, `RemovedAnswered` and
`RequestsProceed` are about the first run of a board because `Reset` leaves `WindowsSent`.
`OneDestination` leaves out the IDs in `astray` (see `RT_split` and what is observed of tables with
gaps) and, with requests, the runs after the first; `TokensHonoured` counts destinations for the first run: `Reset` leaves `routing_cache_`.
`ReleasedUnlessStuck` leaves out the lock cycle (see `EM_deadlock`) and the loop of `UpdateFragmentHeader`, `NothingLeftUndone` the
commands that are stuck (see `AP_answers`), `TokensAccounted` the receivers whose turn was open at a
reset, `NoOvercommit` checks made while the thread of a token was not done.  That `endOfData` throws no
event away (`NothingBinned` in `ArtSeesEvents`) is about builders whose art reads on after timeouts
(`resume_after_timeout`) and runs in which its wait for outstanding buffers does not run out; it does
after `expected_art_event_processing_time_us`, 1 s by default, for each buffer without a change in their
number, and never if that is 0.  `EventsAccounted`, beside it, has no condition.  `ThreadsEnd` is about
links whose counts agree, `StopEnds` about senders that are not killed and connect once at a time.
Each condition is a history variable of its module that is set at the step which spoils the
property, and each is explained under [Observed](#observed).

When buffers time out, the exact counts of `BooksMatchMemory` and `CompleteEventsWhole` do not hold;
what does is checked by `EM_stale`.  In non reliable mode even that fails as soon as a
source finds no buffer (`EM_retries`).  Both are explained under [Observed](#observed).

## Violations

Each of these runs checks one sentence of the sources against what the code does, and TLC finds a
counterexample.

| Run | Property | What happens |
|---|---|---|
| `EM_deadlock` | `DoneReturns` | `t` opens an event: it holds `sequence_id_mutex_` and waits for the mutex of the buffer it took (`SharedMemoryEventManager.cc:1172`).  `u`, the last writer of that buffer's previous event, holds that mutex and waits for `sequence_id_mutex_`.  The buffer is free again because `t`, in an earlier check of the pending buffers, gave it to art before `u` was through, and art emptied it. |
| `EM_retries` | `StoredOnce` | In non reliable mode `runReceiver_` counts its attempts and does not look whether the last one returned memory (`DataReceiverManager.cc:320`): the Fragment is stored again, and one of its two pending writes is never taken back. |
| `RT_split` | `SingleDestination` | In mode EventBuilding a request uses a token for a sequence ID (`RoutingManagerPolicy.cc:91`) that the next table routes with another token: the Fragments of the event go to two event builders. |
| `AP_answers` | `CommandsEnd` | A board reader is told to pause: `do_pause` joins the output thread, which nothing tells to end (`BoardReaderApp.cc:158`); the command holds the mutexes for ever. |

## Proofs

TLAPS proves the following for every value of the constants that satisfies the named assumptions.

`EventStoreProofs!TypeCorrect` (`Spec => []TypeOK`).  `TypeOK` is not inductive: that
`slots[b]` holds well-typed Fragments needs that a thread past `recv` has an event in `1..MaxSeq`, and
the functions updated at `buf[t]` need that a thread at those steps has a buffer.  `TypeInv` adds
both.  That `timesReleased` stays a number needs that finitely many buffers are released at a time
(`FinitenessAssumption`).

`RequestPathProofs!NeverServedAgain` (`BufferSpec => []ServedNotWaiting`), if `MaxID < HalfInt`.
The invariant `BufferInv`: what was served is at most `highestSeen` or is in `outOfOrder`.
`RemoveRequest` keeps it since the run taken off the out-of-order set ends at the new `highestSeen`
(lemma `ConsecutiveRun`, from the fact that its members are counted by `Rank`); the assumption makes
`AsInt` exact.

The same module, if `MaxID < HalfInt`: `BoardTypeCorrect`, `NeverAnsweredTwice`,
`SettledStaysSettled`, `RemovedWasAnswered`, all from `BoardInv`.  Its heart is that the request
looked at next is never below `next_sequence_id_` (`WorkAhead`), because the copy of the waiting
requests held none below it (`PassedServed` with `NeverServedAgain`'s invariant), so an answer is
remembered in `WindowsSent` until `next_sequence_id_` has passed it (`AnsweredKept`).
`BoardUsesBuffer` shows that the board's steps are steps of `RequestBuffer`'s specification, so what
is proved of that module holds in it.

There, too, for the path as a whole: `WaitingRequestsAlwaysOpen` (`Spec => []WaitingRequestsOpen`) needs no hypothesis:
`PathInv` says that what waits was sent in the board's run and what was sent in a run was opened in it,
for datagrams of any run may arrive at any time.  `PathImplementsBoard` (`Spec => FBSpec`): every step of the path is a step of
the board's specification or leaves the board alone, so the theorems of the board hold
at the end of the path; `PathAnswersOnce` is the one of them that matters most.

There, too, for a board in any of the five request modes, if `MaxID < HalfInt` and the board has a Fragment ID
(without one every request is settled at once, and the counts part when requests come out of order):

- `ProgressAlwaysCounted` (`ModesSpec => []ProgressCounted`).  `OrderInv`, proved for `RequestBuffer` by itself
  (`OnlyServedAlwaysIgnored`): what is remembered was served, with no gap below `highestSeen`, and the list never holds
  the request after it.  That the counts agree is not inductive, for during a pass `highestSeen` runs ahead of
  `nextSeq`.  `BoardOrder` says how far: what is served is behind `nextSeq` or in every `WindowsSent`, the second pass
  goes through all of `WindowsSent` from its lowest request on, so what `nextSeq` lacks is still to be looked at.
  `CountsAlwaysAgree` is this theorem for `FBSpec`.
- `AnsweredOnceInModes`, `SettledInModes`: by `ModesInv`, which is `BoardInv` and `BoardOrder` in the two modes with
  passes and `OneAnswerEach` in Single and Buffer mode.  `PassStep` is what the passes of SequenceID and of Window mode
  have in common, so that each lemma serves both.
- `WindowsAlwaysWhole`, `EachFragmentHandedOnce`: by `DataInv`.  What is dropped goes from the front (`Rear`), so the
  buffer has everything from its oldest Fragment on but what was handed over (`NothingBetween`), and the Fragment Buffer
  mode keeps stays its oldest (`KeptIsOldest`), which is why discarding one from the front discards that one.

`DataPathProofs!ChildrenFollowAlways` (`CompositeSpec => []ChildrenFollow`), for any number of
children and commands.  `CompositeInv` says where the thread in `getNext` can be during each command
(`OrderInv`) and after it (`RestInv`): a stop has set the flags of all children past the one it has
come to, and a pause has the composite's mutex besides, so a thread that passed the check of the
composite before its flag was set finds the flag of every child.  `ExceptionInv` keeps the exceptions
of children with that of the composite, but for those of the run before while the children are
started one after another.

`DataPathProofs!NothingLeftBehindEver` (`LinkSpec => []NothingLeftBehind`), for any number of
destinations, Fragments, retries, senders one after the other, and failures.  `WireInv`: the data under
way is what the thread lacks, each Fragment once, and the next one is new, so that one delivery adds one
to the Fragments missing.  `CountInv` is an inequality: what the thread has received and what it lacks
is at most what EndOfData Fragments have announced, those under way will announce (`Announces`, a
witness of prefix sums, so that adding at one end and taking from the other needs no induction), and the
sender has counted and not yet said.  A thread that ends by its count has nothing under way and no
sender connected, so what it lacks is nothing.

`DataPathProofs!AlwaysFragmentsIntact` (`TransfersSpec => []FragmentsIntact`), for any sizes and numbers of Fragments,
connections, restarts, subfragments, bundles, buffers and segments.  `TransfersInv` has an invariant for each plugin; they
share no state, so a step of one leaves the others' as they are.

- `sendData_` (`SendInv`): the two indices stand for one place in the message.  What was written is the message up to there
  (`Sending`), and the piece cut for the next call begins there (`Indices`), so the call is offered the next bytes and,
  before the end, at least one (`OfferedFacts`).
- TCP (`TCPInv`): over all connections each header is under way at most once, and not any more once it was received
  (`WiresGood`), and data comes right behind its header (`GoodWire`).  A receiver that has a header reads on from the same
  connection, and what it finds there is the data of this header, or nothing yet, and then it is that Fragment the
  sender has still to send the data of (`BodyHeld`, `DataDue`).  A descriptor that is used again for another
  connection does no harm, for no two that are open share one (`OwnDescriptors`).
- Multicast (`MulticastInv`): as long as the network repeats nothing, a part of a Fragment is under way once or is in its
  slot (`NoneTwice`).  The count of the Fragment in hand is then at most the number of slots filled with it (`Counted`),
  and when it has reached the number of parts all of them are.
- Bundles and shared memory (`BundleInv`, `ShmemInv`): what was received, what is read and what waits are stages, the latest
  first, through which Fragments pass in order: each stage rises, and each is below the next (`AllRising`).  A step
  moves the first Fragment of a stage to the end of the one before it, or a whole stage, adds one to the last, or empties
  some; `SortingProofs` says of each of these that the stages still rise and what is in them.  Of a bundle is needed, too,
  that it is never empty and a header that was read is that of the data read next (`BundleHeld`).

`EventStoreProofs`, for any number of receiver threads, buffers, events, retries and failing bodies,
with and without overwriting, and any `max_event_list_length`, if `Reliable`: no buffer times out,
`non_reliable_mode` is off, and there are as many expected Fragments per event as sources.  The last two are the
normal configuration (`non_reliable_mode` is false by default, `expected_fragments_per_event` is the
number of sources); the first holds as long as no buffer is left untouched for
`stale_buffer_timeout_usec`, 5 s by default.  Without them an event may be given up while a thread still holds its buffer;
then Fragments do get into the wrong events (see [Observed](#observed)), so the hypothesis is not a convenience.

- `BooksAlwaysMatchMemory`, `CompleteEventsAlwaysWhole`, `OpenEventsAlwaysRequested`, `AlwaysReleasedOnce`.  None of
  these is inductive by itself.  `ReliableInv` adds where each thread is with respect to the
  locks (`LocksHeld`, `LockedAlone`, `InitNew`), that a thread between reservation and count works on a
  buffer that is open (`WorkOnOpen`) and has its own place there (`OwnSlot`, `SlotsOnce`), that the
  writes pending of a buffer are the threads that are writing to it (`WritesPendingExact`), and that only the last of them
  finds the event complete (`CompleteLast`, `OpenUntilLast`), for the interval
  between its count and its `complete_buffer_`, when the buffer is neither open nor released.
- `EventBuilderImplementsStore` (`Spec => ImplementsEventStore`): under the mapping of `EventStoreRefinement` each
  step is a step of `EventStore` or a stutter.  What the mapping says of an event is read off its
  buffer while there is one, and off what was given to art from then on.

The same module, with time-outs at any moment and any number of expected Fragments, if `Remembering`:
`non_reliable_mode` is off, since with it the theorems are false (`DroppedDataInUse` in the configuration of `EM_retries`), and `max_event_list_length` is at
least the number of events, since a late Fragment of an event that was trimmed off `released_events_` opens it
again.  `BuffersAlwaysBooked`, `ReleasedOnceDespiteTimeouts`, `DroppedDataAlwaysConsumed`,
`RequestsKeptDespiteTimeouts`, all by `TimeoutInv`.  A thread that found a buffer for its event is
still in it, or the event is gone for good: it is on one of the two lists of released events and in no
open buffer (`OpenOrGone`, `Gone`).  From the lookup in `DoneWritingFragment` to the completion the
buffer cannot go (`HeldOpen`): it does not time out because the thread is counted, and it is not given away
complete because the last writer has the buffer's mutex and the others have at most a header to write
(`LockedFirst`, `PendingLocked`).  The counts themselves are no longer exact.  A thread that loses its buffer never takes its
write back, and one that comes late adds its write to the next event's; but `CountedAtLeast`, that the
count is not below the number of threads with a write for the event at hand, is kept, and is enough.

`RoutingProofs`, for any number of event builders, senders, events, tokens, packets under way, pauses
and runs, and for any size of the cache.

- `TokensAlwaysHonoured` (`Spec => []TokensHonoured`).  `TokensInv` counts, for each event builder, its tokens in
  the list together with the events that use one (`Given`): an event counts as long as a cache entry, a sender's
  table, a packet under way, or a Fragment that was sent knows of it.  The sum never exceeds
  the tokens that came.  A token taken for a request leaves the list and gives at most one
  event; trimming, skipping and repeating give none.
- `AlwaysOneDestination` (`Spec => []OneDestination`).  In mode EventBuilding the invariant is about where the Fragment
  of an event will go once the packets under way are read (`GoesTo`): the same for all senders
  (`SameForAll`), of which `OneDestination` is the part already sent.  It needs that a packet which is skipped
  tells nothing new, and so that each sender learns the events in order
  (`ReachedInOrder`, `ComesInOrder`), tables have no gaps (`PacketsContiguous`) and requests name an event all
  before which were sent (`AskedInOrder`).  With requests every route known of an event is the one
  in the cache as long as a sender has still to use it (`RequestedInv`).

- `AlwaysTokensAccounted` (`PolicySpec => []TokensAccounted`), of the policies RoundRobin, PreferSameHost and CapacityTest
  in all routing modes, for any minimum, percentage and hosts.  `SpendingInv` adds that no route is made twice: one of a
  table is for a sequence ID before the next, one that was asked for is in the cache (`RoutesOnce`).  A table is the tokens in order,
  cut somewhere, so it has no more entries for a receiver than that has tokens; that the tokens in order are each of
  them once is `AscendingFacts` of `SortingProofs`, by counting the elements before one.  The rank of the routing manager
  is that of no sender (`PolicyConstants`): with it as the source a route of a table is told from one that was asked for.

`EventBuilderRunProofs`, for the parts of `EventBuilderRun` that count and compare.

- `NeverOvercommitted` (`RunSpec => []NoOvercommit`), for any number of buffers, events and threads.  `TokensKept` is
  an equation: the tokens counted as sent and those of threads that have sent and not yet counted are with the routing
  manager, or used for an event that is on its way, being written, or released.  A check in which no thread is under way
  therefore sees how many are out.
- `EventsAlwaysInSubrun` (`RunSpec => []EventsInSubrun`), for any number of sources, events and subruns and any length
  of the map.  `SubrunInv` has one part for each history.  Without a resume, a source has told of each
  boundary it has passed, and what it told is in the map or trimmed off (`ToldKept`); the event is looked up again at
  its last Fragment, whose source has passed all boundaries up to it.  A trimmed map is full of later boundaries, so
  what is not in it is below all of it.  After one resume, its key separates the subruns before the one it entered from
  those after, although it is entered under a lock taken again (`ResumedAt`).

`ApplicationProofs!ApplicationAlwaysTruthful` (`Spec => []StateTruthful`) and `StateAlwaysTruthful` (`DSpec => []StateTruthful`),
for all five kinds of applications, any number of generations of threads, and with any number of monitors of a dispatcher;
the run has one generation.  `AppInv` is in two layers.  The first holds of every process: which edge of the state machine
the command in hand takes (`EdgesOf`), where it waits, and that it holds the primary mutex (`CommandShape`); a new core
without its parts is not fresh (`FreshHasParts`), from which follows what a missing object needs.  The second, `Regular`, is
about processes in which no start failed, nothing of the experiment threw and nothing started itself: the live threads are
the ones the application has hold of (`Handled`); there is none outside of a run (`NoThreadOutOfRun`), so that no core is
freed under its threads; `running_` is set from the middle of a start to the middle of a stop (`RunningFlag`), so that an
output thread, which ends only when the buffer was told to stop, ends only while a stop waits for it (`LoopsRunning`); and
a failed input thread finds the state machine in Running whenever it gets the mutex (`FailureHeard`).  The stacks of
the state machine are sequences: lemmas `Pops`, `Pushes` and `StateSet` work out each of its moves once, `TransitionEdges`
and `LegalCommandsAccepted` compare them with the list of legal commands.

`ApplicationProofs!MonitorsAlwaysHaveArt` (`DSpec => []MonitorHasArt`), for any number of labels, art processes and detached
threads.  A label in `clean` has at most one thread at work, whose place tells what serves the label (`CleanLabel`,
`Expected`).  That another label's thread does not kill it needs `PidsOwn`: a process number that is remembered, in
`registered_monitor_pids_` or by a thread, belongs to a process of that label or to none.

`ArtProofs`, for the parts around art.

- `ArtAlwaysSeesEvents` (`InputSpec => []ArtSeesEvents`), for any number of events, broadcasts and starts of the
  process.  `ReadSoFar`: what was read of an event is all that was looked for so far, or nothing if its buffer
  was taken away, for the reader then throws all of it away; it is why an event is whole or empty.  `HeldByReader`: a buffer is
  held only while its process reads, or by one that was killed, so a step moves an event from one of the places
  where it is looked for to another (`AccountedKept`) and each is given to art, still there or counted as thrown away.
  `ReadsOn`: a process that reads on after time-outs ends only when the data has ended, when no buffer is full unless the
  wait of `endOfData` ran out.
- `LoggerAlwaysFollows` (`OutputSpec => []LoggerFollows`), for any number of senders with whatever products.
  `OutputInv`: unless outputs select events, an Init message under way names all products its sender may send, and the
  logger, which reads events once it has the Init messages of all senders, knows those it has the Init message of.
- `MonitorsAlwaysFollow` (`MonitorSpec => []MonitorsFollow`), for any number of runs, events and lost messages.  All
  messages a registered monitor may find are of one run (`RunIs`), the run of the Init message that it has, if it has one.
- `AlwaysFilesExact` (`FileSpec => []FilesExact`), for any input files with at least an event and none twice, and wherever
  the output is switched.  `DataBaseHolds`: the ID of a record was given and its joins name the rows of its ranges; entering
  another range set adds rows and joins under a new ID and leaves those there are (`Keeps`).  `ProductsOnce`: the run
  product of an input file is valid in no output while its first event is still to come or not yet written (`Waits`),
  and in one from then on, because it is kept where the first of its ranges begins, and that event is seen once
  (`EventsOnce`).

Every invariant of a passing run is a theorem.  Only model-checked are the liveness properties, which TLAPS cannot prove
(`ENABLED` and fairness), and of the modules of `DataPath` what `TableConnections` promises, which is liveness.  The
theorems hold for any value of the constants, but within the histories the modules cover: what a module leaves out
(see [Not modelled](#not-modelled)) no theorem is about, and the conditions named under [Runs](#runs) are part of the
properties proved.

## Observed

Disagreements met while modelling, between two parts of the code or between code and comment, that
no run is about.  The models do what the code does.

*Event builder.*
- `UpdateFragmentHeader` (`SharedMemoryEventManager.cc:422`) never moves its read position: unless
  the failed Fragment is the first of its buffer, its loop does not end.
- `WriteFragmentHeader` counts its write (`:254`) after `getBufferForSequenceID_` has released
  `sequence_id_mutex_`.  In between the buffer may time out with no write pending, be read by art and be taken
  for another event, to which the Fragment is then written, against "reserved memory area" at
  `SharedMemoryEventManager.hh:216`.
- In non reliable mode a Fragment is dropped for want of a buffer; before it is done another source may open
  one for its event.  `DoneWritingFragment` (`:303`) looks for a buffer before it looks into
  `dropped_data_`: it takes back a write of that source, and its own memory stays in the list.
- `dropped_data_` is changed by several threads without a lock.
- Two resumes make the subrun map go backwards (`:996`); a trimmed map gives the events of a source
  that lags behind subrun 1 (`:990`; the map has 100 entries by default).  `EventsInSubrun` allows for just that.
- The loop that kills the last art processes dereferences `begin()` of a set that may be empty (`:739`).
  A process that crashes early sets `restart_art_` to false for all; `ReconfigureArt` after that skips
  `endOfData` and starts more.  `RunArt` and token threads are detached and use an object that may be gone.
- `endOfData` drops incomplete events uncounted and leaves them in `active_buffers_`.  By default it gives
  up waiting for full buffers when their number has not changed for 1 s for each (`:828`, `:833`), although art
  is alive; art reads EndOfData before them, and they are emptied uncounted (`:876`) under the message "EndOfData
  Complete".  In the model without the condition on `ranOut` that takes one event and six steps.

*Requests.*
- `FragmentBuffer::Reset` (`FragmentBuffer.cc:123`) keeps `WindowsSent`: in the next run a request is
  taken for answered.
- `applyRequests` returns at once when it is to stop: requests that wait then are never answered.
- Unique windows that overlap leave `missing_data` off in the later one.  A late request in modes
  Single and Buffer waits for the next one.  A request with an invalid time stamp is skipped and never
  removed (`:704`).

*Routing.*
- `Reset` leaves `receivers_in_current_round_` and `routing_cache_`; mode EventBuilding never trims the
  cache; RoundRobin and PreferSameHost never count `tokens_used_since_last_update_`, so no table is cut
  short by it; CapacityTest's documentation speaks of the initial number of tokens, its code uses the
  current one.
- A table made from the cache may have a gap, and a sender skips such a table as a whole
  (`TableReceiver.cc:221`) although its routes are marked as included (`RoutingManagerPolicy.cc:162`).  The
  sender then asks for each route; if the cache has meanwhile forgotten it (`:128`), the event is given
  another token, and goes to another event builder than the Fragments sent before.  The gap itself
  comes from an earlier route that was forgotten and given again.  With `CacheSize` 1 and four
  events this takes 41 steps; `routing_cache_size` is 1000 by default.
- `process_event_table` resets the policy when it is paused while tokens keep coming in: those are
  lost.  Its interval is worked out in integers and never grows from below 10 ms.
- Connections: a read of 0 bytes neither closes nor removes a connection, so a loop on it never
  ends; two threads of a sender that connect at once leak a connection nobody reads, on which the
  manager blocks; a partial read begins again at the start of the buffer.

*Links and transfers.*
- A `DataSenderManager` counts each destination it tried, whatever came of it, and system Fragments; a
  receiver thread counts data that came whole.  After any difference the thread ends only by
  the time-out after a stop, and that runs from the stop whatever still comes, where
  `DataReceiverManager.cc:264` says "Don't stop receiving until we haven't received anything for 1
  second".  A thread that ended between two senders of a run leaves the second one's data unread.
- TCP: a dead connection without a stop message keeps a new one from being read (`TCPSocketTransfer.cc:227`,
  `:321`); the read position survives a disconnect after bytes out of step (`:359`); a connection
  accepted while the last receiver goes away is closed (`:1147`).
- Bundles: a reliable send that fails drops the whole bundle, the destructor the last one.
  Multicast: a repeated datagram counts as a part.

*Applications and generators.*
- A stop after an exception in `getNext` waits for a thread that waits for the mutex it holds.
  A resume leaves `exception_`, and finds `running_` and `should_stop_` still set.  `do_stop` or
  `do_pause` that throw leave the state InRun, in which both commands published as legal are refused.
  `in_run_failure` outside Running ends the process, as does a direct command in Booted.
- Without broadcast mode a dispatcher locks `dispatcher_transfers_mutex_` twice.
- Children of a composite share its list of Fragments, and `getNext` checks the Fragment IDs of the whole
  list: a child after one that had data is taken off, where `CommandableFragmentGenerator.hh:187` says
  it is for the end of data.  A composite has to list the IDs of its children.  A child whose start
  fails leaves those before it started, and a resume starts no monitoring thread.

*art processes.*
- A logger whose Init message times out goes on without one and drops its data.  A process restarted
  in a run ends at the second Init message, against the comment at `ArtdaqInputHelper.hh:616`.  A
  monitor that is to see several runs ends at the end of a subrun or a second Init message, against
  `detail/TransferWrapper.hh:48`.  A sender that lags behind gets the wrong subrun in the logger.

*Not modelled, but seen.*
- `PortManager.cc:384` makes every multicast group "0.0.0.<offset>".

## Not modelled

- *Bytes*: formats of messages and Fragments, byte order, XML-RPC calls, configuration, addresses,
  host names and ports; set-up of sockets.
- *Event builder*: over-size Fragments, writes that go on while `endOfData` waits, the trimming
  of `released_events_` (`MaxEventList` is there; the runs do not reach it), and `AddFragment`, which
  only tests call.
- *Undefined behaviour of unlocked containers*: `dropped_data_` is a `std::list` changed by several
  threads; the model changes it atomically.
- *Board readers*: checks of the hardware from within `getNext`, rate limits, simulators.
- *Routing manager*: the length of the table interval, requests read in parts.
- *Plugins*: Autodetect (a choice of another one), Null (nothing), RTI DDS (generated code and an external
  library).
- *art modules* that only look at or filter events, `BinaryFileOutput`, and `RootDAQOutput-s81`, which is
  the code of `RootDAQOutput-s124` for another version of art.
- *Older and test code*: `FragmentReceiverManager`, `TransferTest`, `tools`, `proto` (but for the start of a
  process, which is in `Application`).
- Statistics, metrics and logging.

Composition stops at the parts: no run has an application, an event builder and a link in one.  The
products of their states are out of reach, and the interfaces between them are the actions the modules
leave to their surroundings (a stop, a token, a Fragment that comes or does not).

## Plan

Done, in this order: event builder with its refinement, its types and its theorems, without time-outs and with them; request buffer,
board, request path with their theorems; routing with its theorems; then the run of the event builder and the applications,
with theorems of both, policies and connections, modes of a board, links and transfers, art processes, composite generators,
with theorems of each but the connections.

1. Extend the model.
   - `EventTokens` with `Routing` through `AddReceiverToken`, over several runs.
   - `endOfData` against receiver threads that are still writing; trimming of `released_events_`;
     over-size Fragments.
   - Two pairs of board reader threads at once (`MaxGen` 2), on smaller kinds, for the liveness properties.
2. Prove more.
   - That `TransfersInv` of TCP gives safety of delivery per connection: what was written on a connection and not received is
     still on it.  It is one half of the argument for `FragmentsDelivered`, whose other half, fairness, stays with TLC.

## Running

    tlc -workers 2 -config EM_reliable.cfg MCSharedMemoryEventManager.tla
    tlc -workers 2 -config FB_modes.cfg MCRequestModes.tla
    tlc -workers 2 -config RP_runs.cfg RequestPath.tla
    tlc -workers 2 -config RT_routes.cfg Routing.tla
    tlc -workers 2 -config EV_runs.cfg EventBuilderRun.tla
    tlc -workers 2 -config AP_commands.cfg Dispatcher.tla
    tlc -workers 2 -config DP_parts.cfg MCDataPath.tla
    tlapm RequestPathProofs.tla

Operators marked *Mutant* in the modules are plausible errors of the code; replacing the definition
below each by it makes the property named in `PROJECT.json` fail, which shows that the property
can.
