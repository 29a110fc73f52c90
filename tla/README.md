# A TLA+ verification of general-tools

general-tools is a C++ and Python toolbox for robots. Its heart is `a17/dispatch`, a messaging
middleware: nodes find each other's topics by UDP multicast and talk over ZeroMQ sockets. Beside it
are `a17/utils` (a buffer pool, timers, devices, rate measurement) and `a17/maths`. This directory
models the parts whose correctness depends on the order in which things happen, and the integer
algorithms, checks them with TLC, and proves the main properties with TLAPS.

## The system and what is modelled

| part | source | modules | state of the work |
|---|---|---|---|
| buffer pool | `utils/buffer_pool.*` | `BufferPool`, abstract `FreeList` | modelled, proved |
| directory of topics | `dispatch/directory.*` | `Directory` | modelled, proved |
| client of a topic | `dispatch/client.*`, `subscriber.*` | `Client`, filters in `Socket` | topic clients, proved |
| request client | `dispatch/request_client.*` | `RequestClient` over `ReplyServer` | all but its destruction, proved |
| reply server | `dispatch/reply_server.*` | `ReplyServer` | modelled, proved |
| server | `dispatch/server.*` | in `Directory` and `ReplyServer` | construction and destruction only |
| socket, listener | `dispatch/socket.*`, `listener.*` | `Socket` | modelled, proved |
| message builders and readers | `dispatch/smart_*`, `message_helpers.*` | `SmartCapnpBuilder`, `Messages` | all but printing, proved |
| node | `dispatch/node.*` | `Node` | one loop at a time, proved |
| repeater, watchdog | `utils/repeater.*`, `watchdog.*` | `Repeater`, `Watchdog`, `NodeTimers` | modelled, proved |
| character device, serial port | `utils/character_device.*`, `serial_port.*` | `CharacterDevice`, `Devices` | modelled, proved |
| UDP socket of doubles | `utils/udp_socket.*` | `GenericUdp`, `Devices` | modelled, proved |
| rate measurement | `utils/rate_measure.*`, `nearest_interval_bin.*` | `RateMeasure`, `NearestIntervalBin` | modelled |
| polynomials, angles | `maths/polynomial.h`, `angle_*.cpp` | `Polynomial`, `Angles` | integer parts |
| Python dispatch | `dispatch/py/dispatch.py` | `IoLoop`, `RpcRequestClient`, `PyDispatch` | RPC client and directory, proved |

The C++ parts of one node share one `io_service`, which runs one handler at a time. A handler is
therefore one action of a model, with every call it makes. What interleaves is: handlers of different
nodes, packets, completions already queued on an event loop (`post`, an expired timer), and threads,
where a class is used by several: the pool, the destruction of a node, and `execute()` in Python.

## Modules

**`BufferPool`** has the members of the class as variables (`ptrs`, `head`, `tail`, `mutex`), a program
counter per thread, and who holds which buffer. `malloc()` takes no lock and is two steps (the test of
the ring, the read of the slot); `free()` is four (call, lock, store, advance and unlock). For the
threads in `Reordering` the two plain stores of `free()` may become visible in the other order.
`FreeList` is the abstract specification: a first-in first-out list of free buffers;
`ImplementsFreeList` maps the ring's window to the list. `CharacterDevice` and `SmartCapnpBuilder` use
a pool and rely on no more than `FreeList` promises.

**`Directory`** models several directories and the network between them. Each has its
`DirectoryTopicStore` (`local`, `names`, `entry`, `observers`), its query timer (`active` is
`queryTimerActive_`; `armed` and `fired` tell a pending wait from one whose handler is queued, which
`cancel()` no longer reaches; how long a wait takes, and the short one before a first search, are left
out, the interval is kept), the calls posted by `observe()`, and an inbox. A packet is a record; it
may be lost, duplicated or overtaken. `seen` records what each observer's handler was last told. A
restart is a new guid, as in the code. `reply()` multicasts, as in the code.

**`Client`** is the observer behind a `Subscriber` or a `PubClient`: the directory's map for one topic
(`offers`) and the connections (`addresses`). Its handler runs within the directory's own step.
`onDirectoryTopicsChanged()` erases from the set it iterates over; after the first erasure the model
lets the loop reach any subset of the other stale addresses, or crash.

**`ReplyServer`** has the server incarnations of one topic on REP sockets. A request handler may reply
at once, keep the sender and reply later or never, throw, or reply and then throw; a receive may fail,
and `failed` records the servers where one has.
**`RequestClient`** extends it with one client: `known` is the directory's map, ordered by the time
stamp given when a topic is learned (two learned in one millisecond are taken as ordered); `sent` is the
request the REQ socket awaits a reply to, `receiving` whether a receive is pending for it; `timer` and
`expired` are the pending and the queued timeout. A refused or failed `request()` has nevertheless
replaced the handler, as in the code.
**`TopicClients`** puts the two kinds of clients beside each other for TLC; a behaviour is about one.

**`SmartCapnpBuilder`** has several builders on one pool: their segments (`first`, `more`), the ones
Cap'n Proto was given (`arena`, which a move leaves behind), moves and destruction, and the layout of a
message's body in half words: segment table, padding, segments. **`Socket`** is the sending side with
its `error_code` and high water mark, ZeroMQ as a queue that loses whole messages, and the receiving
side part by part, with handlers and error handlers that throw. **`Messages`** composes the two: what a
builder of one node publishes, the `SmartMessageReader` of another reads. **`Flattening`** has the copying
loop of `buildSmartMessage()` as a recursive function, in which what a queue of buffers holds is stated too.

**`Node`** is the `io_service` with its queue of completions, the loop's thread, and the owner's thread
that starts, stops and destroys the node. **`Repeater`** and **`Watchdog`** put their timers on it: a
timer is a remaining time and a pending wait; an expiry becomes a completion in the queue, out of reach
of `cancel()`. **`NodeTimers`** composes them as `watchdog_test` does: handlers use the repeater, its own
operation too, and mark the watchdog; signals arrive; handlers throw.

**`CharacterDevice`** is the send queue of buffers over a serial port: messages are cut into pieces by
the loop of `send()`, writes are short, fail or take nothing of an empty piece. A byte is its message
and position, so that order and loss show. **`GenericUdp`** receives into one buffer and one `target_`.
**`Devices`** is both on one loop.

**`NearestIntervalBin`**, **`RateMeasure`**, **`Polynomial`** and **`Angles`** are sequential.
**`Computations`** runs each over all small inputs. Bins are scaled by 60 and angles are fractions of a
turn, so that arithmetic is exact; averages round as the code's integers do.

**`IoLoop`** is tornado's loop: callbacks added before an iteration, then timeouts, then one event per
socket. **`RpcRequestClient`** has the two client classes of `dispatch.py`: their handlers call each
other, so each is an operator from the state before the call to that after it, with the callbacks added
and whether an exception ended it. **`PyDispatch`** adds the `TopicMap` and `Directory` of the client's
node, packets that come at any time, and `execute()` as four steps of another thread.

External behaviour is taken from how the code uses it: asio timers (`cancel()` and `expires_from_now()`
abort only waits still pending), UDP, the send/receive alternation of REQ and REP sockets, ZeroMQ's
whole messages, Cap'n Proto's reader, and tornado's loop.

Definitions marked `variant` are plausible mistakes; replacing the definition they are named after by
one of them makes TLC report the property that guards it.

## Runs

| run | shows | states |
|---|---|---|
| `PoolShared` | 3 buffers, an allocating thread, 2 zmq threads: no buffer is lost, doubled or handed out twice; the ring implements `FreeList`, even when the allocating thread's own stores are reordered | 405,665 |
| `DirectorySafety` | a node that serves, moves, and goes or crashes, one that observes, loss, duplication, loopback, back-off 1-2-4: stores, timer flag and observers stay consistent, and a missing topic is searched for, a newly missing one at the first interval | 591,804 |
| `DirectoryFound` | liveness: an offered and observed topic is found in spite of losses | 4,661 |
| `DirectoryLocalRemove` | **violation**: after a node removes its own server nobody searches for another | |
| `TopicClients` | a client of 3 nodes sharing 3 addresses is connected to exactly what is offered; of a user that waits for each request, replies reach their request, the next can be sent, a request with a timeout ends (liveness), and no handler makes a server deaf | 485,769 |
| `RequestTimedOut` | **violation**: a queued timeout reports an answered request as timed out | |
| `Messages` | two builders on a pool of two, moves, a lossy ZeroMQ, throwing handlers: no buffer has two users, leaks come from moves only, a subscriber reads what was built, parts of messages do not mix, the inbox drains (liveness) | 537,732 |
| `MessagesPositions` | **violation**: `bufferAt(1)` is not the struct, as its comment says, but the first raw buffer | |
| `NodeTimers` | a running repeater is armed, its runs keep apart, the watchdog barks only when late, and once marked it does when the marks stop, `~Node` returns (liveness) | 211,427 |
| `Devices` | bytes leave in order and once, buffers are accounted for, both devices keep listening, answers go to the sender, the queue drains (liveness) | 67,732 |
| `Computations` | windows and nearest bins, derivatives and reversal, unrolled angles, against reference definitions | 17,633 |
| `PyDispatch` | an `execute()` with its timeout, replies and servers that come, move and go: one outcome, in time (liveness), at most one request sent, a missing topic searched for | 309,379 |

The violations are disagreements between the code and its own docs and comments; `PROJECT.json` quotes
each line.

**Bounds.** Three buffers let the ring wrap with some held, some in `free()` and some free. Two nodes
suffice for what one directory can do to another; one topic and one observer keep the state small, and
the theorems lift the bound. `InboxSize` bounds the packets under way (a packet that finds no room is
dropped, as by a UDP socket); two let one overtake another. `QueryIntervalMax` is 1 where the interval
does not matter, 4 in `DirectorySafety`; `SearchGroup` is the code's 4. `Serving` and `Observing` bound
which nodes open servers and clients; a node that restarts is a second serving guid, for which
there are the theorems. Three requests let a late reply meet the next request and the one
after; two server incarnations are one restart; any receive may fail. `MaxStaged` bounds the receives
that pile up when handlers reply and throw. In `Messages` five calls of builders make, fill, grow, move
and destroy one; two messages can mix; the pool of two runs dry. In `NodeTimers` lateness is capped at
the longest interval, above which the code does the same, and time since a run with it; one posted
handler meets every state of the timers. In `Devices` buffers have two bytes and messages three, so that
a message takes two buffers, and the mark falls between them. `Computations` takes six samples from
simultaneous to longer than the window, polynomials up to order 3 with four coefficients, and angles of
a twelfth of a turn. In `PyDispatch` four packets of two servers let one move, go and come back;
`IntervalMax` is 3, so that the doubling passes it.

**Deadlock.** A system of nodes that have all gone, a client with no requests left, a finished
`execute()`, or the end of the bounded calls may stop: those runs do not check deadlock. The pool and the
devices must always go on, and their runs check it.

**Fairness.** `DirectoryFound`: the event loops run (weak fairness of the timer), and of infinitely many
searches, or answers, the network delivers some (strong fairness of receiving each kind). Without the
second, UDP may lose everything. `TopicClients`: time passes and the client's event loop runs; nothing is
assumed of servers, replies or the directory. `Messages`: ZeroMQ's thread goes on, delivering or losing,
and the subscriber's loop handles what arrives. `NodeTimers`: time passes, the loop runs and notices
timers, and the destructor's wait ends when it can; nothing is assumed of users, and nothing requires
handlers to be called in time. `Devices`: writes complete or fail, and the loop goes on. `PyDispatch`: the
caller's thread, once in `execute()`, and the loop go on, and timeouts expire; no packet and no reply
need come.

## What the models show of the code

These follow from the models, or were met while writing them, and have no run of their own.

Pool and directory:
- With another thread's stores reordered `malloc()` can read a slot that is not yet written: the two
  stores of `free()` are plain and `malloc()` takes no lock. (Put a zmq thread into `Reordering`.)
- `remaining()` returns `bufferCount + 1` for an empty ring.
- A failed `async_send_to` of the directory never returns its buffer to the pool.
- The call posted by `observe()` still runs after `unobserve()`, though `topic_map_test.cpp:202` expects
  otherwise. For an observer of all topics (`""`) it finds no topic of that name, so such an observer is
  not told of the topics already known; and `""` counts as missing for ever, so the timer never stops.
- Only topics of which no offer is known are searched for: a second server whose announcement was lost
  is not found, and the offers of a node that crashed stay.

Clients and servers:
- `Client::disconnect()` goes on using a reference to the element it has erased, and its caller an
  iterator to it. The model has the crash as an outcome, so no property of it can rule it out.
- A `request()` that is refused replaces the reply handler of the one that waits.
- A request without a timeout whose connection goes away, or whose receive fails, leaves
  `waiting_for_receive_` set for ever.
- A receive that fails is not repeated: a reply server is deaf from then on, unless it owes a reply that
  is still to come, or an earlier handler that replied and threw has left it a second receive.
  `ServerListens` says that nothing else makes it deaf.

Messages:
- The move constructor of `SmartCapnpBuilder` marks the new object invalidated, not the old one: the
  segments it takes over are never freed. `LeaksOnlyByMove` says that nothing else leaks.
- `Socket::send()` with an `error_code` that is already set sends nothing.
- Empty raw parts are dropped on receipt, which shifts the positions of `bufferAt()`.
- A subscriber goes deaf after a receive error, or when its error handler throws, also if its node is
  started again.

Timers and node:
- After its operation throws, a repeater stays `is_running_` with nothing armed, and `start()` does
  nothing: only `stop()` and `start()` revive it.
- `setInterval()` or a restart from within the operation makes the next interval twice as long. An expiry
  that was queued when the repeater was restarted runs in addition to the new wait.
- `Watchdog`'s constructor sets a deadline but does not wait for it: a watchdog that is never marked never
  calls its callback, though `watchdog.h:13` says "If the mark() function is not called within the given
  timeout, then the callback will be called." `WatchdogStopsNode` is about one that has been marked.
- The modelled callback of the watchdog stops the node, as that of `watchdog_test` does, so a second
  callback is not reached.
- A node cannot be run again after `stop()`; handlers queued on objects that are destroyed dangle.

Devices:
- After a failed write nothing is written again and the queue stays. A message that meets the high water
  mark half way is cut. `send()` on a port that failed to open dereferences a null pointer.
- `GenericUdp` sends as many bytes as the vector has elements, and `connected()` is true after a receive
  that failed.

Computations:
- `RateMeasure::reset()` keeps the samples of the window, so averages after it mix both. `isAtWindow()`
  divides by zero when the window is not itself a bin and the target was rounded up above it
  (`WindowAssumption`).
- The search for the nearest bin, on reaching an end of the table, reads the element beyond it
  (`nearest_interval_bin.cpp:90` and `:96`) before its loop tests the index. The value is not used; the
  model tests first.

Python:
- A handler that runs before `execute()` has assigned `_request_client` fails with an `AttributeError`; the
  future may then never be done. Nor is it when a reply is malformed, which is only logged.
- When the newest of two servers goes, the client stays with it. `unobserve()` leaves an empty entry, so
  the topic is searched for ever. The broadcast interval may exceed its maximum by less than a factor
  of two.

## Proofs

| module | theorems, for every value of the constants |
|---|---|
| `BufferPoolProofs` | `TypeOK`, `HandoutIsFresh`, `BuffersAccounted`, `RemainingIsExact` and the refinement `ImplementsFreeList`, if at most the allocating thread's stores are reordered (`OwnReordering`) |
| `DirectoryProofs` | `TypeOK`, `OwnTopicsAgree`, `NamesHaveOffers`, `TimerLive`, `MissingIsSearched`, `ObserversInformed`, `NewlyMissingSearchedAtOnce` |
| `NodeProofs`, clients | `ClientTypeOK`, `OffersAreConnected`, `StaleAreDisconnected`, `OfferedStaysConnected` of `Client`; `RequestTypeOK`, `NextRequestCanBeSent` of `RequestClient`, `ServerListens` of its servers, and `RepliesReachTheirRequest` if the user waits for each request |
| `NodeProofs`, timers | `TypeOK`, `RunningIsArmed`, `RunsKeepApart`, `GoneIsQuiet`, `BarksOnlyWhenLate` |
| `MessagesProofs` | `BuffersExclusive`, `LeaksOnlyByMove` |
| `ReceivingProofs` | `ReadsWhatWasBuilt`, `PartsDoNotMix` |
| `DevicesProofs` | `TypeOK`, `AlwaysListening`, `AnswersTheSender`, `SendBuffersAccounted`, `WireInOrder` |
| `PyDispatchProofs` | `TypeOK`, `LateTimeoutImpossible`, `MissingSearched`, `OneOutcome`, `SentAtMostOnce` |

`SequenceLemmas` has what the last five share. The library's induction theorems take an operator, which
the provers cannot instantiate; `SetInduction` says the same of a set of numbers, derived from the fact
that `<` is well founded, and with it the module proves that a recursion over `0..n` has the value its
equation gives (`RecursionExists`, `FlattenTrace`), and so what `Flatten` does to a sequence that is
appended to, cut or concatenated. How often something is in a queue is the length of a `Flatten`
(`Count`), so the counting arguments follow from the same lemmas.

The theorems rest on the named assumptions about the constants only (`PoolAssumption`,
`DirectoryAssumption`, `ClientAssumption`, `ServerAssumption`, `RequestAssumption`, `BuilderAssumption`,
`MessagesAssumption`, `RepeaterAssumption`, `WatchdogAssumption`, `CallsAssumption`, `DeviceAssumption`,
`UdpAssumption`, `PyAssumption`), which TLC evaluates in the runs.

*Pool.* The invariant adds to the types who may hold the mutex and be where in `free()`, and where every
buffer is. Buffers do not collide because the ring has one slot more than buffers: a pigeonhole lemma
(`NotFull`) shows that while a thread is inside `free()` the window does not fill the ring, so the slot
at `tail` is outside it and the store hits nothing in use. That the ring implements `FreeList` follows slot
by slot (`RingFacts`): advancing `head` drops the first buffer of the list (`QueueTaken`), advancing `tail`
appends one (`QueueAppended`), and every other step leaves the list as it is (`QueueKept`).

*Directory.* The invariant adds that references of observers are unique, that what an observer was told
is kept equal to the entry by each of add, remove and evict (`StoreAddEffect`, `StoreEraseEffect`,
`ToldByStore`), and that a timer with nothing pending implies nothing missing on a node without servers.
The last is what fails on a node that removes its own server (`DirectoryLocalRemove`).

*Client.* When one node's offer changes, at most the address it had before is stale
(`OneOfferChanges`); hence the loop, reliable for one erasure only, removes all there is to remove.

*Request client.* `ServerListens` is inductive once a failed receive is recorded: every outcome of a
handler that ends what the server owes stages a receive. The invariant adds that a server owing a reply
has room for the receive it will stage and, for a user that waits, that the handler belongs to the
request the socket awaits.

*Node, repeater, watchdog.* That the watchdog barks only when late is a matter of counting: every
timeout that has passed unanswered is either still in the timer or one callback in the queue
(`WatchdogInv`), so a callback that runs has a timeout to answer. This needs that the pending timer
tells the time since the last `mark()` exactly. For the repeater, whatever a user calls on one that runs
leaves a wait pending or changes nothing (`CallsArm`), and `repeat()` waits again or stops
(`RepeatArms`). Its runs keep apart because the time since the last run and the time left of the wait
are together at least half an interval (`SpacedInv`): a start and a new interval wait for a whole one,
and `repeat()` counts from the old deadline only if that was missed by at most half an interval, so at
least half of one is left (`RepeatSpaces`).

*Messages.* `BufferInv` says where each buffer is: free, a segment of one builder's arena, or carried by
one message on its way. A builder that will free its segments has no segment in its members that is not
in its arena, so a destructor frees nothing of another's; the move constructor leaves the arena behind,
and from then on only the arena is accounted for. As long as no builder was moved members and arena
agree, and every buffer has a place, which is `LeaksOnlyByMove`. `MessageInv` says where each message
is: the pipe holds what was sent last, in order, and what has arrived and not been taken is the rest of
one message followed by whole ones, while `received_message_` has the parts before that rest, less the
empty ones (`Arriving`). A part that is taken moves the boundary by one; when it was the last one the
listener hands over exactly the parts of one message. That the handler then reads what the builder had
is `ReadsBack`: `segmentsOf` finds in the body's table the lengths that `body()` wrote, with and without
padding, and cuts the words that follow into the segments they came from, for any number and lengths of
segments.

*Devices.* One write at most is under way, and only while the queue is not empty (`QueueInv`); so a
completion always concerns the front buffer, and each buffer of the pool is counted once over the free
list and the queue. The one receive of the UDP socket cannot overwrite `target_` while a completion waits,
because receive, completion and recovery timer are together one (`UdpInv`). That bytes leave in order and
once (`WireInOrder`) is two facts: what the port has taken, followed by what is unsent of the queue, is what
`send()` accepted (`WireInv`), whatever part of the front buffer a write takes; and what was accepted are
beginnings of messages, one after another (`CopyInv`), because a message that the high water mark cuts is
not continued: the mark stays exceeded until `send()` returns.

*Python.* `Good` says what holds of the client between handlers: it is closed exactly when its future can
have no further outcome, and a closed client neither receives nor has a timeout. Every handler, with the
handlers it calls, leads from a good client to a good one and leaves a done future alone (`Keeps`, one
lemma per handler). A topic cannot go missing without a search: with no topic left
`topic_map_updated()` only posts a callback, so it cannot fail on the way to `query_poll()`
(`UpdatedKeeps`); and a client that has observed leaves an entry behind. At most one request is sent because
requests sent, requests posted, connections posted and connections under way are together no more than
the one connection an open client has made (`OnceInv`); a handler of a closed client makes none.

Only model-checked: the liveness properties `ObservedTopicIsFound`, `WaitingEnds`, `InboxDrains`,
`WatchdogStopsNode`, `DestructorReturns`, `QueueDrains` and `TimeoutEnds` (fairness and `ENABLED` are
outside what the prover handles), and what `Computations` checks: the nearest bin goes through tables of
powers of ten and of two, the polynomials and the sums of a window are folds of operators, and the
angles need remainders by a modulus that is a parameter; none of this is in the reach of the provers'
arithmetic without a theory of its own, and TLC covers it over all small inputs.

## Not modelled

- *Addresses, socket types, topic names* (`dispatch/address.*` and others): text. `Directory` keeps the
  one decision taken on it (`OffNetwork`).
- *Server ports and clients of fixed addresses*: the choice of a port and its retry are I/O.
- *Destruction of a request client*, and of anything with a handler queued: undefined behaviour, after
  which every state is possible. `NodeGemini`, and a second `Node::start()` while the loop runs, which runs
  two loops on objects made for one.
- *Moving sockets and devices*: the moved object loses its handlers and queue.
- *Handlers of devices that throw*: those of sockets, timers and the node are modelled. A handler of a
  device that throws has not started the next receive, so the device would be deaf afterwards.
- *The rest of `dispatch.py`*: publishers, subscribers, reply server, services and repeater forward to
  ZeroMQ and tornado; `Node.stop()` queues a message on a loop that it stops. *The tornado bridge*: a web
  handler around `RpcRequestClient`, whose outcomes `PyDispatch` has.
- *PID, quaternions, rotations, roots of polynomials*: floating point, which neither TLC nor TLAPS treats.
- *Capnp schemas, logging, build files, `third_party/`*: no behaviour of this code.
- *One composition of everything*: `Client` over `Directory`, and `Messages` over `BufferPool`, would
  multiply state spaces; the interfaces are stated instead (the map told to observers by
  `ObserversInformed`, the free list by `ImplementsFreeList`).
