# Specifications of the chat server

TLA+ models, TLC runs and TLAPS proofs kept beside the code of
high_performance_chatserver: a chat server in the reactor style (one accept
loop, four I/O loops), which keeps users, friends, groups and offline messages
in MySQL and passes messages between server processes through Redis, and a
console client. File names below are relative to `src/`.

- [The system](#the-system)
- [What is modelled, where](#what-is-modelled-where)
- [Properties and runs](#properties-and-runs)
- [Bounds](#bounds), [Fairness](#fairness)
- [Proofs](#proofs)
- [Findings](#findings)
- [What is not modelled](#what-is-not-modelled)
- [Plan](#plan)

To check a run: `tlc -config <run>.cfg <module>.tla`; to check proofs:
`tlapm <module>Proofs.tla`.

## The system

| Component | State | Operations | Talks to |
|---|---|---|---|
| `ChatService` (chatservice.cpp) | `UserConnMap` (user → connection) under `ConnMutex`; the Redis contexts | `login`, `loginout`, `reg`, `oneChat`, `addFriend`, `createGroup`, `addGroup`, `groupChat`, `clientCloseException`, `reset`, `handleRedisSubscribeMessage` | the models, Redis, `TcpConnection::send` |
| Models (model/) | MySQL tables user, friend, allgroup, groupuser, offlinemessage | one SQL statement per call, results mostly ignored | `Connectionpool` |
| `Redis` (utils/redis.cpp) | `PublishContext`, `SubcribeContext` | `publish`, `subscribe`, `unsubscribe`, the observer thread | Redis broker, `ChatService` (callback) |
| `Connectionpool` (mysql/) | `connectionQueue`, `connectionCnt` under `queueLocker`; `cv` | `getConnection` (timed wait), the deleter of its `shared_ptr`, the producer and the scanner thread | MySQL |
| `EventLoop` (webserver/) | `PendingFunctors` under `Mutex`, `Quit`, the eventfd | `loop`, `quit`, `RunInloop`, `QueueInloop`, `Wakeup`, `HandleRead`, `DoPendingFunctors` | `Poller`, functors of every other component |
| `Poller`, `Channel` | epoll set, `ChannelMap`, interest masks | `poll`, `AddChannel`, `UpdateChannel`, `RemoveChannel`, `HandleEvent` | epoll, callbacks |
| `TcpConnection`, `TcpServer`, `Acceptor` | connection state, `InputBuffer`, `OutputBuffer`; `Connections` | accept, `connectEstablished`, `handleRead`, `handleWrite`, `send`, `shutdown`, `handleClose`, `connectDestroyed` | base loop ↔ I/O loops (functors), `ChatServer` (callbacks) |
| `Buffer` | a vector with two indices | `append`, `readFd`, `writeFd`, `retrieve…`, `makeSpace` | sockets |
| `EventLoopThread(Pool)`, `Thread` | `Loop` under `Mutex`/`Cond`; `Loops`, `Next` | `StartLoop`, destructor, `getNextLoop` | `EventLoop` |
| `ChatServer` (chatserver.cpp) | none | `onConnection`, `onMessage`: one read is parsed as one request | `TcpServer`, `ChatService` |
| Client (client.cpp) | `rwsem`, `g_isLoginSuccess`, the current user and his lists | main thread: menus and requests; reading thread: answers and chat messages | `ChatServer` over TCP |

What is hard here, and what each component has to get right:

- **Presence.** A login, a logout and a lost connection each update the map, the
  channel subscription and the user table in separate steps, on four loops, in
  several processes. A user has one session; the three agree when nobody is at
  work; a route never leads to somebody else's connection.
- **Routing.** Each of three paths (local connection, Redis, offline table) reads a
  state that may be stale when it is used, and `SUBSCRIBE` is asynchronous. No
  message has two outcomes, every message gets one, and who stays signed in gets his.
- **The pool.** A condition variable for three kinds of waiter, a timeout, a
  deleter that notifies nobody, a scanner that deletes. No connection is shared,
  the count is right, every call ends.
- **The loop.** Functors are queued while it polls, swaps or runs. None is lost,
  run twice or overtaken, and it does not sleep on one.
- **I/O threads.** A thread publishes a pointer to the loop in its own frame, and
  others use it while the loop may end, and after. Start and join return, and until
  somebody tells the loop to quit the pointer is good.
- **Connections.** A connection is accepted on one loop, lives on another, and is
  forgotten over both; other threads find it in `UserConnMap` and send to it
  through a raw pointer. Nothing points to a destroyed connection, output goes out
  one text after the other, a lost connection is closed once, nothing of it stays,
  and no order of events ends the process.
- **Tables.** A request is several statements on borrowed connections, and ids come
  in a second call. Ids are one's own, a group has its creator, every connection
  goes back with nothing unread.
- **The buffer.** Index arithmetic and a scattered read. It is a queue of bytes.
- **Framing and the client.** No framing on TCP, one semaphore for two kinds of
  answer. Each answer wakes its own request, and each request is answered.

The code at this commit does not build (`new Poller(this)` at
webserver/EventLoop.cpp:21 and `Thread(...)` at webserver/EventLoopThread.cpp:5
name what is not there, a `std::string` is passed to `%s` at
model/UserModel.cpp:9 and model/OfflineMessageModel.cpp:7), and `Poller` never
dispatches and ends the process at the second change of a mask (see the event loop
and the connections below). The models take each statement for what it
says, and start each component at its own entry points.

## What is modelled, where

### ChatService.tla, Delivery.tla

A thread is a connection (its handlers run one at a time on its I/O loop) or a
server (its observer thread). `pc[t]` says between which two calls of its handler
a thread is, `user`, `msg`, `todo` are the handler's locals. One action is one
critical section under `ConnMutex`, one SQL statement or one Redis command:

| Code | Actions |
|---|---|
| `login` 37-102 | `LoginQuery`, `LoginInsert`, `LoginSubscribe`, `LoginSetOnline`, `LoginAck` |
| `loginout` 113-125 | `Logout`, `Unsubscribe`, `SetOffline` |
| `handleClose` / `clientCloseException` 149-166 | `Close`, `CloseErase`, `Unsubscribe`, `SetOffline` |
| `oneChat` 172-188 | `OneChat`, `ChatQuery`, `ChatPublish`, `ChatStore` |
| `groupChat` 212-232 | `GroupQueryUsers`, `GroupLock`, `GroupMember`, `GroupQuery`, `GroupPublish`, `GroupStore`, `GroupUnlock` |
| `handleRedisSubscribeMessage` 234-243 | `Notify`, `NotifyStore` |
| Redis broker | `cmds[s]` written by `subscribe`/`unsubscribe`, executed by `BrokerExecute`; `inbox[s]` |
| `resetHandler` (server.cpp:7-10), a new process | `Restart` |

Calls may fail (`Fails`, bounded by `MaxFaults`); the handlers go on, as the code
does. `SerialLogins` restricts the clients: no login of a user begins while
another login of his is being worked on. `received`, `lost` and `posted` are
history: `received` counts a message when it is handed to the `send` of an open
connection, which is where the responsibility of this component ends.

`Delivery` is the promise: a message for a user goes from none over pending to
received, stored or lost, and stays there. `ImplementsDelivery` maps the state of
`ChatService` to it by `Fate`; a second copy of a message would be the fate
"duplicated", which `Delivery` does not have.

### Connectionpool.tla

One action per stretch of code between two releases of `queueLocker`. `pc[t]` is
the caller's place in `getConnection` (idle, waiting, woken but not yet holding
the lock, timed out), `held[t]` the connection whose `shared_ptr` it has.
`Spurious` wakes a waiter without notice; `Expire` and `LastLook` are the timeout
and the test of the queue after it; `Produce`, `ProducerWait` the producer, `Scan`
a round of the scanner, for which any prefix of the queue may be old enough
(the age is processor time, from `clock()`). `undefined` records a
`front()` of an empty queue.

`OnlyCrowdsWait` is a property of steps: a call begins to wait, or ends with
`nullptr`, only while at least `initSize` connections are lent to others. It is
what makes the deployed pool (`initSize` is 10 in mysql.cnf, for four loops and the observer) never
wait, although the deleter notifies nobody.

### EventLoop.tla, Executor.tla

`QueueInloop`, `quit` and `Wakeup` are the other threads; a thread is between the
push and the write of the eventfd while `pc[t] = "wakeup"`. The loop's own thread
goes through `Enter`, `Check`, `Poll`, `HandleRead`, `Swap`, `Run`, `EndRun`. A
functor may queue another (`Then`) or call `quit` (`Quitters`).

`Reported` says whether `poll` reports the wakeup channel. At this commit it does
not: `Poller::UpdateChannel` never enters a channel in `ChannelMap`, so `poll`
(webserver/Poller.cpp:34-40) finds none, dispatches nothing, and the eventfd is
never drained. `HandleRead` is written and bound (webserver/EventLoop.cpp:26,
86-89), so the loop's own logic is taken with both values: the theorems hold for
either; `loop_thread`, and with it every liveness property, takes TRUE.

`Executor` is a queue whose head is run next; the mapping is
`queue <- functors \o PendingFunctors`.

### LoopThread.tla

Extends EventLoop with the thread around it. `Loop_` is the member `Loop` not being
`NULL`; the steps of the loop and of those who queue functors are EventLoop's own,
with the conditions the thread adds:

| Code | Actions |
|---|---|
| `StartLoop` 15-27, `Thread::start` | `start`, `AwaitLoop`, `Spurious` |
| `threadFunc` 29-41, `~EventLoop` | `Publish`, `RunLoop`, `Leave`, `EndLoop` |
| callers of `QueueInloop`, at any time | `Submit`, `Wake` |
| `~EventLoopThread` 7-13 | `Destroy`, `QuitLoop`, `join` |

`quit` and `QueueInloop` have two halves, the change and the write of the eventfd. The
loop may see the change, end, and close the eventfd between them; the write then
fails, and `Wake` ends the process, as `Wakeup` does. The destructor of the loop
(`EndLoop`) is a step after the pointer is set to NULL (`Leave`). Nothing in
`QueueInloop` asks whether the loop is there: `Submit` may happen while the owner
destroys the object and afterwards, and then ends the process or is lost, as the
memory of the loop is no longer its own. `Modifies` is the constant of TcpServer.

### TcpServer.tla

TcpServer, TcpConnection, Channel, Poller and the round robin of the thread pool,
with what ChatServer and ChatService do to connections. There is a base loop, some
I/O loops and the observer thread. `queue[l]` is a loop's functors (an Executor, as
LoopThread shows), `step[l]` where it is between two steps others can come in.

| Code | Actions |
|---|---|
| `Acceptor::handleRead`, `newConnection`, `getNextLoop` | `NewConnection`, `FollowingLoop` |
| `connectEstablished`, `sendInLoop`, `connectDestroyed` as functors | `Run` |
| `removeConnection`, `removeConnectionInLoop` | `EndClose`, `RemoveConnectionInLoop` |
| `Poller::poll`, `UpdateChannel`, `RemoveChannel` | `Poll`, `UpdateChannel`, `connectDestroyed` |
| `Channel::HandleEvent` | `HandleHangup`, `handleError`, `handleRead`, `SkipRead`, `handleWrite` |
| `handleClose` | `BeginClose`, `EndClose` |
| `send`, `sendInLoop` | `sendInLoop`, `WriteNow`, `BufferOutput`, `Push` |
| `ChatServer::onMessage`, ChatService under `ConnMutex` | `onMessage`, `Push`, `Observe`, `EndClose` |
| the peer and the kernel's socket | `Request`, `PeerCloses`, `PeerResets`, `PeerReads` |

`Mapped` and `Modifies` say what `Poller` does. At this commit both are false: no
channel enters `ChannelMap`, so nothing is reported, and `UpdateChannel` adds a
descriptor that is there already, which ends the process. The model has
both branches; the runs take the values that `poll` and the message "epoll mod
error" presuppose, because only then is there a life of a connection to check.

`UserConnMap[u]` is the connection in the user's entry. A login that is granted enters
its connection unless there is an entry, a sign-out erases the entry of the user it
names, whosever it is, and `clientCloseException` erases the first entry that holds the
connection, and no other (`EraseOne`). A request that does not parse ends the process
(`process = "terminate"`); a request may be answered without an entry, as a
registration and a refused login are.

A connection lives as long as a `shared_ptr` to it is somewhere (`Alive`):
`Connections`, `UserConnMap`, a functor bound with it, the handler that is running. A
`sendInLoop` is bound with the raw `this` and does not count. A text is two parts so
that a write can take half of it; `Capacity` is the socket's send buffer. The functor of
a send from another thread has a pointer to bytes that are freed before it runs
(webserver/TcpConnection.cpp:34): when it runs, the text's bytes are its own or not
("own", "freed"), its length is what it was.

### Contacts.tla

`reg`, `addFriend`, `createGroup`, `addGroup`, the lists `login` reads and the
recipients `groupChat` looks up, over the tables `user`, `allgroup`, `friend` and
`groupuser`. A handler is on a thread of an I/O loop; a statement is on a connection
the pool lends. A connection has the id of its last inserted row and possibly rows
that nobody has fetched, since `Connection::query` uses `mysql_use_result`.

| Code | Actions |
|---|---|
| `reg`, `UserModel::insert` | `InsertUser`, `RegAck` |
| `addFriend`, `FriendModel::insert` | `InsertFriend` |
| `createGroup`, `GroupModel::createGroup`, `addGroup` | `InsertGroup`, `GroupId`, `InsertGroupUser` |
| `UserModel::query`, `FriendModel::query` in `login` | `Query`, `FetchUser`, `FetchFriends` |
| `GroupModel::queryGroups` | `Query`, `FetchGroups`, `QueryMembers`, `FetchMembers` |
| `GroupModel::queryGroupUsers` in `groupChat` | `Query`, `FetchRecipients` |

A statement may fail (`Fails`); handlers go on, or skip what depends on it, as in the code.

### Buffer.tla, ByteQueue.tla

The object is a record of size, cells and the two indices; every method of
webserver/Buffer.h is an operator of the same name on it, and the actions are the
four uses made of them: `append` (from `sendInLoop`), `readFd`,
`retrieveAllAsString` (from `onMessage`), and `writeFd` with the `retrieve` that
follows it in `handleWrite`. `retrieveAsString` with part of the bytes is
`Front`. `ByteQueue` is a queue of bytes; the mapping is
`bytes <- Contents(buf)`.

### Client.tla

The client's two threads, a stream in each direction as a sequence of messages,
and the server's `onMessage`. A read returns one message; several when `Joins`;
a part of one when `Splits` (a fragment, or an answer of more than 1024 bytes).
The client ends a request with a null byte and `json::parse` stops there, so of
several requests in one read the first is handled and the rest is gone; several
answers in one read, or a part of a message, do not parse, and the exception ends
the process. `routes` are the users whose entry of `UserConnMap` is this
connection, `others` those whose entry is another client's; other clients sign in and
out as anybody (`OtherLogin`, `OtherLoginout`), `insert` keeps an entry that is there
(`InsertEntry`), and a sign-out erases by user (`EraseEntry`). The login of `ChatService` appears with its beginning
(`OnMessage`) and its ack (`LoginDone`), so that a message may come in between.
`dropped` and `contested` are history: a read returned several requests; another client
held or erased the entry of these users.

## Properties and runs

`MC*.tla` give the constants their values.

| Run | Module | Checks |
|---|---|---|
| `chat_presence` | ChatService | three connections, two servers, logins of one user one at a time: `SingleSession`, `OnlineMeansConnected`, `PresenceAgrees`, `SubscriptionsFollowRoutes`, `NoLossOnceSignedIn` |
| `chat_faults` | ChatService | logins that overlap freely, a failing call and a restart anywhere: `RoutesMatchSessions`, `LockMatchesSteps`, `ImplementsDelivery` |
| `chat_fair` | ChatService | `MessagesSettle`, `HandlersFinish`, `ReachesWhoStays` |
| `pool_busy` | Connectionpool | more threads than connections: `NoSharing`, `Accounting`, `ProducerAwake`, `OnlyCrowdsWait`, `CallsReturn` |
| `loop_thread` | LoopThread | a loop from `StartLoop` to the destructor, two threads queueing: `NoSleepOnWork`, `ImplementsExecutor`, `QueuedIsRun`, `StartLoopReturns`, `DestructorReturns`, `EndsOnlyOnceTold` |
| `tcp_server` | TcpServer | two connections on two loops, two users, hang-ups and resets: `NoDangling`, `InOrder`, `CloseOnce`, `EndsForAReason`, `ClosedAreDestroyed`, `OutputDrains`, `TypeOK` |
| `contacts` | Contacts | two threads, two connections, a failing statement: `OwnId`, `CreatorEntered`, `InSync`, `RequestsEnd` |
| `buffer_small` | Buffer | `ImplementsByteQueue`, `GrowsOnlyWhenFull`, `TypeOK` |
| `client_stream` | Client | reads that join and split, other clients of the same users: `QuietMeansOffline`, `AnswersPaired`, `MenuMeansRoute`, `LoginReturnsOrWasDropped` |
| `chat_double_login`, `chat_restart`, `client_joined` | | find the counterexamples listed under Findings |

Type invariants that are proved are not run again, but for that of Buffer, which says
where the indices are, and that of TcpServer.

`SingleSession` and `OnlineMeansConnected` hold in `chat_presence` and fail in
`chat_double_login` and `chat_restart`: the first needs clients that do not log in
twice at a time, the second a server that does not stop. `LoginReturns` fails in
`client_joined`, where reads may join; `LoginReturnsOrWasDropped` says in
`client_stream` that nothing but such a read, or the end of the connection, keeps the
main thread in `sem_wait`.

The properties name their own exceptions, which the code has. Of TcpServer, even over a
`Poller` as it is meant to be: after a reset, or with both directions down, the close
callback may run twice (`CloseOnce`) and the process may end (`EndsForAReason`); a
connection that had to buffer output may become deaf, and one that two entries held
keeps one (`ClosedAreDestroyed`); a text from another thread may lose its bytes
(`InOrder`). Of LoopThread: once the loop has been told to quit, those who still have
the pointer may end the process (`EndsOnlyOnceTold`), and a quit before `loop()` is
forgotten (`DestructorReturns`). Of Client: another client may hold or erase the user's
entry (`MenuMeansRoute`). Each property says that nothing else goes wrong.

Every run switches deadlock checking off because each of these systems may
stop: all connections are closed and all messages sent, all calls of the bounds
are made, the loop has quit, the client has exited.

Each property has a mutant of the code that breaks it (`PROJECT.json`); the
mutated actions stand before the action they replace, marked "Mutant".

## Bounds

- **Users, connections, servers.** Two users and three connections on two servers
  are enough for a user to move between servers, for two connections to compete for
  one user, and for one connection to serve two users in turn. A thread per
  connection is what the server has for up to four connections on it.
- **`MaxCmds`** bounds the commands on their way to Redis. It is at least one, so that
  a command may be outstanding in every state; two where a command of one user may
  wait behind another's.
- **`Msgs`**: one message where outcomes are counted: messages are routed
  independently of each other. `MaxFaults`, `MaxRestarts`: one of each shows every
  single failure point.
- **Pool**: three threads compete for one to three connections with four addresses, so
  that an address may be used again after a deletion; eight calls let each thread borrow
  at least twice. `MaxScans` is small because a round of the scanner takes a minute and
  a wait a tenth of a second.
- **Loop and its thread**: two threads, one of which owns the thread and destroys it;
  four functors, of which one queues another and one makes the loop quit.
- **TcpServer**: two connections, one on each loop, are enough for a send from one's
  own loop, from the other loop and from the observer; two users, for two entries with
  one connection; a send buffer of one part is
  full after half a text, so that every `write` may be partial; two texts for the
  order, two requests, one lost connection, and two hang-ups of it
  (`MaxCloses`) for the second `handleClose`. A thread that holds `ConnMutex` to send
  has its text kept back from the bound (`Room`). A loop
  polls and runs functors in any alternation, which includes the strict one of the code.
- **Contacts**: two threads and two connections, so that ids and results can be mixed
  up; three requests, for one to create what the next joins and lists; one failing
  statement anywhere.
- **Buffer**: a prepend area of one byte, two writable bytes at the start
  (`kInitialSize`), an extrabuf of two bytes, up to three bytes per operation: every branch of `makeSpace` and `readFd` is
  taken at, below and above its boundary, and the vector grows several times.
- **Client**: two users take turns; up to three unread requests and two pushed messages.

## Fairness

- `chat_fair`: a handler that has begun goes on (the I/O loop runs it; MySQL and Redis
  answer), the broker executes commands, the observer reads. What a client or a network
  may do, or not do, is not fair.
- `pool_busy`: a woken or timed out caller gets the lock, a timeout expires, the
  producer runs, and a borrowed connection is returned, since a statement ends. The
  scanner is not fair.
- `loop_thread`: the loop's thread runs and `epoll_wait` returns, after
  `TIMEOUT` at the latest; a thread in the middle of `QueueInloop`, `quit`, `StartLoop` or
  the destructor goes on. Nobody is obliged to destroy the object.
- `tcp_server`: each loop goes on, in the middle of a send too (weak fairness), and runs
  its functors again and again however many events there are, since every round ends with `DoPendingFunctors`
  (strong fairness of `Run`); the observer goes on when it sends; a peer reads what
  it is sent. No peer is obliged to ask, to close or to reset.
- `contacts`: a handler that has begun goes on; strongly, since a connection it waits for
  may be there and gone again, and `CallsReturn` of the pool says that a call ends.
- `client_stream`, `client_joined`: both threads and the server's loop run. Nobody is
  obliged to choose anything at a menu.

## Proofs

Each proof module shows its theorems for every value of the constants.

| Theorem | States |
|---|---|
| `ChatServiceProofs` `TypeCorrect`, `NoForeignRoute`, `LockDiscipline` | `TypeOK`, `RoutesMatchSessions`, `LockMatchesSteps`, with overlapping logins, failing calls and restarts |
| `ChatServiceProofs` `OneCopyInvariance`, `DeliveredOnce` | `ImplementsDelivery` for one server, with the same |
| `ChatPresenceProofs` `PresenceInvariance`, `OneSession`, `OnlineIsConnected`, `TableMatchesMaps`, `ChannelsFollowRoutes` | `SingleSession`, `OnlineMeansConnected`, `PresenceAgrees`, `SubscriptionsFollowRoutes` while nothing disturbs them |
| `ChatPresenceProofs` `NothingLostOnceSignedIn` | `NoLossOnceSignedIn`, on any number of servers |
| `ConnectionpoolProofs` `TypeCorrect`, `NeverShared`, `CntIsCount`, `WaitOnlyInCrowds` | `TypeOK`, `NoSharing`, `Accounting`, `OnlyCrowdsWait` |
| `ConnectionpoolProofs` `NeverSleepsHungry` | `ProducerAwake` |
| `ConnectionpoolProofs` `DeployedPoolSuffices` | with at most `initSize` threads nobody waits, fails, or reads an empty queue |
| `LoopThreadProofs` `TypeCorrect`, `NeverAsleepOnWork`, `RunsInOrder` | `TypeOK`, `NoSleepOnWork`, `ImplementsExecutor` |
| `LoopThreadProofs` `ThreadRunsLoop`, `PointerIsGood` | the thread's loop is a behaviour of EventLoop; `EndsOnlyOnceTold` |
| `BufferProofs` `TypeCorrect`, `IsByteQueue`, `GrowsWhenFull` | `TypeOK`, `ImplementsByteQueue`, `GrowsOnlyWhenFull` |
| `ClientProofs` `TypeCorrect`, `MenuHasRoute`, `QuietUsersAreOffline`, `OneAnswerPerQuestion` | `TypeOK`, `MenuMeansRoute`, `QuietMeansOffline`, `AnswersPaired` |
| `TcpServerProofs` `ServerInvariance`, `TypeCorrect`, `NothingDangles`, `ClosedOnce`, `TextsGoInOrder` | `TypeOK`, `NoDangling`, `CloseOnce`, `InOrder`, for every value of `Mapped` and `Modifies` |
| `TcpServerProofs` `EndsHaveReasons` | `EndsForAReason`, with the same |
| `ContactsProofs` `TypeCorrect`, `IdsAreOwn`, `StaysInSync`, `GroupsHaveCreators` | `TypeOK`, `OwnId`, `InSync`, `CreatorEntered` |

Every invariant a passing run checks is the subject of a theorem, and so are the
properties of steps and the refinements. The proofs assume what the modules state of their
constants (`ChatAssumption`, `PoolAssumption`, `LoopAssumption`, `ThreadAssumption`,
`BufferAssumption`, `ClientAssumption`, `ContactsAssumption`, `ServerAssumption`): what kind
of thing each constant is, that `initSize <= maxSize`, and, of TcpServer, that
`None` is no connection and at least one hang-up is handled (`MaxCloses >= 1`; with a bound
of zero a hang-up would never be). Some theorems have a hypothesis of their own,
each with a run or a step of the code that shows why:

- **Presence** is proved of every state in which `Undisturbed` holds: logins of one user do not
  overlap (`SerialLogins`), since `chat_double_login` signs a user in twice without it, and no
  call has failed so far (`faults = 0`), since the handlers ignore a failed `UPDATE`
  or `SUBSCRIBE` and go on. What relates the table to the maps needs `restarts = 0` as
  well, since `reset` leaves its users online (`chat_restart`); `OneSession` and
  `ChannelsFollowRoutes` do not.
- **`NothingLostOnceSignedIn`** is about steps and takes `MaxFaults = MaxRestarts = 0`, like the
  run.
- **`DeliveredOnce`** is about one server, like the run. With two it is not so: both may be
  subscribed to the channel of a user for a while, one before its `UNSUBSCRIBE` is executed,
  and each hands the message on.

The arguments:

- **Routes.** `RoutesMatchSessions` is not inductive: one has to know that a login runs
  on an open connection without a session, and that a session outlives its connection
  only until `CloseErase` (`LoginsFresh`), and that a thread's locals are set where a
  step reads them (`LocalsSet`). `LockMatchesSteps` is inductive with the types,
  because a thread enters the locked steps only when the lock is free.
- **Presence.** A connection *owns* a user (`Owns`) from the look at his row in `login` to the end of
  `loginout` or `clientCloseException`. `PresenceInv` says that a user has one owner (`OneOwner`), that
  one who leaves has no session any more (`LeaversSignedOut`), that an owner past `LoginSetOnline` is
  online (`AcknowledgedOnline`) and one past `LoginInsert` is routed to (`OwnersRouted`), and that
  a server's subscription to him, once the outstanding commands are executed, says whether one of its
  connections has written SUBSCRIBE and not UNSUBSCRIBE (`SubscribedByOwner`). For the last, a queue of commands is reduced to the
  last one for the user (`Wanted`, with `GreatestIndex` from the well-foundedness of the naturals):
  appending a command for him decides, executing the head or appending for others changes nothing.
  The steps follow `Undisturbed` backwards: if no call has failed after a step, none had before.
- **One copy.** `ImplementsDelivery` needs to know where the copies of a message are. `InOneCopy` says
  that, for each user, at most one thread carries it, or the inboxes have it, not both; and once it was
  received, stored or lost none is under way. Every step leaves all copies where they are
  (`Stays`), hands one on (`MovesOn`), or settles it (`Settles`); each of the three keeps the
  invariant and is a step, or no step, of Delivery.
- **The pool.** `NoSharing` and `Accounting` are inductive together with the rule that
  only a thread outside a call, or at its end, holds a connection. `NeverStarved` needs a count: as long as nobody
  waits, borrowed and queued connections are at least `initSize`, so that a caller, who
  holds none, finds one in the queue. `ProducerAwake` is inductive as it stands, with the types: until the
  scanner runs only `Take` empties the queue, and it wakes the producer.
- **The loop.** `BroughtAndWoken`: when the eventfd is zero and nobody is about to write
  it, there is no work, unless the loop has just read the eventfd and goes on to take
  the work (`"swap"`) or to look at `Quit` before it polls again. For the refinement,
  a batch is finished before the next is taken (`BatchFinished`), and appending to
  `PendingFunctors` appends to `functors \o PendingFunctors`.
- **The thread.** Where the owner is says how far the thread can be (`LoopInFrame`): a thread
  that has left `loop()` has left a loop that had stopped. The loop does not stop unless `Quit`
  was set, and until the destructor sets it only a functor can (`QuitIsAsked`); so a call that finds
  the loop gone, or the eventfd closed, comes after one of the two. Since every step of
  LoopThread is one of EventLoop or leaves it alone, EventLoop's theorems hold of it
  (`ThreadRunsLoop`).
- **The client.** `Paired`: of a question in the stream, a login at work, its answer, and
  the post of the semaphore there is at most one, and only while the main thread waits
  for it. `Routed`: from the login on, the user whom the ack, and then the menu, is
  about has a route until his sign-out is read, or is contested. `Single`, for the other direction:
  whoever has a route is somewhere between login and sign-out, and a login is behind
  the sign-out of whoever was there before. `AnswersPaired` counts the messages of a kind, and `Paired`
  bounds each count.
- **TcpServer.** `ServerInv` puts the end of a connection in order: an entry is erased, a
  `removeConnectionInLoop` waits in the base loop, then it leaves `Connections` and a
  `connectDestroyed` waits in its own loop, then it leaves the epoll set. At each point something
  owns it that the next step has not taken yet (`LeaveInTurn`), no `sendInLoop` waits behind its
  `connectDestroyed` (`QueuesOrdered`), and whoever is about to send holds `ConnMutex`, which
  `handleClose` needs before it queues the removal (`SendersLock`), so that the connection, in
  the epoll set and not on its way out (`Ready`), is still there when the functor is pushed, whatever
  the entries say; `NoDangling` follows. A connection that was closed
  listens to nothing but EPOLLHUP (`ClosedAreDeaf`), which gives `CloseOnce`. Most steps are `Quiet`:
  they change no state, map or queue, and keep all parts for one reason. `OrderInv` adds the texts: a
  text that waits in a queue comes from a thread other than the loop, which sends to the connection
  by this queue only, so that nothing it sent later is out or ahead (`TextsFresh`, `QueuedInOrder`),
  and what has gone out is in order (`SentInOrder`). `BytesInv` says of each part that went out that
  it has its bytes or came from another thread than the connection's loop. `EndsForAReason` follows
  from `RemovedOnce` and the peers' part of `ServerInv`, step by step (`StepEnds`).
- **Contacts.** `Owned`: a borrowed connection is nobody else's and not in the queue.
  Therefore what a thread knows of the insert id and the unread rows of its
  connection survives the steps of others (`KeptStep`), and rows are never changed
  (`GrowsStep`). Then `OwnsUser` and `OwnsGroup` say that between a statement and
  `mysql_insert_id` the id is that of the row, `Clean` that a queued connection has nothing
  unread, and `GroupsCared` that a group has its creator, or a failure, or somebody who
  will enter the creator.
- **The buffer.** `TypeOK` holds that indices are in order and in the vector (`Sound`).
  Lemmas state, for any sound buffer, that `resize` and the move keep the contents,
  `Write` appends to them, `ensureWritableBytes` makes the room it was asked for,
  and `retrieve` drops a prefix; the step lemmas combine them.

Only model-checked: the liveness properties (`MessagesSettle`, `HandlersFinish`,
`ReachesWhoStays`, `CallsReturn`, `QueuedIsRun`, `StartLoopReturns`, `DestructorReturns`,
`LoginReturnsOrWasDropped`, `RequestsEnd`, `ClosedAreDestroyed`, `OutputDrains`), which are out of
the prover's reach.

## Findings

Found by a run:

| Run | What happens |
|---|---|
| `chat_double_login` | `login` tests the state and sets it in separate steps: two clients are signed in as one user |
| `chat_restart` | `reset` compares the id with 'online' and selects no row: users of a stopped server stay online |
| `client_joined` | a sign-out and a login in one read: the login is dropped and the client waits for ever |

Found by reading, and part of a model or of the plan:

- The query of the offline messages has an unbalanced parenthesis
  (model/OfflineMessageModel.cpp:25): what was stored is never handed over
  (`OfflineQuery` of ChatService).
- `doLoginResponse` keeps the friend list of the user before when the new one has no
  friends (client.cpp:146).
- `loop` begins with `Quit = false` (webserver/EventLoop.cpp:39): a `quit` before it,
  which `~EventLoopThread` may make, is forgotten (`Enter` of EventLoop, `early` of LoopThread).
- `quit` sets `Quit` before it writes the eventfd (webserver/EventLoop.cpp:51-56), which the
  loop may have closed by then; `QueueInloop` likewise (`Wake` of LoopThread).
- `login` sends its answer before it adds the groups to it (chatservice.cpp:79, 100).
- `createGroup` ignores that its second statement may fail, which leaves a group without
  a creator (chatservice.cpp:201-203, `CreatorEntered`).
- `UserModel::query` does not free a result without rows (model/UserModel.cpp:27-40): harmless
  for the connection, as the rows have been read to the end, but a leak.
- `poll` reports no channel (webserver/Poller.cpp:34), as nothing enters `ChannelMap`, and
  `UpdateChannel` always adds (webserver/Poller.cpp:75): changing the mask of a channel
  that is registered, as `handleClose` and `~EventLoop` do, ends the process.

And, over a `Poller` that keeps its map and modifies (TcpServer):

- `poll` stores what it reports in the mask itself (webserver/Poller.cpp:35). After a report
  of EPOLLOUT alone, `disableWriting` writes back a mask without EPOLLIN: the
  connection is never read again, nor its end noticed.
- EPOLLHUP is reported whatever the mask says, so that `handleClose` may run again before
  `connectDestroyed` has; the second `connectDestroyed` then removes a descriptor
  that is not there, which ends the process.
- SIGPIPE is not ignored (server.cpp:13 handles SIGINT only): a write after a reset ends
  the server.
- `send` from another thread binds `c_str()` of a string that is freed before the functor
  runs (webserver/TcpConnection.cpp:34, `TextOf`).
- A message that does not parse, or of which a read returned a part, throws in
  `json::parse` (chatserver.cpp:29); nobody catches it, and one client ends the server for all
  (`onMessage` of TcpServer, `Terminate` of Client).
- `clientCloseException` stops at the first entry that holds the connection
  (chatservice.cpp:157): a connection in two entries, as after a sign-out that was read together
  with another request and a second login, is never destroyed (`EraseOne`).
- A sign-out erases the entry of the user it names, whosever it is (chatservice.cpp:118), and
  a login keeps an entry that is there (chatservice.cpp:52).
- `shutdown` is called only in `kDisconnected`, where it does nothing; `kDisconnecting` is
  never reached, and `handleWrite` and `sendInLoop` test states they do not mean.
- `Channel`'s mask is not initialised (`NewConnection` takes either value of its EPOLLOUT).

## What is not modelled

- **Contents of texts.** Names, messages, SQL text and JSON are values; a statement
  longer than its 1024 bytes, or broken by a quote, counts as a failing one.
- **Poller as it is, in a run.** With `Mapped = FALSE` nothing is ever accepted, and every
  property of TcpServer would hold for want of a connection.
- **`~TcpServer`, `~EventLoopThreadPool`.** The deployed server ends by `exit` in the SIGINT
  handler and never destroys them. `~EventLoopThread` is modelled for its own sake.
- **Callbacks nobody sets** (write complete, high water mark) and `AddChannel`,
  `disableReading`, which nobody calls.
- **`Connection::update` with other statements**: the statements of ChatService are there,
  one step each; those of Contacts here; both take the pool's promise, `NoSharing`, for granted.
- **hiredis and libmysqlclient**: external. A call may fail once and work the next time; that a
  hiredis context stays unusable after an error, and the observer thread then ends, is left out. There are
  two contexts, one to publish (utils/redis.cpp:38) and one to subscribe (utils/redis.cpp:48); each
  is used by several threads without a lock, which is undefined behaviour inside hiredis.
- **Socket, InetAddress**: single system calls.
- **json.hpp**: vendored, and 21,045 of the repository's 24,021 lines. What matters of it,
  that `parse` stops at a null byte and throws at anything but one value, is in Client.
- **The SIGINT handler** as a signal: `Restart` runs `reset` between two steps of the
  process, not on top of a thread that holds `queueLocker`.

## Plan

Done: ChatService with Delivery, Connectionpool, EventLoop with Executor, LoopThread, Buffer
with ByteQueue, Client, TcpServer, Contacts, and the proofs above. Left, in this order:

1. `DeliveredOnce` for several servers, with an abstract specification that allows the copies two
   subscriptions make.
2. The presence invariants after a failed call: which of them the next complete sign-out restores.
3. The output buffers of the two hiredis contexts, each of which several threads use without a lock.
4. Connectionpool with the SIGINT handler on a thread that holds `queueLocker`.
