------------------------------- MODULE TcpServer --------------------------------
(****************************************************************************)
(* The connections of a server over their loops: TcpServer, TcpConnection,  *)
(* Channel and Poller (webserver/).  The base loop accepts and forgets      *)
(* connections; each belongs to one I/O loop, where its events are handled; *)
(* the loops hand functors to each other through their queues, which are    *)
(* served in order (Executor).  ChatService is there with what it does to   *)
(* connections: it keeps them in UserConnMap and sends to them under        *)
(* ConnMutex, from any loop and from the observer thread of Redis.          *)
(*                                                                          *)
(* Mapped and Modifies say what Poller does.  At this commit both are       *)
(* FALSE: UpdateChannel enters no channel in ChannelMap, so poll reports    *)
(* none, and it adds a descriptor that is already in the epoll set, so the  *)
(* process exits.  TRUE is what poll looks for and what the text "epoll mod *)
(* error" says; only then is there a life of a connection to check.         *)
(*                                                                          *)
(* A text is two parts, so that a write may take one of them.  It is known  *)
(* by the send it comes from, and by whether its bytes are its own: those   *)
(* of a text that comes over a queue may be whatever has taken the place of *)
(* a string freed in the meantime.                                          *)
(****************************************************************************)
EXTENDS Integers, Sequences, FiniteSets, Functions

CONSTANTS
    Base,           \* the base loop
    IoLoops,        \* Loops of EventLoopThreadPool, in order
    Observer,       \* the observer thread of Redis
    Users,
    None,
    Mapped,         \* UpdateChannel enters the channel in ChannelMap
    Modifies,       \* UpdateChannel modifies a descriptor already registered
    Capacity,       \* parts a socket's send buffer holds
    MaxConns,       \* bound: connections accepted
    MaxRequests,    \* bound: requests sent by the peers
    MaxSends,       \* bound: texts sent to connections
    MaxLosses,      \* bound: connections whose peer goes away
    MaxCloses       \* bound: hang-ups of one connection that are handled

ASSUME ServerAssumption ==
    /\ IoLoops \in Seq(Range(IoLoops)) /\ IoLoops # <<>>
    /\ {Base, Observer, None} \cap Range(IoLoops) = {}
    /\ Base # None /\ Observer # None /\ Base # Observer
    /\ Mapped \in BOOLEAN /\ Modifies \in BOOLEAN
    /\ Capacity \in Nat \ {0}
    /\ {MaxConns, MaxRequests, MaxSends, MaxLosses} \subseteq Nat
    /\ MaxCloses \in Nat \ {0}
    /\ None \notin 1..MaxConns

VARIABLES
    process,        \* "running", or how it ended
    Connections,    \* TcpServer's map
    NextLoop,       \* Next of EventLoopThreadPool
    loopOf,         \* loopOf[c]: the connection's Loop
    state,          \* TcpConnection's state; "none" before accept
    events,         \* Channel's events: the mask it asks for, and what poll reported
    OutputBuffer,
    registered,     \* connections whose descriptor is in the epoll set
    interest,       \* interest[c]: the mask the kernel has for it
    queue,          \* queue[l]: functors pending on loop l
    step,           \* step[l]: where an I/O loop, or the observer, is
    active,         \* active[l]: channels reported and not yet handled
    current,        \* current[l]: connection whose event is being handled
    target,         \* target[t]: connection t is about to send to
    UserConnMap,    \* UserConnMap[u]: the connection in the user's entry, or None
    ConnMutex,      \* the thread that holds it across steps
    peer,           \* peer[c]: "open", "closed" or "reset"
    requests,       \* requests[c]: requests that have arrived and are not read
    error,          \* error[c]: the socket has an error to report
    shut,           \* shut[c]: shutdownWrite was called
    sndbuf,         \* sndbuf[c]: parts in the socket's send buffer
    asked, sends,   \* requests and texts so far
    wire,           \* history: wire[c], the parts written to the socket
    closes          \* history: closes[c], calls of handleClose

serverVars == <<Connections, NextLoop, loopOf>>
channelVars == <<events, registered, interest>>
loopVars == <<queue, step, active, current>>
chatVars == <<target, UserConnMap, ConnMutex>>
socketVars == <<error, shut, sndbuf, wire>>
envVars == <<peer, requests, asked>>
vars == <<process, serverVars, state, channelVars, OutputBuffer, loopVars, chatVars,
          socketVars, envVars, sends, closes>>

Conns == 1..MaxConns
Loops == Range(IoLoops)
Senders == Loops \cup {Observer}
Sends == Senders \X (1..MaxSends)
Texts == Senders \X (1..MaxSends) \X {"own", "freed"}
Parts == Texts \X {1, 2}

Functors ==
    [do : {"connectEstablished", "removeConnectionInLoop", "connectDestroyed"}, conn : Conns]
    \cup [do : {"sendInLoop"}, conn : Conns, text : Sends]

TypeOK ==
    /\ process \in {"running", "exit", "SIGPIPE", "terminate"}
    /\ Connections \in SUBSET Conns
    /\ NextLoop \in 0..Len(IoLoops) - 1
    /\ loopOf \in [Conns -> Loops \cup {None}]
    /\ state \in [Conns -> {"none", "kConnecting", "kConnected", "kDisconnected"}]
    /\ events \in [Conns -> SUBSET {"IN", "OUT", "ERR", "HUP"}]
    /\ OutputBuffer \in [Conns -> Seq(Parts)]
    /\ registered \in SUBSET Conns
    /\ interest \in [Conns -> SUBSET {"IN", "OUT", "ERR", "HUP"}]
    /\ queue \in [Loops \cup {Base} -> Seq(Functors)]
    /\ step \in [Senders -> {"poll", "dispatch", "push", "erase", "write"}]
    /\ active \in [Loops -> SUBSET Conns]
    /\ current \in [Loops -> Conns \cup {None}]
    /\ target \in [Senders -> Conns \cup {None}]
    /\ UserConnMap \in [Users -> Conns \cup {None}]
    /\ ConnMutex \in Senders \cup {None}
    /\ peer \in [Conns -> {"none", "open", "closed", "reset"}]
    /\ requests \in [Conns -> 0..MaxRequests]
    /\ error \in [Conns -> BOOLEAN] /\ shut \in [Conns -> BOOLEAN]
    /\ sndbuf \in [Conns -> 0..Capacity]
    /\ asked \in 0..MaxRequests /\ sends \in 0..MaxSends
    /\ wire \in [Conns -> Seq(Parts)]
    /\ closes \in [Conns -> 0..MaxCloses]

\* start() has returned: the acceptor listens and the I/O loops poll.
Init ==
    /\ process = "running"
    /\ Connections = {} /\ NextLoop = 0
    /\ loopOf = [c \in Conns |-> None]
    /\ state = [c \in Conns |-> "none"]
    /\ events = [c \in Conns |-> {}]
    /\ OutputBuffer = [c \in Conns |-> <<>>]
    /\ registered = {} /\ interest = [c \in Conns |-> {}]
    /\ queue = [l \in Loops \cup {Base} |-> <<>>]
    /\ step = [t \in Senders |-> "poll"]
    /\ active = [l \in Loops |-> {}]
    /\ current = [l \in Loops |-> None]
    /\ target = [t \in Senders |-> None]
    /\ UserConnMap = [u \in Users |-> None] /\ ConnMutex = None
    /\ peer = [c \in Conns |-> "none"]
    /\ requests = [c \in Conns |-> 0]
    /\ error = [c \in Conns |-> FALSE] /\ shut = [c \in Conns |-> FALSE]
    /\ sndbuf = [c \in Conns |-> 0]
    /\ asked = 0 /\ sends = 0
    /\ wire = [c \in Conns |-> <<>>]
    /\ closes = [c \in Conns |-> 0]

-----------------------------------------------------------------------------
(* Helpers.                                                                 *)

Queued(l, f) == queue' = [queue EXCEPT ![l] = Append(@, f)]

\* A functor that was bound with the shared_ptr, not with `this'.
Keeps(f, c) == f.conn = c /\ f.do # "sendInLoop"

\* Where an I/O loop goes, and with which connection.
At(l, s, c) ==
    /\ step' = [step EXCEPT ![l] = s]
    /\ current' = [current EXCEPT ![l] = c]

EndEvent(l) == At(l, IF active'[l] = {} THEN "poll" ELSE "dispatch", None)

\* What HandleEvent does after the read callback of c: the write callback if the
\* mask, which a handler may have changed, has EPOLLOUT.
EndRead(l, c) ==
    \/ "OUT" \in events'[c] /\ At(l, "write", c)
    \/ "OUT" \notin events'[c] /\ EndEvent(l)

\* Some shared_ptr to the connection is left.
Alive(c) ==
    /\ state[c] # "none"
    /\ \/ c \in Connections
       \/ \E u \in Users : UserConnMap[u] = c
       \/ \E l \in Loops : current[l] = c
       \/ \E l \in DOMAIN queue : \E i \in 1..Len(queue[l]) : Keeps(queue[l][i], c)

\* The kernel reports that both directions are down.
HungUp(c) == peer[c] = "reset" \/ (peer[c] = "closed" /\ shut[c])

Broken(c) == peer[c] = "reset" \/ shut[c]

\* Channel::update and Poller::UpdateChannel.
UpdateChannel(c, mask) ==
    /\ events' = [events EXCEPT ![c] = mask]
    /\ \/ /\ c \in registered => Modifies
          /\ registered' = registered \cup {c}
          /\ interest' = [interest EXCEPT ![c] = mask]
          /\ UNCHANGED process
       \/ /\ c \in registered /\ ~ Modifies
          /\ process' = "exit"
          /\ UNCHANGED <<registered, interest>>

\* write: as many parts as the send buffer takes, none when it is full.
Takes(c, parts) == LET room == Capacity - sndbuf[c] IN IF room < Len(parts) THEN room ELSE Len(parts)

Written(c, parts) ==
    /\ wire' = [wire EXCEPT ![c] = @ \o SubSeq(parts, 1, Takes(c, parts))]
    /\ sndbuf' = [sndbuf EXCEPT ![c] = @ + Takes(c, parts)]

Rest(c, parts) == SubSeq(parts, Takes(c, parts) + 1, Len(parts))

\* write to a socket whose peer is gone, or that was shut down: an error the
\* socket has to report is returned, once; SIGPIPE is not ignored.
WriteFails(c) ==
    \/ /\ error[c]
       /\ error' = [error EXCEPT ![c] = FALSE]
       /\ UNCHANGED process
    \/ /\ process' = "SIGPIPE"
       /\ UNCHANGED error

-----------------------------------------------------------------------------
(* Sending.                                                                 *)

\* Mutant: nobody asks for EPOLLOUT.
NeverArmed(c, parts) ==
    /\ OutputBuffer' = [OutputBuffer EXCEPT ![c] = @ \o parts]
    /\ UNCHANGED <<channelVars, process>>

\* What is left goes to OutputBuffer, and the channel asks for EPOLLOUT.
BufferOutput(c, parts) ==
    /\ OutputBuffer' = [OutputBuffer EXCEPT ![c] = @ \o parts]
    /\ \/ /\ "OUT" \notin events[c]
          /\ UpdateChannel(c, events[c] \cup {"OUT"})
       \/ /\ "OUT" \in events[c]
          /\ UNCHANGED <<channelVars, process>>

\* Write to the socket, and keep the rest, or an error, in mind.
WriteNow(c, parts) ==
    \/ /\ Broken(c)
       /\ WriteFails(c)
       /\ UNCHANGED <<channelVars, OutputBuffer, shut, sndbuf, wire>>
    \/ /\ ~ Broken(c)
       /\ Written(c, parts)
       /\ UNCHANGED <<error, shut>>
       /\ \/ /\ Rest(c, parts) = <<>>
             /\ UNCHANGED <<channelVars, OutputBuffer, process>>
          \/ /\ Rest(c, parts) # <<>>
             /\ BufferOutput(c, Rest(c, parts))

PartsOf(text) == <<<<text, 1>>, <<text, 2>>>>

\* Mutant: the text is written at once, whatever waits in OutputBuffer.
SendAtOnce(c, text) == WriteNow(c, PartsOf(text))

\* sendInLoop: kDisconnecting, in which it would refuse, is never reached; in
\* kDisconnected it goes on.
sendInLoop(c, text) ==
    LET direct == "OUT" \notin events[c] /\ OutputBuffer[c] = <<>> IN
    \/ direct /\ WriteNow(c, PartsOf(text))
    \/ ~ direct /\ BufferOutput(c, PartsOf(text)) /\ UNCHANGED socketVars

\* The text of a send, and that of thread t's next one.
TextOf(send, bytes) == <<send[1], send[2], bytes>>

Text(t) == <<t, sends + 1, "own">>

\* Bound: one text is left for the thread that holds ConnMutex, which is about to
\* send it.
Room == sends + (IF ConnMutex = None THEN 0 ELSE 1) < MaxSends

CanSend == Room /\ sends' = sends + 1

\* send called by a thread that is not the connection's loop: the functor has the
\* raw pointer, the length, and a pointer to bytes that the caller is about to free.
Push(t) ==
    /\ step[t] = "push"
    /\ sends' = sends + 1
    /\ Queued(loopOf[target[t]], [do |-> "sendInLoop", conn |-> target[t], text |-> <<t, sends + 1>>])
    /\ target' = [target EXCEPT ![t] = None]
    /\ ConnMutex' = None
    /\ UNCHANGED <<channelVars, active>>
    /\ \/ /\ t = Observer
          /\ step' = [step EXCEPT ![t] = "poll"]
          /\ UNCHANGED current
       \/ /\ t # Observer
          /\ EndRead(t, current[t])
    /\ UNCHANGED <<process, serverVars, state, OutputBuffer, UserConnMap, socketVars, envVars, closes>>

\* handleRedisSubscribeMessage finds the user's connection, under ConnMutex.
Observe(d) ==
    /\ step[Observer] = "poll"
    /\ ConnMutex = None
    /\ \E u \in Users : UserConnMap[u] = d
    /\ state[d] = "kConnected"
    /\ Room
    /\ ConnMutex' = Observer
    /\ target' = [target EXCEPT ![Observer] = d]
    /\ step' = [step EXCEPT ![Observer] = "push"]
    /\ UNCHANGED <<process, serverVars, state, channelVars, OutputBuffer, queue, active, current,
                   UserConnMap, socketVars, envVars, sends, closes>>

-----------------------------------------------------------------------------
(* The base loop.                                                           *)

\* Mutant: one loop too many.
NextPastTheEnd == IF NextLoop + 1 > Len(IoLoops) THEN 0 ELSE NextLoop + 1

\* Next, after getNextLoop has taken a loop.
FollowingLoop == IF NextLoop + 1 >= Len(IoLoops) THEN 0 ELSE NextLoop + 1

\* Acceptor::handleRead and newConnection; the mask of the new channel is not
\* initialised, of which only EPOLLOUT makes a difference.
NewConnection ==
    LET c == Cardinality({d \in Conns : state[d] # "none"}) + 1
        l == IoLoops[NextLoop + 1] IN
    /\ Mapped
    /\ c <= MaxConns
    /\ NextLoop' = FollowingLoop
    /\ loopOf' = [loopOf EXCEPT ![c] = l]
    /\ state' = [state EXCEPT ![c] = "kConnecting"]
    /\ \E garbage \in SUBSET {"OUT"} : events' = [events EXCEPT ![c] = garbage]
    /\ Connections' = Connections \cup {c}
    /\ Queued(l, [do |-> "connectEstablished", conn |-> c])
    /\ peer' = [peer EXCEPT ![c] = "open"]
    /\ UNCHANGED <<process, registered, interest, OutputBuffer, step, active, current,
                   chatVars, socketVars, requests, asked, sends, closes>>

\* Mutant: the loop is asked twice to destroy the connection.
RemoveTwice ==
    /\ queue[Base] # <<>>
    /\ LET c == Head(queue[Base]).conn IN
       /\ Connections' = Connections \ {c}
       /\ queue' = [queue EXCEPT ![Base] = Tail(@),
                       ![loopOf[c]] = @ \o <<[do |-> "connectDestroyed", conn |-> c],
                                             [do |-> "connectDestroyed", conn |-> c]>>]
    /\ UNCHANGED <<process, NextLoop, loopOf, state, channelVars, OutputBuffer, step, active, current,
                   chatVars, socketVars, envVars, sends, closes>>

\* removeConnectionInLoop
RemoveConnectionInLoop ==
    /\ queue[Base] # <<>>
    /\ LET c == Head(queue[Base]).conn IN
       /\ Connections' = Connections \ {c}
       /\ queue' = [queue EXCEPT ![Base] = Tail(@),
                       ![loopOf[c]] = Append(@, [do |-> "connectDestroyed", conn |-> c])]
    /\ UNCHANGED <<process, NextLoop, loopOf, state, channelVars, OutputBuffer, step, active, current,
                   chatVars, socketVars, envVars, sends, closes>>

-----------------------------------------------------------------------------
(* An I/O loop: poll, the events, the functors.  The code alternates: all   *)
(* events of a poll, then all functors that are pending; here it may poll   *)
(* again before it runs a functor.                                          *)

Revents(c) ==
    (interest[c] \cap
        ((IF requests[c] > 0 \/ peer[c] # "open" THEN {"IN"} ELSE {})
         \cup (IF sndbuf[c] < Capacity \/ Broken(c) THEN {"OUT"} ELSE {})))
    \cup (IF error[c] THEN {"ERR"} ELSE {})
    \cup (IF HungUp(c) /\ closes[c] < MaxCloses THEN {"HUP"} ELSE {})

\* Poller::poll overwrites the mask of a channel with what is reported.
Poll(l) ==
    LET ready == {c \in registered : loopOf[c] = l /\ Revents(c) # {} /\ Mapped} IN
    /\ step[l] = "poll"
    /\ ready # {}
    /\ events' = [c \in Conns |-> IF c \in ready THEN Revents(c) ELSE events[c]]
    /\ active' = [active EXCEPT ![l] = ready]
    /\ step' = [step EXCEPT ![l] = "dispatch"]
    /\ UNCHANGED <<process, serverVars, state, registered, interest, OutputBuffer, queue, current,
                   chatVars, socketVars, envVars, sends, closes>>

\* Mutant: the mask stays as it is.
CloseKeepsMask(l, c) ==
    /\ state' = [state EXCEPT ![c] = "kDisconnected"]
    /\ UNCHANGED <<channelVars, process>>
    /\ closes' = [closes EXCEPT ![c] = @ + 1]
    /\ At(l, "erase", c)

\* handleClose up to its callbacks.
BeginClose(l, c) ==
    /\ state' = [state EXCEPT ![c] = "kDisconnected"]
    /\ UpdateChannel(c, {})
    /\ closes' = [closes EXCEPT ![c] = @ + 1]
    /\ At(l, "erase", c)

\* clientCloseException erases the first entry that holds the connection, and stops.
EraseOne(c) ==
    \/ /\ \A u \in Users : UserConnMap[u] # c
       /\ UNCHANGED UserConnMap
    \/ \E u \in Users :
          /\ UserConnMap[u] = c
          /\ UserConnMap' = [UserConnMap EXCEPT ![u] = None]

\* Mutant: the connection stays in the map of users.
CloseKeepsEntry(l) ==
    /\ step[l] = "erase"
    /\ ConnMutex = None
    /\ Queued(Base, [do |-> "removeConnectionInLoop", conn |-> current[l]])
    /\ UNCHANGED <<channelVars, active>>
    /\ EndEvent(l)
    /\ UNCHANGED <<process, serverVars, state, OutputBuffer, chatVars, socketVars, envVars, sends, closes>>

\* Mutant: the entry is erased without ConnMutex.
CloseUnlocked(l) ==
    /\ step[l] = "erase"
    /\ EraseOne(current[l])
    /\ Queued(Base, [do |-> "removeConnectionInLoop", conn |-> current[l]])
    /\ UNCHANGED <<channelVars, active>>
    /\ EndEvent(l)
    /\ UNCHANGED <<process, serverVars, state, OutputBuffer, target, ConnMutex, socketVars, envVars,
                   sends, closes>>

\* The rest of handleClose: the connection callback, of which the shutdown does
\* nothing in kDisconnected, and closeCallback, which is
\* TcpServer::removeConnection.  The mask is empty now.
EndClose(l) ==
    /\ step[l] = "erase"
    /\ ConnMutex = None
    /\ EraseOne(current[l])
    /\ Queued(Base, [do |-> "removeConnectionInLoop", conn |-> current[l]])
    /\ UNCHANGED <<channelVars, active>>
    /\ EndEvent(l)
    /\ UNCHANGED <<process, serverVars, state, OutputBuffer, target, ConnMutex, socketVars, envVars,
                   sends, closes>>

\* HandleEvent of a channel that hung up and has nothing to read.
HandleHangup(l) ==
    \E c \in active[l] :
        /\ step[l] = "dispatch"
        /\ "HUP" \in events[c] /\ "IN" \notin events[c]
        /\ active' = [active EXCEPT ![l] = @ \ {c}]
        /\ BeginClose(l, c)
        /\ UNCHANGED <<serverVars, OutputBuffer, queue, chatVars, socketVars, envVars, sends>>

\* handleError: getsockopt takes the error off the socket, and nothing is done.
handleError(l) ==
    \E c \in active[l] :
        /\ step[l] = "dispatch"
        /\ "ERR" \in events[c] /\ ("HUP" \in events[c] => "IN" \in events[c])
        /\ events' = [events EXCEPT ![c] = @ \ {"ERR"}]
        /\ error' = [error EXCEPT ![c] = FALSE]
        /\ UNCHANGED <<process, serverVars, state, registered, interest, OutputBuffer, loopVars, chatVars,
                       shut, sndbuf, wire, envVars, sends, closes>>

\* onMessage.  What does not parse, as when the read has a part of a message or the
\* end of one, throws, and nobody catches it.  A request may ask for no answer, or
\* get one at once, as a registration and a refused login do; a login that is
\* granted enters the connection, unless the user has an entry, and answers; a
\* sign-out erases the entry of the user it names; a chat message finds a
\* connection and sends.  A message to a group is several of these.
onMessage(l, c) ==
    \/ /\ process' = "terminate"
       /\ UNCHANGED <<chatVars, channelVars, OutputBuffer, socketVars, sends, step, current>>
    \/ /\ UNCHANGED <<chatVars, process, channelVars, OutputBuffer, socketVars, sends>>
       /\ EndRead(l, c)
    \/ /\ CanSend
       /\ sendInLoop(c, Text(l))
       /\ EndRead(l, c)
       /\ \/ UNCHANGED chatVars
          \/ /\ ConnMutex = None
             /\ \E u \in Users :
                    /\ UserConnMap[u] = None
                    /\ UserConnMap' = [UserConnMap EXCEPT ![u] = c]
             /\ UNCHANGED <<target, ConnMutex>>
    \/ /\ ConnMutex = None
       /\ \E u \in Users : UserConnMap' = [UserConnMap EXCEPT ![u] = None]
       /\ UNCHANGED <<target, ConnMutex, process, channelVars, OutputBuffer, socketVars, sends>>
       /\ EndRead(l, c)
    \/ \E d \in Range(UserConnMap) \ {None} :
          /\ ConnMutex = None
          /\ state[d] = "kConnected"
          /\ \/ /\ loopOf[d] = l
                /\ CanSend
                /\ sendInLoop(d, Text(l))
                /\ EndRead(l, c)
                /\ UNCHANGED chatVars
             \/ /\ loopOf[d] # l
                /\ Room
                /\ ConnMutex' = l
                /\ target' = [target EXCEPT ![l] = d]
                /\ At(l, "push", c)
                /\ UNCHANGED <<UserConnMap, process, channelVars, OutputBuffer, socketVars, sends>>

\* The read callback: a request is handled, an error is reported and not acted
\* on, the end of the stream closes the connection.
handleRead(l) ==
    \E c \in active[l] :
        /\ step[l] = "dispatch"
        /\ "IN" \in events[c] /\ "ERR" \notin events[c]
        /\ active' = [active EXCEPT ![l] = @ \ {c}]
        /\ \/ /\ requests[c] > 0
              /\ requests' = [requests EXCEPT ![c] = @ - 1]
              /\ onMessage(l, c)
              /\ UNCHANGED <<state, closes>>
           \/ /\ requests[c] = 0 /\ error[c]
              /\ error' = [error EXCEPT ![c] = FALSE]
              /\ UNCHANGED <<process, state, channelVars, OutputBuffer, chatVars, shut, sndbuf, wire,
                             requests, sends, closes>>
              /\ EndRead(l, c)
           \/ /\ requests[c] = 0 /\ ~ error[c] /\ peer[c] # "open"
              /\ BeginClose(l, c)
              /\ UNCHANGED <<requests, chatVars, OutputBuffer, socketVars, sends>>
        /\ UNCHANGED <<serverVars, queue, peer, asked>>

\* HandleEvent of a channel that may only be written.
SkipRead(l) ==
    \E c \in active[l] :
        /\ step[l] = "dispatch"
        /\ {"IN", "HUP", "ERR"} \cap events[c] = {}
        /\ active' = [active EXCEPT ![l] = @ \ {c}]
        /\ UNCHANGED channelVars
        /\ EndRead(l, c)
        /\ UNCHANGED <<process, serverVars, state, OutputBuffer, queue, chatVars, socketVars, envVars,
                       sends, closes>>

\* The write callback: what the socket takes is retrieved; with nothing left the
\* channel stops asking for EPOLLOUT.
handleWrite(l) ==
    LET c    == current[l]
        rest == Rest(c, OutputBuffer[c]) IN
    /\ step[l] = "write"
    /\ \/ /\ OutputBuffer[c] = <<>> \/ (~ Broken(c) /\ Takes(c, OutputBuffer[c]) = 0)
          /\ UNCHANGED <<process, channelVars, OutputBuffer, socketVars>>
       \/ /\ OutputBuffer[c] # <<>> /\ Broken(c)
          /\ WriteFails(c)
          /\ UNCHANGED <<channelVars, OutputBuffer, shut, sndbuf, wire>>
       \/ /\ ~ Broken(c) /\ Takes(c, OutputBuffer[c]) > 0
          /\ Written(c, OutputBuffer[c])
          /\ OutputBuffer' = [OutputBuffer EXCEPT ![c] = rest]
          /\ UNCHANGED error
          /\ \/ /\ rest # <<>>
                /\ UNCHANGED <<process, channelVars, shut>>
             \/ /\ rest = <<>>
                /\ UpdateChannel(c, events[c] \ {"OUT"})
                /\ shut' = [shut EXCEPT ![c] = state[c] = "kDisconnected"]
    /\ UNCHANGED active
    /\ EndEvent(l)
    /\ UNCHANGED <<serverVars, state, queue, chatVars, envVars, sends, closes>>

connectEstablished(c) ==
    /\ state' = [state EXCEPT ![c] = "kConnected"]
    /\ UpdateChannel(c, events[c] \cup {"IN"})
    /\ UNCHANGED <<OutputBuffer, socketVars>>

\* The state is kDisconnected here: ~TcpServer, which would leave it otherwise,
\* never runs.  RemoveChannel fails for a descriptor that is not registered.
connectDestroyed(c) ==
    /\ \/ c \in registered /\ registered' = registered \ {c} /\ UNCHANGED process
       \/ c \notin registered /\ process' = "exit" /\ UNCHANGED registered
    /\ UNCHANGED <<state, events, interest, OutputBuffer, socketVars>>

Run(l) ==
    /\ step[l] = "poll"
    /\ queue[l] # <<>>
    /\ queue' = [queue EXCEPT ![l] = Tail(@)]
    /\ LET f == Head(queue[l]) IN
       \/ f.do = "connectEstablished" /\ connectEstablished(f.conn)
       \/ /\ f.do = "sendInLoop"
          /\ \E bytes \in {"own", "freed"} : sendInLoop(f.conn, TextOf(f.text, bytes))
          /\ UNCHANGED state
       \/ f.do = "connectDestroyed" /\ connectDestroyed(f.conn)
    /\ UNCHANGED <<serverVars, step, active, current, chatVars, envVars, sends, closes>>

-----------------------------------------------------------------------------
(* The peers.                                                               *)

Losses == Cardinality({c \in Conns : peer[c] \in {"closed", "reset"}})

Request(c) ==
    /\ peer[c] = "open" /\ asked < MaxRequests
    /\ asked' = asked + 1
    /\ requests' = [requests EXCEPT ![c] = @ + 1]
    /\ UNCHANGED <<process, serverVars, state, channelVars, OutputBuffer, loopVars, chatVars,
                   socketVars, peer, sends, closes>>

PeerCloses(c) ==
    /\ peer[c] = "open" /\ Losses < MaxLosses
    /\ peer' = [peer EXCEPT ![c] = "closed"]
    /\ UNCHANGED <<process, serverVars, state, channelVars, OutputBuffer, loopVars, chatVars,
                   socketVars, requests, asked, sends, closes>>

PeerResets(c) ==
    /\ peer[c] = "closed" \/ (peer[c] = "open" /\ Losses < MaxLosses)
    /\ peer' = [peer EXCEPT ![c] = "reset"]
    /\ error' = [error EXCEPT ![c] = TRUE]
    /\ UNCHANGED <<process, serverVars, state, channelVars, OutputBuffer, loopVars, chatVars,
                   shut, sndbuf, wire, requests, asked, sends, closes>>

\* A peer that has closed its direction may read on; else it resets.
PeerReads(c) ==
    /\ peer[c] \in {"open", "closed"} /\ sndbuf[c] > 0
    /\ sndbuf' = [sndbuf EXCEPT ![c] = @ - 1]
    /\ UNCHANGED <<process, serverVars, state, channelVars, OutputBuffer, loopVars, chatVars,
                   error, shut, wire, envVars, sends, closes>>

-----------------------------------------------------------------------------
IoLoop(l) ==
    \/ Poll(l) \/ HandleHangup(l) \/ handleError(l) \/ handleRead(l) \/ SkipRead(l)
    \/ handleWrite(l) \/ EndClose(l) \/ Run(l)

Peer(c) == Alive(c) /\ (Request(c) \/ PeerCloses(c) \/ PeerResets(c) \/ PeerReads(c))

Next ==
    /\ process = "running"
    /\ \/ NewConnection \/ RemoveConnectionInLoop
       \/ \E l \in Loops : IoLoop(l)
       \/ \E t \in Senders : Push(t)
       \/ \E c \in Conns : Observe(c) \/ Peer(c)

Spec == Init /\ [][Next]_vars

\* The loops go on; each runs its functors after it has polled, so that none
\* waits for ever; a thread that is sending goes on; a peer that stays reads
\* what it is sent.
Live(A) == process = "running" /\ A

Fairness ==
    /\ \A l \in Loops : WF_vars(Live(Push(l) \/ IoLoop(l))) /\ SF_vars(Live(Run(l)))
    /\ WF_vars(Live(RemoveConnectionInLoop))
    /\ WF_vars(Live(Push(Observer)))
    /\ \A c \in Conns : WF_vars(Live(PeerReads(c) /\ Alive(c)))

FairSpec == Spec /\ Fairness

-----------------------------------------------------------------------------
(* Properties.                                                              *)

\* Whatever points to a connection without owning it (a queued sendInLoop, which
\* is bound with `this', a thread about to call send, a channel that poll has
\* reported, an entry of the epoll set) points to a connection that still lives.
NoDangling ==
    /\ registered \subseteq {c \in Conns : Alive(c)}
    /\ \A l \in Loops : \A c \in active[l] : Alive(c)
    /\ \A t \in Senders : target[t] # None => Alive(target[t])
    /\ \A l \in Loops : \A i \in 1..Len(queue[l]) : Alive(queue[l][i].conn)

\* What goes out on a connection, with what waits in OutputBuffer, is as many bytes
\* as each text has, one text after the other, and two texts of one thread go out in
\* the order in which it sent them, though some were written directly and some by
\* handleWrite, and some came over the queue of the loop.  Only texts that came over
\* the queue, from another thread, may have lost their bytes.
InOrder ==
    \A c \in Conns :
        LET out == wire[c] \o OutputBuffer[c] IN
        /\ \A i \in 1..Len(out) :
              /\ out[i][2] = 2 => i > 1 /\ out[i - 1] = <<out[i][1], 1>>
              /\ out[i][2] = 1 => i < Len(out)
              /\ out[i][1][3] = "freed" => out[i][1][1] # loopOf[c]
        /\ \A i, j \in 1..Len(out) :
              (i < j /\ out[i][1][1] = out[j][1][1] /\ out[i][2] = out[j][2])
                  => out[i][1][2] < out[j][1][2]

\* A lost connection is reported once, by the end of its stream or by a hang-up,
\* though it stays in the epoll set until connectDestroyed.  It is not so when
\* both directions are down: EPOLLHUP is reported whatever the mask says.
CloseOnce == \A c \in Conns : closes[c] <= 1 \/ HungUp(c)

\* The process exits where the removal of a connection was begun twice, once both
\* its directions were down (or where Poller cannot change a mask); it is killed by
\* SIGPIPE where a peer has reset its connection or both directions are down: no
\* order of events, functors and sends of several threads, and no peer that merely
\* closes, brings either about (Poller.cpp:60-79, TcpConnection.cpp:39-48, 121-149).
\* That a message does not parse ends it too, at any request (chatserver.cpp:29).
EndsForAReason ==
    /\ process = "exit" => ~ Modifies \/ \E c \in Conns : closes[c] > 1 /\ HungUp(c)
    /\ process = "SIGPIPE" => \E c \in Conns : HungUp(c)

\* Poll has overwritten the mask with what it reported, and disableWriting has
\* written what was left of it back: the end of the stream is not reported any more.
GoneDeaf(c) == state[c] = "kConnected" /\ "IN" \notin interest[c]

OneEntry(c) ==
    \A u, v \in Users : UserConnMap[u] = c /\ UserConnMap[v] = c => u = v

\* Of a connection whose peer is gone nothing is left in the end: it leaves
\* UserConnMap, Connections and the queues of both loops, if no connection ever was
\* in two entries of UserConnMap; else it is deaf.
ClosedAreDestroyed ==
    [](\A c \in Conns : OneEntry(c)) =>
        \A c \in Conns :
            []<>(process # "running" \/ peer[c] \in {"none", "open"} \/ GoneDeaf(c) \/ ~ Alive(c))

\* What is buffered goes out as long as the peer reads, deaf or not.
OutputDrains ==
    \A c \in Conns :
        []<>(OutputBuffer[c] = <<>> \/ peer[c] # "open" \/ process # "running")
=============================================================================
